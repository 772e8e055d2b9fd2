----------------------------- MODULE InputProofs -----------------------------
(***************************************************************************)
(* What TLC checks of the input for a few mails and settings is proved     *)
(* here for all of them: no mail of a directory is missed but those that   *)
(* are renamed while it is read (Maildir), every line is decoded as its    *)
(* own part declares (Mime), and tokens are combined with their neighbours *)
(* only (TokenStream).  The components take no step together, so each has  *)
(* an invariant of its own, over its own variables, that every step of     *)
(* InputNext keeps.                                                        *)
(***************************************************************************)
EXTENDS MCInput, SequenceTheorems, FiniteSetTheorems, TLAPS

-----------------------------------------------------------------------------
(* MailText.  The lines of a file are taken, held back or still to be read  *)
(* (TextInv); and the readers remember of a file just what tells where its  *)
(* next mail begins (SplitInv).                                             *)

\* The separator that the reader of s holds back.
WaitingIn(s) == IF IsSaved(s) THEN <<s.saved[s.getline]>> ELSE <<>>

\* A stream at whose end nothing is left; only the last line may lack its newline.
IsStream(in) ==
    /\ in \in Stream
    /\ in.eof => in.lines = <<>>
    /\ \A i \in 1 .. Len(in.lines) : in.lines[i].nl \/ i = Len(in.lines)

TextTypes ==
    /\ pc \in {"more", "get", "skip", "eof", "header", "body", "done"}
    /\ opt \in Cases /\ st \in Statics /\ IsStream(fpin) /\ lwsp \in BOOLEAN
    /\ took \in Seq(Line) /\ file \in Seq(Line) /\ WholeFile(opt, file)

\* The mail at hand has been read to its end.
AtEnd == \/ pc \in {"eof", "header", "body"}
         \/ pc = "more" /\ st.next_mail # None /\ ~st.mail_first

\* What the options made of the store.
ModeKept ==
    /\ pc \notin {"more", "done"} => st.next_mail # None
    /\ st.next_mail # None => st.next_mail = IF opt.mbox_mode THEN "mailbox" ELSE "mail"
    /\ st.getline = "simple" \/ opt.mbox_mode

\* A separator is held back by the reader that is in use, and its mail comes next.
SavedIsNext ==
    \A g \in {"mailbox", "rmail", "ant"} :
        st.saved[g] # None => g = st.getline /\ st.next_mail = "mailbox" /\ st.have_message

TextInv ==
    /\ TextTypes /\ ModeKept /\ SavedIsNext
    /\ took \o WaitingIn(st) \o fpin.lines = file
    /\ AtEnd => IsSaved(st) \/ fpin.lines = <<>>
    /\ Exhausted => took = file

\* A line at which a mail begins, and one at which the mail before it ends.
Separates(s, x) ==
    /\ x.k = s.sep
    /\ \/ s.getline = "mailbox" /\ (s.firstline \/ s.emptyline)
       \/ s.getline = "rmail" /\ s.bytesleft = 0
       \/ s.getline = "ant" /\ s.dot_found
Cuts(s, x) == Separates(s, x) /\ ~s.firstline

\* The reader takes the line without a look at it.
Unseen(s) == s.getline = "simple" \/ (s.getline = "rmail" /\ s.bytesleft > 0)

\* The reader is the same after the line.
SameReader(s, t) ==
    /\ t.sep = s.sep /\ t.getline = s.getline
    /\ t.next_mail = s.next_mail /\ t.mail_first = s.mail_first

\* What is remembered of a line that was read.
Noted(s, t, x) ==
    /\ t.firstline = (s.firstline /\ ~Separates(s, x))
    /\ t.have_message = IF Unseen(s) THEN s.have_message ELSE Cuts(s, x)
    /\ t.saved = IF Cuts(s, x) THEN [s.saved EXCEPT ![s.getline] = x] ELSE s.saved
    /\ t.emptyline = IF s.getline = "mailbox" THEN IsEol(x) /\ ~Cuts(s, x) ELSE s.emptyline
    /\ t.bytesleft = IF s.getline # "rmail" THEN s.bytesleft
                     ELSE IF s.bytesleft > 0 THEN s.bytesleft - 1
                     ELSE IF Separates(s, x) THEN x.n ELSE s.bytesleft
    /\ t.dot_found = IF s.getline # "ant" THEN s.dot_found
                     ELSE ~Separates(s, x) /\ (s.dot_found \/ x.k = "dot")

\* What is remembered of the end.
EndNoted(s, t) ==
    /\ t.firstline = s.firstline /\ t.saved = s.saved
    /\ t.have_message = IF Unseen(s) THEN s.have_message ELSE FALSE
    /\ t.bytesleft = s.bytesleft /\ t.dot_found = s.dot_found

\* The markers, and the fields of the statics.
LEMMA TextMarkers ==
    /\ None \notin Line /\ EOF \notin Line /\ None \notin Kinds /\ Separators \subseteq Kinds
    /\ None # "mail" /\ None # "mailbox"
    /\ \A x \in Line : x.k \in Kinds /\ x.n \in Nat /\ x.nl \in BOOLEAN /\ x # EOF /\ x # None
BY MarkersAssumption DEF Line, Kinds, Separators

\* A line of the stream, or its end (buff_fgetsln).
LEMMA FgetsReads ==
    ASSUME NEW s \in Statics, NEW in, IsStream(in), NEW l \in BOOLEAN,
           NEW r, r = Fgets(s, in, l)
    PROVE  /\ r = [s |-> s, in |-> r.in, line |-> r.line, lwsp |-> r.lwsp]
           /\ IsStream(r.in) /\ r.lwsp \in BOOLEAN
           /\ in.lines = <<>> => r.line = EOF /\ r.in.lines = <<>>
           /\ in.lines # <<>> => /\ r.line = Head(in.lines) /\ r.line \in Line
                                 /\ r.in.lines = Tail(in.lines) /\ r.lwsp = IsLwsp(r.line)
<1>1. in.lines \in Seq(Line) /\ in.eof \in BOOLEAN
  BY DEF IsStream, Stream
<1>2. CASE in.eof
  <2>1. r = [s |-> s, in |-> in, line |-> EOF, lwsp |-> l] /\ in.lines = <<>>
    BY <1>2 DEF Fgets, Result, IsStream
  <2> QED BY <2>1
<1>3. CASE ~in.eof /\ in.lines = <<>>
  <2> DEFINE e == [in EXCEPT !.eof = TRUE]
  <2>1. r = [s |-> s, in |-> e, line |-> EOF, lwsp |-> FALSE]
    BY <1>3 DEF Fgets, Result
  <2>2. IsStream(e) /\ e.lines = <<>>
    BY <1>3 DEF IsStream, Stream
  <2> HIDE DEF e
  <2> QED BY <1>3, <2>1, <2>2
<1>4. CASE ~in.eof /\ in.lines # <<>>
  <2> DEFINE x == Head(in.lines) t == Tail(in.lines) rest == [lines |-> t, eof |-> ~x.nl]
  <2>1. r = [s |-> s, in |-> rest, line |-> x, lwsp |-> IsLwsp(x)]
    BY <1>4 DEF Fgets, Result
  <2>2. /\ x \in Line /\ t \in Seq(Line) /\ Len(t) = Len(in.lines) - 1 /\ Len(in.lines) \in Nat
        /\ \A i \in 1 .. Len(t) : t[i] = in.lines[i + 1]
        /\ x = in.lines[1] /\ Len(in.lines) > 0
    BY <1>1, <1>4, HeadTailProperties, EmptySeq, LenProperties
  <2>3. \A i \in 1 .. Len(t) : t[i].nl \/ i = Len(t)
    BY <2>2 DEF IsStream
  <2>4. ~x.nl => t = <<>>
    <3>0. in.lines[1].nl \/ 1 = Len(in.lines)
      <4>1. 1 \in 1 .. Len(in.lines)
        BY <2>2
      <4>2. \A i \in 1 .. Len(in.lines) : in.lines[i].nl \/ i = Len(in.lines)
        BY DEF IsStream
      <4> QED BY <4>1, <4>2
    <3>1. ~x.nl => Len(t) = 0
      <4> HIDE DEF x, t
      <4> QED BY <2>2, <3>0
    <3> QED BY <3>1, <2>2, EmptySeq
  <2>5. IsStream(rest)
    <3>1. rest \in Stream
      BY <2>2, TextMarkers DEF Stream
    <3> QED BY <3>1, <2>3, <2>4 DEF IsStream
  <2>6. IsLwsp(x) \in BOOLEAN
    BY DEF IsLwsp
  <2> HIDE DEF x, t, rest
  <2>7. rest.lines = t
    BY DEF rest
  <2>8. x = Head(in.lines) /\ t = Tail(in.lines)
    BY DEF x, t
  <2> QED BY <1>4, <2>1, <2>2, <2>5, <2>6, <2>7, <2>8
<1> QED BY <1>1, <1>2, <1>3, <1>4

\* What a call of a reader does that holds a separator back.
GivesBack(s, in, r) ==
    /\ r.s \in Statics /\ r.in = in /\ r.lwsp = FALSE
    /\ r.line = s.saved[s.getline] /\ r.line \in Line
    /\ SameReader(s, r.s)
    /\ r.s.saved = [s.saved EXCEPT ![s.getline] = None]
    /\ r.s.firstline = s.firstline /\ r.s.have_message = s.have_message
    /\ r.s.emptyline = s.emptyline /\ r.s.bytesleft = s.bytesleft /\ r.s.dot_found = s.dot_found

\* A separator that is held back is given next, and nothing is read.
LEMMA SavedReads ==
    ASSUME NEW s \in Statics, NEW in, IsStream(in), NEW l \in BOOLEAN,
           NEW r, r = Getline(s, in, l), IsSaved(s)
    PROVE  GivesBack(s, in, r)
<1>1. /\ s.getline \in {"mailbox", "rmail", "ant"} /\ s.saved[s.getline] \in Line
      /\ s.saved \in [{"mailbox", "rmail", "ant"} -> Line \cup {None}]
  BY DEF IsSaved, Statics
<1> DEFINE v == [s.saved EXCEPT ![s.getline] = None]  t == [s EXCEPT !.saved = v]
<1>2. r = [s |-> t, in |-> in, line |-> s.saved[s.getline], lwsp |-> FALSE]
  BY DEF Getline, Saved, Result
<1>3. v \in [{"mailbox", "rmail", "ant"} -> Line \cup {None}]
  BY <1>1
<1>4. /\ t \in Statics /\ SameReader(s, t) /\ t.saved = v
      /\ t.firstline = s.firstline /\ t.have_message = s.have_message
      /\ t.emptyline = s.emptyline /\ t.bytesleft = s.bytesleft /\ t.dot_found = s.dot_found
  <2> HIDE DEF v
  <2> QED BY <1>3 DEF Statics, SameReader
<1> HIDE DEF t, v
<1>5. r.s = t /\ r.in = in /\ r.line = s.saved[s.getline] /\ r.lwsp = FALSE
  BY <1>2
<1> QED BY <1>1, <1>4, <1>5 DEF v, GivesBack

\* What the readers make of a result, field by field.
LEMMA TerminatedFields ==
    ASSUME NEW r, r = [s |-> r.s, in |-> r.in, line |-> r.line, lwsp |-> r.lwsp]
    PROVE  Terminated(r) = [s |-> r.s, in |-> r.in, line |-> r.line, lwsp |-> r.line # EOF /\ r.lwsp]
<1> DEFINE e == r.line # EOF /\ r.lwsp
<1>1. Terminated(r) = [r EXCEPT !.lwsp = e]
  BY DEF Terminated
<1> HIDE DEF e
<1>2. PICK a, b, c, d : a = r.s /\ b = r.in /\ c = r.line /\ d = r.lwsp
  OBVIOUS
<1>3. r = [s |-> a, in |-> b, line |-> c, lwsp |-> d]
  BY <1>2
<1>4. [r EXCEPT !.lwsp = e] = [s |-> a, in |-> b, line |-> c, lwsp |-> e]
  BY <1>3
<1> QED BY <1>1, <1>2, <1>4 DEF e

\* A separator, field by field.
LEMMA SeparatedFields ==
    ASSUME NEW r, r = [s |-> r.s, in |-> r.in, line |-> r.line, lwsp |-> r.lwsp],
           r.s \in Statics, r.line \in Line, r.s.getline # "simple"
    PROVE  LET a == r.s t == Separated(r)
           IN /\ t = [s |-> t.s, in |-> r.in, line |-> IF a.firstline THEN r.line ELSE EOF, lwsp |-> r.lwsp]
              /\ t.s \in Statics /\ SameReader(a, t.s)
              /\ t.s.firstline = FALSE
              /\ t.s.have_message = (~a.firstline \/ a.have_message)
              /\ t.s.saved = IF a.firstline THEN a.saved ELSE [a.saved EXCEPT ![a.getline] = r.line]
              /\ t.s.emptyline = a.emptyline /\ t.s.bytesleft = a.bytesleft
              /\ t.s.dot_found = a.dot_found
<1>0. PICK a, b, c, d, t : /\ a = r.s /\ b = r.in /\ c = r.line /\ d = r.lwsp /\ t = Separated(r)
  OBVIOUS
<1>1. /\ r = [s |-> a, in |-> b, line |-> c, lwsp |-> d]
       /\ a \in Statics /\ c \in Line /\ a.getline # "simple"
  BY <1>0
<1>3. CASE a.firstline
  <2> DEFINE u == [a EXCEPT !.firstline = FALSE]
  <2>1. t = [s |-> u, in |-> b, line |-> c, lwsp |-> d]
    BY <1>0, <1>1, <1>3 DEF Separated
  <2>2. /\ u \in Statics /\ SameReader(a, u) /\ u.firstline = FALSE
        /\ u.have_message = a.have_message /\ u.saved = a.saved /\ u.emptyline = a.emptyline
        /\ u.bytesleft = a.bytesleft /\ u.dot_found = a.dot_found /\ a.have_message \in BOOLEAN
    BY <1>1 DEF Statics, SameReader
  <2> HIDE DEF u
  <2> QED BY <1>0, <1>3, <2>1, <2>2
<1>4. CASE ~a.firstline
  <2> DEFINE v == [a.saved EXCEPT ![a.getline] = c]
             u == [a EXCEPT !.have_message = TRUE, !.saved = v]
  <2>1. t = [s |-> u, in |-> b, line |-> EOF, lwsp |-> d]
    BY <1>0, <1>1, <1>4 DEF Separated
  <2>2. v \in [{"mailbox", "rmail", "ant"} -> Line \cup {None}]
    BY <1>1 DEF Statics
  <2>3. /\ u \in Statics /\ SameReader(a, u) /\ u.firstline = FALSE
        /\ u.have_message = TRUE /\ u.saved = v /\ u.emptyline = a.emptyline
        /\ u.bytesleft = a.bytesleft /\ u.dot_found = a.dot_found
    <3> HIDE DEF v
    <3> QED BY <1>1, <1>4, <2>2 DEF Statics, SameReader
  <2>4. v = [a.saved EXCEPT ![a.getline] = c]
    BY DEF v
  <2> HIDE DEF u, v
  <2>5. t.s = u /\ t = [s |-> t.s, in |-> b, line |-> IF a.firstline THEN c ELSE EOF, lwsp |-> d]
    BY <1>4, <2>1
  <2>6. (~a.firstline \/ a.have_message) = TRUE
    BY <1>4
  <2>7. (IF a.firstline THEN a.saved ELSE v) = v
    BY <1>4
  <2> QED BY <1>0, <2>3, <2>4, <2>5, <2>6, <2>7
<1> QED BY <1>1, <1>3, <1>4 DEF Statics

\* A result with other statics.
LEMMA WithStatics ==
    ASSUME NEW r, r = [s |-> r.s, in |-> r.in, line |-> r.line, lwsp |-> r.lwsp], NEW e
    PROVE  LET other(v) == [s |-> v, in |-> r.in, line |-> r.line, lwsp |-> r.lwsp]
           IN /\ [r EXCEPT !.s.emptyline = e] = other([r.s EXCEPT !.emptyline = e])
              /\ [r EXCEPT !.s.bytesleft = e] = other([r.s EXCEPT !.bytesleft = e])
              /\ [r EXCEPT !.s.dot_found = e] = other([r.s EXCEPT !.dot_found = e])
<1>1. PICK a, b, c, d : a = r.s /\ b = r.in /\ c = r.line /\ d = r.lwsp
  OBVIOUS
<1>2. r = [s |-> a, in |-> b, line |-> c, lwsp |-> d]
  BY <1>1
<1>3. ASSUME NEW v PROVE [r EXCEPT !.s = v] = [s |-> v, in |-> b, line |-> c, lwsp |-> d]
  BY <1>2
<1>4. /\ [r EXCEPT !.s.emptyline = e] = [r EXCEPT !.s = [r.s EXCEPT !.emptyline = e]]
      /\ [r EXCEPT !.s.bytesleft = e] = [r EXCEPT !.s = [r.s EXCEPT !.bytesleft = e]]
      /\ [r EXCEPT !.s.dot_found = e] = [r EXCEPT !.s = [r.s EXCEPT !.dot_found = e]]
  OBVIOUS
<1> QED BY <1>1, <1>3, <1>4

\* What a call of a reader does that holds nothing back.
ReadsOn(s, in, r) ==
    /\ r.s \in Statics /\ IsStream(r.in) /\ r.lwsp \in BOOLEAN /\ SameReader(s, r.s)
    /\ in.lines = <<>> => r.line = EOF /\ r.in.lines = <<>> /\ EndNoted(s, r.s)
    /\ in.lines # <<>> => /\ r.in.lines = Tail(in.lines)
                          /\ Noted(s, r.s, Head(in.lines))
                          /\ r.line = IF Cuts(s, Head(in.lines)) THEN EOF ELSE Head(in.lines)
    /\ r.line = EOF /\ ~Unseen(s) => ~r.lwsp

\* What each reader does of this: simple_getline, ...
LEMMA SimpleReads ==
    ASSUME NEW s \in Statics, NEW in, IsStream(in), NEW l \in BOOLEAN,
           NEW r, r = Getline(s, in, l), s.getline = "simple"
    PROVE  ReadsOn(s, in, r)
<1>1. ~IsSaved(s)
  BY DEF IsSaved
<1>2. PICK f : f = Fgets(s, in, l)
  OBVIOUS
<1>3. r = Terminated(f)
  BY <1>1, <1>2 DEF Getline, SimpleGetline
<1>4. /\ f = [s |-> s, in |-> f.in, line |-> f.line, lwsp |-> f.lwsp]
      /\ IsStream(f.in) /\ f.lwsp \in BOOLEAN
      /\ in.lines = <<>> => f.line = EOF /\ f.in.lines = <<>>
      /\ in.lines # <<>> => f.line = Head(in.lines) /\ f.line \in Line /\ f.in.lines = Tail(in.lines)
  BY <1>2, FgetsReads
<1>5. r = [s |-> s, in |-> f.in, line |-> f.line, lwsp |-> f.line # EOF /\ f.lwsp]
  <2>1. f.s = s
    BY <1>4
  <2> QED BY <1>3, <1>4, <2>1, TerminatedFields
<1>6. (f.line # EOF /\ f.lwsp) \in BOOLEAN
  OBVIOUS
<1>7. r.s = s /\ r.in = f.in /\ r.line = f.line /\ r.lwsp = (f.line # EOF /\ f.lwsp)
  BY <1>5
<1>8. \A x : ~Separates(s, x) /\ ~Cuts(s, x)
  BY DEF Separates, Cuts
<1>9. Unseen(s) /\ s.firstline \in BOOLEAN
  BY DEF Unseen, Statics
<1>10. EndNoted(s, s) /\ SameReader(s, s)
  BY <1>9 DEF EndNoted, SameReader
<1>11. \A x : Noted(s, s, x)
  BY <1>8, <1>9 DEF Noted
<1> QED BY <1>4, <1>6, <1>7, <1>8, <1>9, <1>10, <1>11 DEF ReadsOn

\* ... mailbox_getline, ...
LEMMA MailboxReads ==
    ASSUME NEW s \in Statics, NEW in, IsStream(in), NEW l \in BOOLEAN,
           NEW r, r = Getline(s, in, l), ~IsSaved(s), s.getline = "mailbox"
    PROVE  ReadsOn(s, in, r)
<1> DEFINE a == [s EXCEPT !.have_message = FALSE]
<1>1. /\ a \in Statics /\ SameReader(s, a) /\ a.have_message = FALSE
      /\ a.firstline = s.firstline /\ a.saved = s.saved /\ a.emptyline = s.emptyline
      /\ a.bytesleft = s.bytesleft /\ a.dot_found = s.dot_found
  BY DEF Statics, SameReader
<1>2. PICK f : f = Fgets(a, in, l)
  OBVIOUS
<1> DEFINE cut == (s.firstline \/ s.emptyline) /\ IsSeparator(f)
           q == IF cut THEN Separated(f) ELSE Terminated(f)
           e == IsEol(q.line)
<1>3. r = [q EXCEPT !.s.emptyline = e]
  BY <1>2 DEF Getline, MailboxGetline
<1> HIDE DEF a
<1>4. /\ f = [s |-> a, in |-> f.in, line |-> f.line, lwsp |-> f.lwsp]
      /\ IsStream(f.in) /\ f.lwsp \in BOOLEAN
      /\ in.lines = <<>> => f.line = EOF /\ f.in.lines = <<>>
      /\ in.lines # <<>> => /\ f.line = Head(in.lines) /\ f.line \in Line
                            /\ f.in.lines = Tail(in.lines) /\ f.lwsp = IsLwsp(f.line)
  <2>1. a \in Statics
    BY <1>1
  <2>2. /\ f = [s |-> a, in |-> f.in, line |-> f.line, lwsp |-> f.lwsp]
        /\ IsStream(f.in) /\ f.lwsp \in BOOLEAN
    BY <1>2, <2>1, FgetsReads
  <2>3. in.lines = <<>> => f.line = EOF /\ f.in.lines = <<>>
    BY <1>2, <2>1, FgetsReads
  <2>4. in.lines # <<>> => /\ f.line = Head(in.lines) /\ f.line \in Line
                           /\ f.in.lines = Tail(in.lines) /\ f.lwsp = IsLwsp(f.line)
    BY <1>2, <2>1, FgetsReads
  <2> QED BY <2>2, <2>3, <2>4
<1>5. f.s = a
  BY <1>4
<1>6. e \in BOOLEAN
  BY DEF IsEol
<1>7. in.lines # <<>> => (cut <=> Separates(s, Head(in.lines)))
  BY <1>1, <1>4, <1>5, TextMarkers DEF Separates, SameReader, IsSeparator
<1>8. in.lines = <<>> => ~cut
  BY <1>4 DEF IsSeparator
<1>9. ~Unseen(s)
  BY DEF Unseen
<1>10. /\ q = [s |-> q.s, in |-> f.in, line |-> q.line, lwsp |-> q.lwsp]
       /\ q.s \in Statics /\ q.lwsp \in BOOLEAN /\ SameReader(s, q.s)
       /\ q.s.firstline = (s.firstline /\ ~cut)
       /\ q.s.have_message = (cut /\ ~s.firstline)
       /\ q.s.saved = IF cut /\ ~s.firstline THEN [s.saved EXCEPT ![s.getline] = f.line] ELSE s.saved
       /\ q.s.bytesleft = s.bytesleft /\ q.s.dot_found = s.dot_found
       /\ q.line = IF cut /\ ~s.firstline THEN EOF ELSE f.line
       /\ q.line = EOF => ~q.lwsp
  <2>1. CASE ~cut
    <3>1. q = [s |-> f.s, in |-> f.in, line |-> f.line, lwsp |-> f.line # EOF /\ f.lwsp]
      BY <1>4, <1>5, <2>1, TerminatedFields
    <3> DEFINE d == f.line # EOF /\ f.lwsp
    <3>2. d \in BOOLEAN /\ (f.line = EOF => ~d)
      OBVIOUS
    <3> HIDE DEF d, q
    <3>3. q = [s |-> a, in |-> f.in, line |-> f.line, lwsp |-> d]
      BY <3>1, <1>5 DEF d
    <3>4. q.s = a /\ q.in = f.in /\ q.line = f.line /\ q.lwsp = d
      BY <3>3
    <3> HIDE DEF cut
    <3>5. a.firstline \in BOOLEAN /\ s.firstline \in BOOLEAN
      BY <1>1 DEF Statics
    <3> QED BY <1>1, <2>1, <3>2, <3>3, <3>4, <3>5
  <2>2. CASE cut
    <3>1. f.line \in Line /\ f.line # EOF /\ f.lwsp = IsLwsp(f.line) /\ f.line.k = a.sep
      BY <1>4, <1>5, <1>8, <2>2, TextMarkers DEF IsSeparator
    <3>2. ~f.lwsp
      BY <1>1, <3>1, TextMarkers DEF IsLwsp, Statics, Separators
    <3>3. q = Separated(f)
      BY <2>2
    <3> HIDE DEF q, cut
    <3>4. a.getline # "simple" /\ a.firstline = s.firstline /\ s.firstline \in BOOLEAN
      BY <1>1 DEF SameReader, Statics
    <3>5. /\ q = [s |-> q.s, in |-> f.in, line |-> IF a.firstline THEN f.line ELSE EOF, lwsp |-> f.lwsp]
          /\ q.s \in Statics /\ SameReader(a, q.s)
          /\ q.s.firstline = FALSE
          /\ q.s.have_message = (~a.firstline \/ a.have_message)
          /\ q.s.saved = IF a.firstline THEN a.saved ELSE [a.saved EXCEPT ![a.getline] = f.line]
          /\ q.s.emptyline = a.emptyline /\ q.s.bytesleft = a.bytesleft
          /\ q.s.dot_found = a.dot_found
      <4>1. f = [s |-> f.s, in |-> f.in, line |-> f.line, lwsp |-> f.lwsp] /\ f.s \in Statics
        BY <1>1, <1>4, <1>5
      <4> QED BY <1>5, <3>1, <3>3, <3>4, <4>1, SeparatedFields
    <3>6. q.line = (IF s.firstline THEN f.line ELSE EOF) /\ q.lwsp = f.lwsp
      BY <3>4, <3>5
    <3>7. SameReader(s, q.s) /\ a.getline = s.getline
      BY <1>1, <3>5 DEF SameReader
    <3>8. q = [s |-> q.s, in |-> f.in, line |-> q.line, lwsp |-> q.lwsp]
      BY <3>5, <3>6, <3>4
    <3> QED BY <1>1, <1>4, <2>2, <3>2, <3>4, <3>5, <3>6, <3>7, <3>8
  <2> QED BY <2>1, <2>2
<1>11. r = [s |-> [q.s EXCEPT !.emptyline = e], in |-> f.in, line |-> q.line, lwsp |-> q.lwsp]
  <2> HIDE DEF q, e
  <2>1. q = [s |-> q.s, in |-> q.in, line |-> q.line, lwsp |-> q.lwsp] /\ q.in = f.in
    BY <1>10
  <2> QED BY <1>3, <2>1, WithStatics
<1> DEFINE t == [q.s EXCEPT !.emptyline = e]
<1>12. /\ t \in Statics /\ SameReader(q.s, t) /\ t.emptyline = e
       /\ t.firstline = q.s.firstline /\ t.saved = q.s.saved /\ t.have_message = q.s.have_message
       /\ t.bytesleft = q.s.bytesleft /\ t.dot_found = q.s.dot_found
  <2> HIDE DEF q, e
  <2> QED BY <1>6, <1>10 DEF Statics, SameReader
<1>13. r.s = t /\ r.in = f.in /\ r.line = q.line /\ r.lwsp = q.lwsp
  <2> HIDE DEF q, e
  <2>1. r = [s |-> t, in |-> f.in, line |-> q.line, lwsp |-> q.lwsp]
    BY <1>11
  <2> HIDE DEF t
  <2> QED BY <2>1
<1>14. SameReader(s, t)
  BY <1>10, <1>12 DEF SameReader
<1>15. in.lines = <<>> => EndNoted(s, t) /\ q.line = EOF
  <2> HIDE DEF q, t
  <2> QED BY <1>4, <1>8, <1>9, <1>10, <1>12 DEF EndNoted, Statics
<1>16. in.lines # <<>> => Noted(s, t, Head(in.lines)) /\ q.line = IF Cuts(s, Head(in.lines)) THEN EOF ELSE Head(in.lines)
  <2> SUFFICES ASSUME in.lines # <<>>
               PROVE  Noted(s, t, Head(in.lines)) /\ q.line = IF Cuts(s, Head(in.lines)) THEN EOF ELSE Head(in.lines)
    OBVIOUS
  <2>1. f.line = Head(in.lines) /\ (cut <=> Separates(s, Head(in.lines)))
    BY <1>4, <1>7
  <2>2. (cut /\ ~s.firstline) <=> Cuts(s, Head(in.lines))
    BY <2>1 DEF Cuts
  <2>3. e <=> IsEol(Head(in.lines)) /\ ~Cuts(s, Head(in.lines))
    <3> HIDE DEF q, cut
    <3> QED BY <1>10, <2>1, <2>2 DEF IsEol
  <2>4. e = (IsEol(Head(in.lines)) /\ ~Cuts(s, Head(in.lines)))
    BY <1>6, <2>3
  <2> HIDE DEF q, t, e, cut
  <2>5. t.firstline = (s.firstline /\ ~Separates(s, Head(in.lines)))
    BY <1>10, <1>12, <2>1
  <2>6. t.have_message = Cuts(s, Head(in.lines))
    <3>1. Cuts(s, Head(in.lines)) = (cut /\ ~s.firstline)
      BY <2>1 DEF Cuts
    <3> QED BY <1>10, <1>12, <3>1
  <2> QED BY <1>9, <1>10, <1>12, <2>1, <2>2, <2>4, <2>5, <2>6 DEF Noted
<1>17. q.line = EOF => ~q.lwsp
  BY <1>10
<1> HIDE DEF q, t, e, cut
<1> QED BY <1>4, <1>10, <1>12, <1>13, <1>14, <1>15, <1>16, <1>17 DEF ReadsOn

\* ... rmail_getline, ...
LEMMA RmailReads ==
    ASSUME NEW s \in Statics, NEW in, IsStream(in), NEW l \in BOOLEAN,
           NEW r, r = Getline(s, in, l), ~IsSaved(s), s.getline = "rmail"
    PROVE  ReadsOn(s, in, r)
<1>1. CASE s.bytesleft > 0
  <2>1. PICK f : f = Fgets(s, in, l)
    OBVIOUS
  <2>2. /\ f = [s |-> s, in |-> f.in, line |-> f.line, lwsp |-> f.lwsp]
        /\ IsStream(f.in) /\ f.lwsp \in BOOLEAN
    BY <2>1, FgetsReads
  <2>3. in.lines = <<>> => f.line = EOF /\ f.in.lines = <<>>
    BY <2>1, FgetsReads
  <2>4. in.lines # <<>> => /\ f.line = Head(in.lines) /\ f.line \in Line
                           /\ f.in.lines = Tail(in.lines)
    BY <2>1, FgetsReads
  <2>5. Unseen(s)
    BY <1>1 DEF Unseen
  <2>6. s.bytesleft \in Nat /\ s.bytesleft - 1 \in Nat /\ s.bytesleft # 0
    BY <1>1 DEF Statics
  <2>7. CASE in.lines = <<>>
    <3>1. r = f
      BY <1>1, <2>1, <2>3, <2>7 DEF Getline, RmailGetline
    <3>2. r.s = s /\ r.in = f.in /\ r.line = EOF /\ r.lwsp = f.lwsp
      BY <2>2, <2>3, <2>7, <3>1
    <3> QED BY <2>2, <2>3, <2>5, <2>7, <3>2 DEF ReadsOn, EndNoted, SameReader
  <2>8. CASE in.lines # <<>>
    <3> DEFINE x == Head(in.lines) t == [s EXCEPT !.bytesleft = s.bytesleft - 1]
    <3>1. f.line # EOF /\ f.s = s
      BY <2>2, <2>4, <2>8, TextMarkers
    <3>2. r = [f EXCEPT !.s.bytesleft = s.bytesleft - 1]
      BY <1>1, <2>1, <3>1 DEF Getline, RmailGetline
    <3>3. r = [s |-> t, in |-> f.in, line |-> f.line, lwsp |-> f.lwsp]
      BY <2>2, <3>1, <3>2, WithStatics
    <3>4. /\ t \in Statics /\ SameReader(s, t) /\ t.bytesleft = s.bytesleft - 1
          /\ t.firstline = s.firstline /\ t.saved = s.saved /\ t.have_message = s.have_message
          /\ t.emptyline = s.emptyline /\ t.dot_found = s.dot_found /\ s.firstline \in BOOLEAN
      BY <2>6 DEF Statics, SameReader
    <3>5. ~Separates(s, x) /\ ~Cuts(s, x)
      BY <2>6 DEF Separates, Cuts
    <3> HIDE DEF t, x
    <3>6. r.s = t /\ r.in = f.in /\ r.line = f.line /\ r.lwsp = f.lwsp
      BY <3>3
    <3>7. Noted(s, t, x)
      BY <1>1, <2>5, <3>4, <3>5 DEF Noted
    <3> QED BY <2>2, <2>4, <2>5, <2>8, <3>4, <3>5, <3>6, <3>7 DEF ReadsOn, x
  <2> QED BY <2>7, <2>8
<1>2. CASE s.bytesleft = 0
  <2> DEFINE a == [s EXCEPT !.have_message = FALSE]
  <2>1. /\ a \in Statics /\ SameReader(s, a) /\ a.have_message = FALSE
        /\ a.firstline = s.firstline /\ a.saved = s.saved /\ a.emptyline = s.emptyline
        /\ a.bytesleft = s.bytesleft /\ a.dot_found = s.dot_found
    BY DEF Statics, SameReader
  <2>2. PICK f : f = Fgets(a, in, l)
    OBVIOUS
  <2> DEFINE z == [f EXCEPT !.s.bytesleft = f.line.n]
             q == IF IsSeparator(f) THEN Separated(z) ELSE Terminated(f)
  <2>3. r = q
    BY <1>2, <2>2 DEF Getline, RmailGetline
  <2> HIDE DEF a
  <2>4. /\ f = [s |-> a, in |-> f.in, line |-> f.line, lwsp |-> f.lwsp]
        /\ IsStream(f.in) /\ f.lwsp \in BOOLEAN
    <3>1. a \in Statics
      BY <2>1
    <3> QED BY <2>2, <3>1, FgetsReads
  <2>5. in.lines = <<>> => f.line = EOF /\ f.in.lines = <<>>
    <3>1. a \in Statics
      BY <2>1
    <3> QED BY <2>2, <3>1, FgetsReads
  <2>6. in.lines # <<>> => /\ f.line = Head(in.lines) /\ f.line \in Line
                           /\ f.in.lines = Tail(in.lines) /\ f.lwsp = IsLwsp(f.line)
    <3>1. a \in Statics
      BY <2>1
    <3> QED BY <2>2, <3>1, FgetsReads
  <2>7. f.s = a
    BY <2>4
  <2>8. s.firstline \in BOOLEAN /\ ~Unseen(s) /\ ~(s.bytesleft > 0) /\ a.getline = "rmail"
    BY <1>2, <2>1 DEF Statics, Unseen, SameReader
  <2>9. CASE ~IsSeparator(f)
    <3> DEFINE d == f.line # EOF /\ f.lwsp
    <3>1. r = [s |-> a, in |-> f.in, line |-> f.line, lwsp |-> d]
      BY <2>3, <2>4, <2>7, <2>9, TerminatedFields
    <3>2. d \in BOOLEAN /\ (f.line = EOF => ~d)
      OBVIOUS
    <3> HIDE DEF d
    <3>3. r.s = a /\ r.in = f.in /\ r.line = f.line /\ r.lwsp = d
      BY <3>1
    <3>4. in.lines = <<>> => EndNoted(s, a)
      BY <2>1, <2>8 DEF EndNoted
    <3>5. in.lines # <<>> => ~Separates(s, Head(in.lines))
      BY <2>1, <2>6, <2>7, <2>9, TextMarkers DEF Separates, IsSeparator, SameReader
    <3>6. in.lines # <<>> => ~Cuts(s, Head(in.lines)) /\ Noted(s, a, Head(in.lines))
      BY <2>1, <2>8, <3>5 DEF Cuts, Noted
    <3> QED BY <2>1, <2>4, <2>5, <2>6, <3>2, <3>3, <3>4, <3>6 DEF ReadsOn
  <2>10. CASE IsSeparator(f)
    <3>1. /\ f.line # EOF /\ f.line.k = a.sep /\ in.lines # <<>> /\ f.line = Head(in.lines) /\ f.line \in Line
          /\ f.lwsp = IsLwsp(f.line)
      BY <2>5, <2>6, <2>7, <2>10 DEF IsSeparator
    <3>2. ~f.lwsp /\ f.line.n \in Nat
      BY <2>1, <3>1, TextMarkers DEF IsLwsp, Statics, Separators
    <3> DEFINE b == [a EXCEPT !.bytesleft = f.line.n]
    <3>3. z = [s |-> b, in |-> f.in, line |-> f.line, lwsp |-> f.lwsp]
      BY <2>4, <2>7, WithStatics
    <3>4. /\ b \in Statics /\ SameReader(a, b) /\ b.bytesleft = f.line.n
          /\ b.firstline = a.firstline /\ b.saved = a.saved /\ b.have_message = a.have_message
          /\ b.emptyline = a.emptyline /\ b.dot_found = a.dot_found
      BY <2>1, <3>2 DEF Statics, SameReader
    <3>5. r = Separated(z)
      BY <2>3, <2>10
    <3> HIDE DEF b, z
    <3>6. /\ z = [s |-> z.s, in |-> z.in, line |-> z.line, lwsp |-> z.lwsp]
          /\ z.s = b /\ z.in = f.in /\ z.line = f.line /\ z.lwsp = f.lwsp
      BY <3>3
    <3>7. b.getline = "rmail" /\ SameReader(s, b)
      BY <2>1, <2>8, <3>4 DEF SameReader
    <3>8. LET c == z.s t == Separated(z)
          IN /\ t = [s |-> t.s, in |-> z.in, line |-> IF c.firstline THEN z.line ELSE EOF, lwsp |-> z.lwsp]
             /\ t.s \in Statics /\ SameReader(c, t.s)
             /\ t.s.firstline = FALSE
             /\ t.s.have_message = (~c.firstline \/ c.have_message)
             /\ t.s.saved = IF c.firstline THEN c.saved ELSE [c.saved EXCEPT ![c.getline] = z.line]
             /\ t.s.emptyline = c.emptyline /\ t.s.bytesleft = c.bytesleft
             /\ t.s.dot_found = c.dot_found
      BY <3>1, <3>4, <3>6, <3>7, SeparatedFields
    <3>9. /\ r.in = f.in /\ r.line = (IF b.firstline THEN f.line ELSE EOF) /\ r.lwsp = f.lwsp
          /\ r.s \in Statics /\ SameReader(b, r.s) /\ r.s.firstline = FALSE
          /\ r.s.have_message = (~b.firstline \/ b.have_message)
          /\ r.s.saved = IF b.firstline THEN b.saved ELSE [b.saved EXCEPT ![b.getline] = f.line]
          /\ r.s.emptyline = b.emptyline /\ r.s.bytesleft = b.bytesleft /\ r.s.dot_found = b.dot_found
      <4>1. r = [s |-> r.s, in |-> z.in, line |-> IF b.firstline THEN z.line ELSE EOF, lwsp |-> z.lwsp]
        BY <3>5, <3>6, <3>8
      <4>2. r.in = z.in /\ r.line = (IF b.firstline THEN z.line ELSE EOF) /\ r.lwsp = z.lwsp
        BY <4>1
      <4> QED BY <3>5, <3>6, <3>8, <4>2
    <3>10. Separates(s, Head(in.lines)) /\ (Cuts(s, Head(in.lines)) <=> ~s.firstline)
      BY <1>2, <2>1, <2>10, <3>1 DEF Separates, Cuts, SameReader
    <3>11. b.firstline = s.firstline /\ b.saved = s.saved /\ b.have_message = FALSE /\ b.emptyline = s.emptyline
           /\ b.dot_found = s.dot_found /\ b.getline = s.getline
      BY <2>1, <3>4, <3>7 DEF SameReader
    <3>12. r.s.have_message = Cuts(s, Head(in.lines))
      <4>1. Cuts(s, Head(in.lines)) = ~s.firstline
        BY <3>10 DEF Cuts
      <4> QED BY <3>9, <3>11, <4>1
    <3>13. Noted(s, r.s, Head(in.lines))
      BY <2>8, <3>1, <3>4, <3>9, <3>10, <3>11, <3>12 DEF Noted
    <3>14. SameReader(s, r.s)
      BY <3>7, <3>9 DEF SameReader
    <3>15. r.line = IF Cuts(s, Head(in.lines)) THEN EOF ELSE Head(in.lines)
      BY <3>1, <3>9, <3>10, <3>11
    <3> QED BY <2>4, <2>6, <3>1, <3>2, <3>9, <3>13, <3>14, <3>15 DEF ReadsOn
  <2> QED BY <2>9, <2>10
<1> QED BY <1>1, <1>2 DEF Statics

\* ... and ant_getline.
LEMMA AntReads ==
    ASSUME NEW s \in Statics, NEW in, IsStream(in), NEW l \in BOOLEAN,
           NEW r, r = Getline(s, in, l), ~IsSaved(s), s.getline = "ant"
    PROVE  ReadsOn(s, in, r)
<1> DEFINE a == [s EXCEPT !.have_message = FALSE]
<1>1. /\ a \in Statics /\ SameReader(s, a) /\ a.have_message = FALSE
      /\ a.firstline = s.firstline /\ a.saved = s.saved /\ a.emptyline = s.emptyline
      /\ a.bytesleft = s.bytesleft /\ a.dot_found = s.dot_found
  BY DEF Statics, SameReader
<1>2. PICK f : f = Fgets(a, in, l)
  OBVIOUS
<1> DEFINE z == [f EXCEPT !.s.dot_found = FALSE]
           cut == s.dot_found /\ IsSeparator(f)
           dot == s.dot_found \/ (f.line # EOF /\ f.line.k = "dot")
           u == Terminated(f)
           q == IF cut THEN Separated(z) ELSE [u EXCEPT !.s.dot_found = dot]
<1>3. r = q
  BY <1>2 DEF Getline, AntGetline
<1> HIDE DEF a
<1>4. /\ f = [s |-> a, in |-> f.in, line |-> f.line, lwsp |-> f.lwsp]
      /\ IsStream(f.in) /\ f.lwsp \in BOOLEAN
  <2>1. a \in Statics
    BY <1>1
  <2> QED BY <1>2, <2>1, FgetsReads
<1>5. in.lines = <<>> => f.line = EOF /\ f.in.lines = <<>>
  <2>1. a \in Statics
    BY <1>1
  <2> QED BY <1>2, <2>1, FgetsReads
<1>6. in.lines # <<>> => /\ f.line = Head(in.lines) /\ f.line \in Line
                         /\ f.in.lines = Tail(in.lines) /\ f.lwsp = IsLwsp(f.line)
  <2>1. a \in Statics
    BY <1>1
  <2> QED BY <1>2, <2>1, FgetsReads
<1>7. f.s = a
  BY <1>4
<1>8. s.firstline \in BOOLEAN /\ s.dot_found \in BOOLEAN /\ ~Unseen(s) /\ a.getline = "ant"
  BY <1>1 DEF Statics, Unseen, SameReader
<1>9. CASE ~cut
  <2> DEFINE d == f.line # EOF /\ f.lwsp  t == [a EXCEPT !.dot_found = dot]
  <2>1. u = [s |-> a, in |-> f.in, line |-> f.line, lwsp |-> d]
    BY <1>4, <1>7, TerminatedFields
  <2>2. d \in BOOLEAN /\ (f.line = EOF => ~d) /\ dot \in BOOLEAN
    BY <1>8
  <2> HIDE DEF d, u, dot
  <2>3. u.s = a /\ u.in = f.in /\ u.line = f.line /\ u.lwsp = d
        /\ u = [s |-> u.s, in |-> u.in, line |-> u.line, lwsp |-> u.lwsp]
    BY <2>1
  <2>4. r = [u EXCEPT !.s.dot_found = dot]
    BY <1>3, <1>9
  <2>5. r = [s |-> t, in |-> f.in, line |-> f.line, lwsp |-> d]
    BY <2>3, <2>4, WithStatics
  <2>6. /\ t \in Statics /\ SameReader(a, t) /\ t.dot_found = dot
        /\ t.firstline = a.firstline /\ t.saved = a.saved /\ t.have_message = a.have_message
        /\ t.emptyline = a.emptyline /\ t.bytesleft = a.bytesleft
    BY <1>1, <2>2 DEF Statics, SameReader
  <2> HIDE DEF t, cut
  <2>7. r.s = t /\ r.in = f.in /\ r.line = f.line /\ r.lwsp = d
    BY <2>5
  <2>8. SameReader(s, t)
    BY <1>1, <2>6 DEF SameReader
  <2>9. in.lines = <<>> => EndNoted(s, t)
    <3>1. in.lines = <<>> => dot = s.dot_found
      BY <1>5, <1>8 DEF dot
    <3> QED BY <1>1, <1>8, <2>6, <3>1 DEF EndNoted
  <2>10. in.lines # <<>> => ~Separates(s, Head(in.lines))
    BY <1>1, <1>6, <1>7, <1>9, TextMarkers DEF Separates, IsSeparator, SameReader, cut
  <2>11. in.lines # <<>> => dot = (s.dot_found \/ Head(in.lines).k = "dot")
    BY <1>6, TextMarkers DEF dot
  <2>12. in.lines # <<>> => ~Cuts(s, Head(in.lines)) /\ Noted(s, t, Head(in.lines))
    BY <1>1, <1>8, <2>6, <2>10, <2>11 DEF Cuts, Noted
  <2> QED BY <1>4, <1>5, <1>6, <2>2, <2>6, <2>7, <2>8, <2>9, <2>12 DEF ReadsOn
<1>10. CASE cut
  <2>1. /\ f.line # EOF /\ f.line.k = a.sep /\ in.lines # <<>> /\ f.line = Head(in.lines) /\ f.line \in Line
        /\ f.lwsp = IsLwsp(f.line)
    BY <1>5, <1>6, <1>7, <1>10 DEF IsSeparator
  <2>2. ~f.lwsp /\ f.line.n \in Nat
    BY <1>1, <2>1, TextMarkers DEF IsLwsp, Statics, Separators
  <2> DEFINE b == [a EXCEPT !.dot_found = FALSE]
  <2>3. z = [s |-> b, in |-> f.in, line |-> f.line, lwsp |-> f.lwsp]
    BY <1>4, <1>7, WithStatics
  <2>4. /\ b \in Statics /\ SameReader(a, b) /\ b.dot_found = FALSE
        /\ b.firstline = a.firstline /\ b.saved = a.saved /\ b.have_message = a.have_message
        /\ b.emptyline = a.emptyline /\ b.bytesleft = a.bytesleft
    BY <1>1, <2>2 DEF Statics, SameReader
  <2>5. r = Separated(z)
    BY <1>3, <1>10
  <2> HIDE DEF b, z, dot, u
  <2>6. /\ z = [s |-> z.s, in |-> z.in, line |-> z.line, lwsp |-> z.lwsp]
        /\ z.s = b /\ z.in = f.in /\ z.line = f.line /\ z.lwsp = f.lwsp
    BY <2>3
  <2>7. b.getline = "ant" /\ SameReader(s, b)
    BY <1>1, <1>8, <2>4 DEF SameReader
  <2>8. LET c == z.s t == Separated(z)
        IN /\ t = [s |-> t.s, in |-> z.in, line |-> IF c.firstline THEN z.line ELSE EOF, lwsp |-> z.lwsp]
           /\ t.s \in Statics /\ SameReader(c, t.s)
           /\ t.s.firstline = FALSE
           /\ t.s.have_message = (~c.firstline \/ c.have_message)
           /\ t.s.saved = IF c.firstline THEN c.saved ELSE [c.saved EXCEPT ![c.getline] = z.line]
           /\ t.s.emptyline = c.emptyline /\ t.s.bytesleft = c.bytesleft
           /\ t.s.dot_found = c.dot_found
    BY <2>1, <2>4, <2>6, <2>7, SeparatedFields
  <2>9. /\ r.in = f.in /\ r.line = (IF b.firstline THEN f.line ELSE EOF) /\ r.lwsp = f.lwsp
        /\ r.s \in Statics /\ SameReader(b, r.s) /\ r.s.firstline = FALSE
        /\ r.s.have_message = (~b.firstline \/ b.have_message)
        /\ r.s.saved = IF b.firstline THEN b.saved ELSE [b.saved EXCEPT ![b.getline] = f.line]
        /\ r.s.emptyline = b.emptyline /\ r.s.bytesleft = b.bytesleft /\ r.s.dot_found = b.dot_found
    <3>1. r = [s |-> r.s, in |-> z.in, line |-> IF b.firstline THEN z.line ELSE EOF, lwsp |-> z.lwsp]
      BY <2>5, <2>6, <2>8
    <3>2. r.in = z.in /\ r.line = (IF b.firstline THEN z.line ELSE EOF) /\ r.lwsp = z.lwsp
      BY <3>1
    <3> QED BY <2>5, <2>6, <2>8, <3>2
  <2>10. Separates(s, Head(in.lines)) /\ (Cuts(s, Head(in.lines)) <=> ~s.firstline)
    BY <1>1, <1>10, <2>1 DEF Separates, Cuts, SameReader
  <2>11. b.firstline = s.firstline /\ b.saved = s.saved /\ b.have_message = FALSE /\ b.emptyline = s.emptyline
         /\ b.bytesleft = s.bytesleft /\ b.getline = s.getline
    BY <1>1, <2>4, <2>7 DEF SameReader
  <2>12. r.s.have_message = Cuts(s, Head(in.lines))
    <3>1. Cuts(s, Head(in.lines)) = ~s.firstline
      BY <2>10 DEF Cuts
    <3> QED BY <2>9, <2>11, <3>1
  <2>13. Noted(s, r.s, Head(in.lines))
    BY <1>8, <2>1, <2>4, <2>9, <2>10, <2>11, <2>12 DEF Noted
  <2>14. SameReader(s, r.s)
    BY <2>7, <2>9 DEF SameReader
  <2>15. r.line = IF Cuts(s, Head(in.lines)) THEN EOF ELSE Head(in.lines)
    BY <2>1, <2>9, <2>10, <2>11
  <2> QED BY <1>4, <1>6, <2>1, <2>2, <2>9, <2>13, <2>14, <2>15 DEF ReadsOn
<1> QED BY <1>9, <1>10

\* So does the reader that is in use (reader_getline).
LEMMA GetlineReads ==
    ASSUME NEW s \in Statics, NEW in, IsStream(in), NEW l \in BOOLEAN,
           NEW r, r = Getline(s, in, l), ~IsSaved(s)
    PROVE  ReadsOn(s, in, r)
<1>1. s.getline \in {"simple", "mailbox", "rmail", "ant"}
  BY DEF Statics
<1> QED BY <1>1, SimpleReads, MailboxReads, RmailReads, AntReads

\* A line goes from the stream to what has been taken.
LEMMA MovesOn ==
    ASSUME NEW a \in Seq(Line), NEW b \in Seq(Line)
    PROVE  /\ \A x \in Line : Append(a, x) \o <<>> \o b = a \o <<x>> \o b
           /\ b # <<>> => a \o <<Head(b)>> \o Tail(b) = a \o <<>> \o b
<1>1. ASSUME NEW x \in Line PROVE Append(a, x) \o <<>> \o b = a \o <<x>> \o b
  <2>1. Append(a, x) = a \o <<x>> /\ Append(a, x) \in Seq(Line)
    BY AppendIsConcat, AppendProperties
  <2>2. Append(a, x) \o <<>> = Append(a, x)
    BY <2>1, ConcatEmptySeq
  <2> QED BY <2>1, <2>2
<1>2. ASSUME b # <<>> PROVE a \o <<Head(b)>> \o Tail(b) = a \o <<>> \o b
  <2>1. Head(b) \in Line /\ Tail(b) \in Seq(Line) /\ <<Head(b)>> \in Seq(Line)
    <3>1. Head(b) \in Line /\ Tail(b) \in Seq(Line)
      BY <1>2, HeadTailProperties
    <3> QED BY <3>1
  <2>2. <<Head(b)>> \o Tail(b) = b
    <3>1. Len(b) \in Nat /\ Len(b) > 0 /\ b \in [1 .. Len(b) -> Line] /\ Head(b) = b[1]
      BY <1>2, LenProperties, EmptySeq
    <3>2. Len(Tail(b)) = Len(b) - 1 /\ \A i \in 1 .. Len(Tail(b)) : Tail(b)[i] = b[i + 1]
      BY <1>2, HeadTailProperties
    <3>3. Len(<<Head(b)>>) = 1 /\ <<Head(b)>>[1] = Head(b)
      OBVIOUS
    <3> DEFINE c == <<Head(b)>> \o Tail(b)
    <3>4. /\ c \in Seq(Line) /\ Len(c) = Len(b)
          /\ \A i \in 1 .. Len(b) : c[i] = IF i <= 1 THEN <<Head(b)>>[i] ELSE Tail(b)[i - 1]
      BY <2>1, <3>1, <3>2, <3>3, ConcatProperties
    <3> HIDE DEF c
    <3>5. ASSUME NEW i \in 1 .. Len(c) PROVE c[i] = b[i]
      <4>1. CASE i = 1
        BY <3>1, <3>3, <3>4, <4>1
      <4>2. CASE i > 1
        <5>1. i - 1 \in 1 .. Len(Tail(b)) /\ (i - 1) + 1 = i /\ ~(i <= 1)
          BY <3>1, <3>2, <3>4, <4>2
        <5>2. Tail(b)[i - 1] = b[(i - 1) + 1]
          BY <3>2, <5>1
        <5> QED BY <3>4, <5>1, <5>2
      <4> QED BY <3>1, <3>4, <4>1, <4>2
    <3>6. c = b
      BY <3>4, <3>5, SeqEqual
    <3> QED BY <3>6 DEF c
  <2>3. a \o <<Head(b)>> \o Tail(b) = a \o (<<Head(b)>> \o Tail(b))
    BY <2>1, ConcatAssociative
  <2>4. a \o <<>> = a
    BY ConcatEmptySeq
  <2> QED BY <2>2, <2>3, <2>4
<1> QED BY <1>1, <1>2

\* No line is lost with a result: a has been taken before it, b after it.
KeepsLines(s, in, r, a, b) ==
    /\ b \in Seq(Line) /\ r.s \in Statics /\ IsStream(r.in) /\ r.lwsp \in BOOLEAN
    /\ SameReader(s, r.s)
    /\ b \o WaitingIn(r.s) \o r.in.lines = a \o WaitingIn(s) \o in.lines
    /\ r.line = EOF => IsSaved(r.s) \/ r.in.lines = <<>>

\* After a line of a reader the lines are all there.
LEMMA ReadKeepsLines ==
    ASSUME NEW s \in Statics, NEW in, IsStream(in), NEW l \in BOOLEAN,
           NEW r, r = Getline(s, in, l), NEW a \in Seq(Line),
           NEW b, b = IF r.line = EOF THEN a ELSE Append(a, r.line)
    PROVE  KeepsLines(s, in, r, a, b)
<1> USE DEF KeepsLines
<1> DEFINE n == in.lines
<1>1. n \in Seq(Line)
  BY DEF IsStream, Stream
<1>2. CASE IsSaved(s)
  <2>1. /\ r.s \in Statics /\ r.in = in /\ r.lwsp = FALSE
        /\ r.line = s.saved[s.getline] /\ r.line \in Line /\ SameReader(s, r.s)
        /\ r.s.saved = [s.saved EXCEPT ![s.getline] = None]
    <3>1. GivesBack(s, in, r)
      BY <1>2, SavedReads
    <3> QED BY <3>1 DEF GivesBack
  <2>2. s.getline \in {"mailbox", "rmail", "ant"} /\ s.saved \in [{"mailbox", "rmail", "ant"} -> Line \cup {None}]
    BY <1>2 DEF IsSaved, Statics
  <2>3. r.s.saved = [s.saved EXCEPT ![s.getline] = None] /\ r.s.getline = s.getline
    BY <2>1 DEF SameReader
  <2>4. ~IsSaved(r.s)
    BY <2>2, <2>3 DEF IsSaved
  <2>5. WaitingIn(r.s) = <<>> /\ WaitingIn(s) = <<r.line>>
    BY <1>2, <2>1, <2>4 DEF WaitingIn
  <2>6. b = Append(a, r.line) /\ b \in Seq(Line)
    BY <2>1, TextMarkers, AppendProperties
  <2>7. Append(a, r.line) \o <<>> \o n = a \o <<r.line>> \o n
    BY <1>1, <2>1, MovesOn
  <2>8. r.in.lines = n /\ r.line # EOF /\ IsStream(r.in)
    BY <2>1, TextMarkers
  <2> HIDE DEF n
  <2> QED BY <2>1, <2>5, <2>6, <2>7, <2>8 DEF n
<1>3. CASE ~IsSaved(s)
  <2>1. ReadsOn(s, in, r)
    BY <1>3, GetlineReads
  <2>2. r.s \in Statics /\ IsStream(r.in) /\ r.lwsp \in BOOLEAN /\ SameReader(s, r.s)
    BY <2>1 DEF ReadsOn
  <2>3. WaitingIn(s) = <<>>
    BY <1>3 DEF WaitingIn
  <2>4. CASE n = <<>>
    <3>1. r.line = EOF /\ r.in.lines = <<>> /\ r.s.saved = s.saved /\ r.s.getline = s.getline
      BY <2>1, <2>4 DEF ReadsOn, EndNoted, SameReader
    <3>2. WaitingIn(r.s) = <<>>
      BY <1>3, <3>1 DEF IsSaved, WaitingIn
    <3> QED BY <2>2, <2>3, <2>4, <3>1, <3>2
  <2>5. CASE n # <<>>
    <3> DEFINE x == Head(n)
    <3>1. x \in Line /\ x # EOF /\ x # None
      BY <1>1, <2>5, HeadTailProperties, TextMarkers
    <3>2. /\ r.in.lines = Tail(n) /\ Noted(s, r.s, x)
          /\ r.line = IF Cuts(s, x) THEN EOF ELSE x
      BY <2>1, <2>5 DEF ReadsOn
    <3>3. r.s.getline = s.getline
      BY <2>2 DEF SameReader
    <3>4. a \o <<x>> \o Tail(n) = a \o <<>> \o n /\ Append(a, x) \o <<>> \o Tail(n) = a \o <<x>> \o Tail(n)
          /\ Append(a, x) \in Seq(Line)
      <4>1. Tail(n) \in Seq(Line)
        BY <1>1, <2>5, HeadTailProperties
      <4> QED BY <1>1, <2>5, <3>1, <4>1, MovesOn, AppendProperties
    <3> HIDE DEF n, x
    <3>5. CASE Cuts(s, x)
      <4>1. s.getline \in {"mailbox", "rmail", "ant"} /\ r.s.saved = [s.saved EXCEPT ![s.getline] = x]
        BY <3>2, <3>5 DEF Cuts, Separates, Noted
      <4>2. r.s.saved[s.getline] = x
        BY <4>1 DEF Statics
      <4>3. IsSaved(r.s) /\ WaitingIn(r.s) = <<x>>
        BY <3>1, <3>3, <4>1, <4>2 DEF IsSaved, WaitingIn
      <4>4. r.line = EOF /\ b = a
        BY <3>2, <3>5
      <4> QED BY <2>2, <2>3, <3>2, <3>4, <4>3, <4>4 DEF n
    <3>6. CASE ~Cuts(s, x)
      <4>1. r.s.saved = s.saved
        BY <3>2, <3>6 DEF Noted
      <4>2. WaitingIn(r.s) = <<>>
        BY <1>3, <3>3, <4>1 DEF IsSaved, WaitingIn
      <4>3. r.line = x /\ b = Append(a, x)
        BY <3>1, <3>2, <3>6
      <4> QED BY <2>2, <2>3, <3>1, <3>2, <3>4, <4>2, <4>3 DEF n
    <3> QED BY <3>5, <3>6
  <2> QED BY <2>4, <2>5
<1> QED BY <1>2, <1>3

\* A step that reads a line, and what it does to the place in the program.
ReadingStep(r) ==
    /\ pc \in {"get", "skip"} /\ pc' \in {"get", "skip", "eof"}
    /\ r = Getline(st, fpin, lwsp) /\ Read(r)
    /\ pc' = "eof" => r.line = EOF
    /\ r.line = EOF => pc' = "eof" \/ (pc' = "skip" /\ r.lwsp)
    /\ r.line # EOF => pc' # "eof"
    /\ UNCHANGED <<opt, file>>

\* A step that writes what was read.
WritingStep ==
    /\ pc \in {"eof", "header", "body"} /\ pc' \in {"header", "body", "more"}
    /\ UNCHANGED <<opt, file, fpin, st, lwsp, took, starts>>

\* Where a line leads: to the next one, or at the end out of the loop.
LEMMA DeliverCases ==
    ASSUME NEW x, Deliver(x)
    PROVE  IF x = EOF THEN pc' = "eof" ELSE pc' \in {"get", "skip"}
BY DEF Deliver, Keep, IsSpamHeader

\* The steps by what they do to the lines.
LEMMA TextSteps ==
    ASSUME Next
    PROVE  \/ NextMail \/ StoreExhausted \/ OpenStore \/ OpenFails \/ NoMoreStores
           \/ \E r : ReadingStep(r)
           \/ WritingStep
<1>1. CASE GetLine
  <2> DEFINE r == Getline(st, fpin, lwsp)
  <2>1. pc = "get" /\ Read(r) /\ Deliver(r.line) /\ UNCHANGED <<opt, file>>
    BY <1>1 DEF GetLine
  <2> HIDE DEF r
  <2>2. IF r.line = EOF THEN pc' = "eof" ELSE pc' \in {"get", "skip"}
    BY <2>1, DeliverCases
  <2>3. ReadingStep(r)
    BY <2>1, <2>2 DEF ReadingStep, r
  <2> QED BY <2>3
<1>2. CASE SkipFoldedLine
  <2> DEFINE r == Getline(st, fpin, lwsp)
             again == r.lwsp /\ ~IsEol(r.line)
  <2>1. /\ pc = "skip" /\ Read(r) /\ UNCHANGED <<opt, file>>
        /\ IF again THEN pc' = pc ELSE Deliver(r.line)
    BY <1>2 DEF SkipFoldedLine
  <2> HIDE DEF r
  <2>2. CASE again
    BY <2>1, <2>2 DEF ReadingStep, r
  <2>3. CASE ~again
    <3>1. IF r.line = EOF THEN pc' = "eof" ELSE pc' \in {"get", "skip"}
      BY <2>1, <2>3, DeliverCases
    <3> QED BY <2>1, <3>1 DEF ReadingStep, r
  <2> QED BY <2>2, <2>3
<1>3. CASE EndMail \/ SkipSpamHeader \/ HeaderLine \/ EndOfHeader \/ WriteBody
  BY <1>3 DEF EndMail, SkipSpamHeader, HeaderLine, EndOfHeader, WriteBody, WritingStep, read, mails
<1> QED BY <1>1, <1>2, <1>3 DEF Next

\* The lines, as the readers find them.
LEMMA TextInvRead ==
    ASSUME TextInv, NEW r, ReadingStep(r)
    PROVE  TextInv'
<1>1. /\ st \in Statics /\ IsStream(fpin) /\ lwsp \in BOOLEAN /\ took \in Seq(Line) /\ file \in Seq(Line)
      /\ r = Getline(st, fpin, lwsp) /\ opt \in Cases /\ WholeFile(opt, file)
      /\ fpin' = r.in /\ st' = r.s /\ lwsp' = r.lwsp /\ opt' = opt /\ file' = file
      /\ took' = (IF r.line = EOF THEN took ELSE Append(took, r.line))
      /\ pc \in {"get", "skip"} /\ pc' \in {"get", "skip", "eof"} /\ (pc' = "eof" => r.line = EOF)
  BY DEF TextInv, TextTypes, ReadingStep, Read
<1>2. /\ took' \in Seq(Line) /\ r.s \in Statics /\ IsStream(r.in) /\ r.lwsp \in BOOLEAN
      /\ SameReader(st, r.s)
      /\ took' \o WaitingIn(r.s) \o r.in.lines = took \o WaitingIn(st) \o fpin.lines
      /\ r.line = EOF => IsSaved(r.s) \/ r.in.lines = <<>>
  <2>1. KeepsLines(st, fpin, r, took, took')
    BY <1>1, ReadKeepsLines
  <2> QED BY <2>1 DEF KeepsLines
<1>3. TextTypes'
  BY <1>1, <1>2 DEF TextTypes
<1>4. ModeKept'
  BY <1>1, <1>2 DEF TextInv, ModeKept, SameReader
<1>5. SavedIsNext'
  <2> SUFFICES ASSUME NEW g \in {"mailbox", "rmail", "ant"}, r.s.saved[g] # None
               PROVE  g = r.s.getline /\ r.s.next_mail = "mailbox" /\ r.s.have_message
    BY <1>1 DEF SavedIsNext
  <2>1. r.s.getline = st.getline /\ r.s.next_mail = st.next_mail
    BY <1>2 DEF SameReader
  <2>2. st.saved \in [{"mailbox", "rmail", "ant"} -> Line \cup {None}]
    BY <1>1 DEF Statics
  <2>3. st.saved[g] # None => g = st.getline /\ st.next_mail = "mailbox" /\ st.have_message /\ IsSaved(st)
    BY DEF TextInv, SavedIsNext, IsSaved
  <2>4. CASE IsSaved(st)
    <3>1. GivesBack(st, fpin, r)
      BY <1>1, <2>4, SavedReads
    <3>2. r.s.saved = [st.saved EXCEPT ![st.getline] = None] /\ r.s.have_message = st.have_message
      BY <3>1 DEF GivesBack
    <3>3. st.saved[g] # None
      BY <2>2, <3>2
    <3>4. g = st.getline
      BY <2>3, <3>3
    <3> QED BY <2>2, <3>2, <3>4
  <2>5. CASE ~IsSaved(st)
    <3>1. ReadsOn(st, fpin, r)
      BY <1>1, <2>5, GetlineReads
    <3>2. st.saved[g] = None
      BY <2>3, <2>5
    <3>3. fpin.lines # <<>>
      BY <3>1, <3>2 DEF ReadsOn, EndNoted
    <3> DEFINE x == Head(fpin.lines)
    <3>4. Noted(st, r.s, x)
      BY <3>1, <3>3 DEF ReadsOn
    <3> HIDE DEF x
    <3>5. Cuts(st, x)
      BY <3>2, <3>4 DEF Noted
    <3>6. r.s.saved = [st.saved EXCEPT ![st.getline] = x] /\ st.getline # "simple" /\ ~Unseen(st)
      BY <3>4, <3>5 DEF Noted, Cuts, Separates, Unseen
    <3>7. r.s.have_message
      BY <3>4, <3>5, <3>6 DEF Noted
    <3>8. g = st.getline
      BY <2>2, <3>2, <3>6
    <3>9. st.next_mail = "mailbox"
      BY <1>1, <3>6 DEF TextInv, ModeKept
    <3> QED BY <2>1, <3>7, <3>8, <3>9
  <2> QED BY <2>4, <2>5
<1>6. (took \o WaitingIn(st) \o fpin.lines = file)'
  BY <1>1, <1>2 DEF TextInv
<1>7. AtEnd' => IsSaved(r.s) \/ r.in.lines = <<>>
  BY <1>1, <1>2 DEF AtEnd
<1>8. ~Exhausted'
  BY <1>1 DEF Exhausted
<1> QED BY <1>1, <1>3, <1>4, <1>5, <1>6, <1>7, <1>8 DEF TextInv

\* The other steps.
LEMMA TextInvStep ==
    ASSUME TextInv, [Next]_vars, WholeFiles
    PROVE  TextInv'
<1> USE DEF TextInv
<1>1. /\ st \in Statics /\ IsStream(fpin) /\ lwsp \in BOOLEAN /\ took \in Seq(Line) /\ file \in Seq(Line)
      /\ opt \in Cases /\ WholeFile(opt, file)
  BY DEF TextTypes
<1>2. CASE UNCHANGED vars
  BY <1>2 DEF vars, read, mails, TextTypes, ModeKept, SavedIsNext, AtEnd, Exhausted
<1>3. CASE WritingStep
  <2>1. TextTypes' /\ SavedIsNext'
    BY <1>3 DEF WritingStep, TextTypes, SavedIsNext
  <2>2. ModeKept' /\ ~Exhausted'
    BY <1>3 DEF WritingStep, ModeKept, Exhausted
  <2>3. (AtEnd => IsSaved(st) \/ fpin.lines = <<>>)'
    BY <1>3 DEF WritingStep, AtEnd
  <2> QED BY <1>3, <2>1, <2>2, <2>3 DEF WritingStep
<1>4. ASSUME NEW r, ReadingStep(r) PROVE TextInv'
  BY <1>4, TextInvRead
<1>5. CASE NextMail
  <2> DEFINE t == [st EXCEPT !.mail_first = FALSE]
  <2>1. t \in Statics /\ t.next_mail = st.next_mail /\ t.getline = st.getline /\ t.saved = st.saved
        /\ t.have_message = st.have_message
    BY <1>1 DEF Statics
  <2>2. st' = t /\ pc' = "get" /\ UNCHANGED <<opt, file, fpin, lwsp, took>> /\ st.next_mail # None
    BY <1>5 DEF NextMail
  <2> HIDE DEF t
  <2>3. TextTypes' /\ ModeKept' /\ SavedIsNext' /\ ~Exhausted' /\ ~AtEnd'
    BY <1>1, <2>1, <2>2 DEF TextTypes, ModeKept, SavedIsNext, Exhausted, AtEnd
  <2>4. WaitingIn(t) = WaitingIn(st)
    BY <2>1 DEF WaitingIn, IsSaved
  <2> QED BY <2>2, <2>3, <2>4
<1>6. CASE StoreExhausted
  <2> DEFINE t == [st EXCEPT !.mail_first = FALSE, !.next_mail = None]
  <2>1. t \in Statics /\ t.next_mail = None /\ t.getline = st.getline /\ t.saved = st.saved
        /\ t.have_message = st.have_message
    BY <1>1 DEF Statics
  <2>2. st' = t /\ pc = "more" /\ UNCHANGED <<opt, pc, file, fpin, lwsp, took>> /\ st.next_mail # None
        /\ ~MoreMail(st)
    BY <1>6 DEF StoreExhausted, mails
  <2>3. AtEnd
    BY <2>2 DEF AtEnd, MoreMail
  <2>4. \A g \in {"mailbox", "rmail", "ant"} : st.saved[g] = None
    BY <2>2 DEF SavedIsNext, MoreMail
  <2>5. ~IsSaved(st) /\ fpin.lines = <<>>
    <3>1. st.getline \in {"simple", "mailbox", "rmail", "ant"}
      BY <1>1 DEF Statics
    <3> QED BY <2>3, <2>4, <3>1 DEF IsSaved
  <2>6. WaitingIn(st) = <<>> /\ WaitingIn(t) = <<>>
    BY <2>1, <2>5 DEF WaitingIn, IsSaved
  <2>7. took = file
    <3>1. took \o <<>> \o <<>> = took
      BY <1>1, ConcatEmptySeq
    <3> QED BY <2>5, <2>6, <3>1
  <2> HIDE DEF t
  <2>8. TextTypes' /\ ModeKept' /\ SavedIsNext' /\ ~AtEnd'
    BY <1>1, <2>1, <2>2, <2>4 DEF TextTypes, ModeKept, SavedIsNext, AtEnd
  <2> QED BY <2>2, <2>6, <2>7, <2>8
<1>7. CASE OpenStore
  <2>1. PICK f \in Files(opt) : file' = f /\ fpin' = StreamOf(f) /\ st' = Opened(st, f, opt.mbox_mode)
    BY <1>7 DEF OpenStore
  <2>2. /\ took' = <<>> /\ opt' = opt /\ lwsp' = lwsp /\ pc' = "more" /\ pc = "more" /\ st.next_mail = None
    BY <1>7 DEF OpenStore
  <2>3. WholeFile(opt, f) /\ f \in Seq(Line)
    BY <1>1 DEF WholeFiles, WholeFile
  <2> DEFINE t == Opened(st, f, opt.mbox_mode)
  <2>4. /\ t \in Statics /\ t.mail_first = TRUE /\ t.saved = st.saved
        /\ t.next_mail = (IF opt.mbox_mode THEN "mailbox" ELSE "mail")
        /\ ~opt.mbox_mode => t.getline = "simple"
    <3> DEFINE c == IF f = <<>> THEN None ELSE f[1].c
    <3>1. c \in Separators \cup {None}
      <4>1. CASE f # <<>>
        <5>1. f[1] \in Line
          BY <2>3, <4>1, EmptySeq, ElementOfSeq
        <5> QED BY <4>1, <5>1 DEF Line
      <4> QED BY <4>1
    <3>2. ~opt.mbox_mode => c \notin {"rmail", "ant"}
      BY <2>3, TextMarkers DEF WholeFile, Kinds
    <3> DEFINE d == IF c = None THEN st.sep ELSE c
               g == IF c \in {"rmail", "ant"} THEN c ELSE IF opt.mbox_mode THEN "mailbox" ELSE "simple"
               u == [st EXCEPT !.sep = d, !.getline = g]
    <3>3. Selected(st, f, opt.mbox_mode) = u
      BY DEF Selected
    <3>4. d \in Separators \cup {None} /\ g \in {"mailbox", "simple", "rmail", "ant"}
      BY <1>1, <3>1 DEF Statics
    <3>5. ~opt.mbox_mode => g = "simple"
      BY <3>2
    <3> HIDE DEF c, d, g
    <3>6. u \in Statics /\ u.saved = st.saved /\ u.getline = g
      BY <1>1, <3>4 DEF Statics
    <3>7. t = [u EXCEPT !.firstline = TRUE, !.mail_first = TRUE,
                        !.next_mail = IF opt.mbox_mode THEN "mailbox" ELSE "mail"]
      BY <3>3 DEF Opened
    <3> HIDE DEF u, t
    <3> QED BY <3>5, <3>6, <3>7 DEF Statics
  <2>5. \A g \in {"mailbox", "rmail", "ant"} : st.saved[g] = None
    BY <2>2, TextMarkers DEF SavedIsNext
  <2> HIDE DEF t
  <2>6. ~IsSaved(t)
    BY <2>4, <2>5 DEF IsSaved, Statics
  <2>7. IsStream(StreamOf(f)) /\ StreamOf(f).lines = f
    <3>1. \A i \in 1 .. Len(f) : f[i].nl \/ i = Len(f)
      BY <2>3, LenProperties DEF WholeFile
    <3> QED BY <2>3, <3>1 DEF StreamOf, IsStream, Stream
  <2>8. (took \o WaitingIn(st) \o fpin.lines = file)'
    <3>1. <<>> \o <<>> \o f = f
      BY <2>3, ConcatEmptySeq
    <3>2. WaitingIn(t) = <<>> /\ st' = t
      BY <2>1, <2>6 DEF WaitingIn, t
    <3> QED BY <2>1, <2>2, <2>7, <3>1, <3>2
  <2>9. TextTypes'
    BY <1>1, <2>1, <2>2, <2>3, <2>4, <2>7 DEF TextTypes, t
  <2>10. st' = t /\ t.next_mail # None
    BY <2>1, <2>4, TextMarkers DEF t
  <2>11. ModeKept' /\ SavedIsNext' /\ ~AtEnd' /\ ~Exhausted'
    BY <2>2, <2>4, <2>5, <2>10 DEF ModeKept, SavedIsNext, AtEnd, Exhausted
  <2> QED BY <2>8, <2>9, <2>11
<1>8. CASE OpenFails \/ NoMoreStores
  <2>1. pc = "more" /\ st.next_mail = None /\ pc' = "done" /\ UNCHANGED <<opt, file, lwsp, took>>
    BY <1>8 DEF OpenFails, NoMoreStores, read, mails
  <2>2. took = file /\ \A g \in {"mailbox", "rmail", "ant"} : st.saved[g] = None
    BY <2>1, TextMarkers DEF SavedIsNext, Exhausted
  <2>3. /\ st' \in Statics /\ st'.next_mail = None /\ st'.getline = st.getline /\ st'.saved = st.saved
    <3> DEFINE t == [st EXCEPT !.firstline = TRUE]
    <3>1. t \in Statics /\ t.next_mail = st.next_mail /\ t.getline = st.getline /\ t.saved = st.saved
      BY <1>1 DEF Statics
    <3>2. st' = t \/ st' = st
      BY <1>8 DEF OpenFails, NoMoreStores, read
    <3> HIDE DEF t
    <3> QED BY <1>1, <2>1, <3>1, <3>2
  <2>4. WaitingIn(st) = <<>> /\ WaitingIn(st)' = <<>> /\ ~IsSaved(st)
    <3>1. st.getline \in {"simple", "mailbox", "rmail", "ant"}
      BY <1>1 DEF Statics
    <3> QED BY <2>2, <2>3, <3>1 DEF WaitingIn, IsSaved
  <2>5. fpin.lines = <<>> /\ fpin.lines \in Seq(Line)
    <3>1. fpin.lines \in Seq(Line)
      BY <1>1 DEF IsStream, Stream
    <3>2. took \o <<>> = took
      BY <1>1, ConcatEmptySeq
    <3>3. took \o fpin.lines = took
      BY <2>2, <2>4, <3>2
    <3> QED BY <1>1, <3>1, <3>3, ConcatEqualIffEmpty
  <2>6. IsStream(fpin)' /\ fpin'.lines = <<>>
    <3>1. IsStream(Closed) /\ Closed.lines = <<>>
      BY DEF IsStream, Stream, Closed
    <3>2. fpin' = Closed \/ fpin' = fpin
      BY <1>8 DEF OpenFails, NoMoreStores, read
    <3> QED BY <1>1, <2>5, <3>1, <3>2
  <2>7. TextTypes' /\ ModeKept' /\ SavedIsNext' /\ ~AtEnd' /\ ~Exhausted'
    BY <1>1, <2>1, <2>2, <2>3, <2>6 DEF TextTypes, ModeKept, SavedIsNext, AtEnd, Exhausted
  <2>8. took \o <<>> \o <<>> = took
    BY <1>1, ConcatEmptySeq
  <2> QED BY <2>1, <2>2, <2>4, <2>6, <2>7, <2>8
<1> QED BY <1>2, <1>3, <1>4, <1>5, <1>6, <1>7, <1>8, TextSteps

\* It holds at the start, and says that the lines are kept.
LEMMA TextInvInit == ASSUME Init PROVE TextInv
<1>1. InitStatics \in Statics /\ InitStatics.next_mail = None /\ InitStatics.getline = "simple"
      /\ \A g \in {"mailbox", "rmail", "ant"} : InitStatics.saved[g] = None
  BY DEF InitStatics, Statics
<1>2. IsStream(Closed) /\ Closed.lines = <<>>
  BY DEF IsStream, Stream, Closed
<1>3. <<>> \in Seq(Line) /\ \A c : WholeFile(c, <<>>)
  BY DEF WholeFile
<1>4. WaitingIn(InitStatics) = <<>>
  BY <1>1 DEF WaitingIn, IsSaved
<1>5. TextTypes /\ ModeKept /\ SavedIsNext
  BY <1>1, <1>2, <1>3, TextMarkers DEF Init, TextTypes, ModeKept, SavedIsNext
<1>6. took \o WaitingIn(st) \o fpin.lines = file /\ ~AtEnd /\ took = file
  <2>1. <<>> \o <<>> \o <<>> = <<>>
    BY <1>3, ConcatEmptySeq
  <2> QED BY <1>1, <1>2, <1>4, <2>1 DEF Init, AtEnd
<1> QED BY <1>5, <1>6 DEF TextInv

LEMMA TextInvLines == ASSUME TextInv PROVE LinesKept
BY DEF TextInv, LinesKept, Waiting, WaitingIn

-----------------------------------------------------------------------------
(* Where the files are cut *)

\* The indexes at which the mails of a file begin.
Heads(f) ==
    CASE f[1].k = "From"  -> {i \in DOMAIN f : f[i].k = "From" /\ (i > 1 => IsEol(f[i - 1]))}
      [] f[1].k = "rmail" -> CHOOSE heads \in SUBSET DOMAIN f : AreHeads(heads, f)
      [] f[1].k = "ant"   -> {i \in DOMAIN f : i > 1 => f[i - 1].k = "dot"}

Passed == Len(file) - Len(fpin.lines)

\* What the readers remember when they have passed n lines of f.
Remembers(s, f, n) ==
    /\ s.sep = f[1].k
    /\ s.getline = IF f[1].k = "From" THEN "mailbox" ELSE f[1].k
    /\ s.firstline <=> n = 0
    /\ f[1].k = "From" /\ n \in 1 .. Len(f) - 1 => (s.emptyline <=> IsEol(f[n]))
    /\ f[1].k = "rmail" =>
          \/ n = 0 /\ s.bytesleft = 0
          \/ \E i \in Heads(f) : n \in i .. i + f[i].n /\ s.bytesleft = i + f[i].n - n
    /\ f[1].k = "ant" => (s.dot_found <=> n = 0 \/ f[n].k = "dot")

IsCutUp(f) == f # <<>> /\ f[1].k \in {"From", "rmail", "ant"}

Fresh == pc = "get" /\ starts # <<>> /\ starts[Len(starts)] = Len(took) + 1

Begun == {i \in Heads(file) : i <= Len(took)} \cup (IF Fresh THEN {Len(took) + 1} ELSE {})

\* In the order of the file.
Ordered ==
    \A j \in DOMAIN starts : /\ starts[j] \in Nat /\ j <= starts[j]
                             /\ starts[j] <= Len(took) \/ (Fresh /\ starts[j] = Len(took) + 1)
                             /\ \A l \in 1 .. j - 1 : starts[l] < starts[j]

CutInv ==
    IsCutUp(file) =>
        /\ Remembers(st, file, Passed)
        /\ IsSaved(st) => Passed \in Heads(file) \ {1}
        /\ starts \in Seq(Nat) /\ Range(starts) = Begun /\ Ordered
        /\ AtEnd /\ st.have_message => IsSaved(st)
        /\ pc \in {"get", "skip"} => (Fresh <=> IsSaved(st) \/ took = <<>>)
        /\ st.mail_first => pc = "more" /\ took = <<>> /\ starts = <<>>

\* What the readers of batches remember from the file before.
RestInv ==
    /\ ~IsBatch("rmail") => st.bytesleft = 0
    /\ ~IsBatch("ant") => st.dot_found
    /\ st.next_mail # None /\ st.getline \in {"rmail", "ant"} =>
          file # <<>> /\ file[1].c = st.getline /\ st.sep = st.getline

SplitInv == opt.mbox_mode /\ pc # "done" => CutInv /\ RestInv

\* What a file that is cut up looks like at its heads.
LEMMA HeadsOfFile ==
    ASSUME NEW c, NEW f, WholeFile(c, f), IsCutUp(f)
    PROVE  /\ f \in Seq(Line) /\ Len(f) \in Nat /\ 1 <= Len(f) /\ DOMAIN f = 1 .. Len(f)
           /\ \A i \in 1 .. Len(f) : f[i] \in Line
           /\ 1 \in Heads(f) /\ Heads(f) \subseteq 1 .. Len(f)
           /\ \A i \in Heads(f) : f[i].k = f[1].k
           /\ f[1].k = "rmail" => AreHeads(Heads(f), f)
           /\ f[1].k = "ant" => WholeAnt(f)
           /\ f[1].c = f[1].k
<1>1. /\ f \in Seq(Line) /\ Len(f) \in Nat /\ 1 <= Len(f) /\ DOMAIN f = 1 .. Len(f)
      /\ \A i \in 1 .. Len(f) : f[i] \in Line
  <2>1. f \in Seq(Line) /\ f # <<>>
    BY DEF WholeFile, IsCutUp
  <2>2. Len(f) \in Nat \ {0} /\ DOMAIN f = 1 .. Len(f)
    BY <2>1, EmptySeq, LenProperties
  <2> QED BY <2>1, <2>2, ElementOfSeq
<1>2. f[1].k \in {"From", "rmail", "ant"} /\ f[1].c = f[1].k
  BY <1>1 DEF WholeFile, IsCutUp, Separators
<1>3. CASE f[1].k = "From"
  <2>1. Heads(f) = {i \in DOMAIN f : f[i].k = "From" /\ (i > 1 => IsEol(f[i - 1]))}
    BY <1>3 DEF Heads
  <2> QED BY <1>1, <1>2, <1>3, <2>1
<1>4. CASE f[1].k = "rmail"
  <2>1. WholeRmail(f)
    BY <1>1, <1>2, <1>4 DEF WholeFile, IsCutUp
  <2>2. \E heads \in SUBSET DOMAIN f : AreHeads(heads, f)
    BY <2>1 DEF WholeRmail
  <2>3. Heads(f) = CHOOSE heads \in SUBSET DOMAIN f : AreHeads(heads, f)
    BY <1>4 DEF Heads
  <2>4. Heads(f) \in SUBSET DOMAIN f /\ AreHeads(Heads(f), f)
    BY <2>2, <2>3
  <2> QED BY <1>1, <1>2, <1>4, <2>4 DEF AreHeads
<1>5. CASE f[1].k = "ant"
  <2>1. WholeAnt(f)
    BY <1>1, <1>2, <1>5 DEF WholeFile, IsCutUp
  <2>2. Heads(f) = {i \in DOMAIN f : i > 1 => f[i - 1].k = "dot"}
    BY <1>5 DEF Heads
  <2>3. ASSUME NEW i \in Heads(f) PROVE f[i].k = "ant"
    <3>1. CASE i = 1
      BY <1>5, <3>1
    <3>2. CASE i > 1
      <4>1. i - 1 \in 1 .. Len(f) - 1 /\ f[i - 1].k = "dot" /\ (i - 1) + 1 = i
        BY <1>1, <2>2, <3>2
      <4>2. f[(i - 1) + 1].k = "ant"
        BY <2>1, <4>1 DEF WholeAnt
      <4> QED BY <4>1, <4>2
    <3> QED BY <1>1, <2>2, <3>1, <3>2
  <2> QED BY <1>1, <1>2, <1>5, <2>1, <2>2, <2>3
<1> QED BY <1>2, <1>3, <1>4, <1>5

\* The reader takes a line for a separator just where a mail begins.
LEMMA SeparatesAtHeads ==
    ASSUME NEW c, NEW f, WholeFile(c, f), IsCutUp(f), NEW s \in Statics,
           NEW n \in 0 .. Len(f) - 1, Remembers(s, f, n)
    PROVE  /\ Separates(s, f[n + 1]) <=> n + 1 \in Heads(f)
           /\ Cuts(s, f[n + 1]) <=> n + 1 \in Heads(f) \ {1}
<1>1. /\ Len(f) \in Nat /\ 1 <= Len(f) /\ DOMAIN f = 1 .. Len(f)
      /\ 1 \in Heads(f) /\ Heads(f) \subseteq 1 .. Len(f)
      /\ \A i \in 1 .. Len(f) : f[i] \in Line
      /\ \A i \in Heads(f) : f[i].k = f[1].k
      /\ f[1].k = "rmail" => AreHeads(Heads(f), f)
      /\ f[1].k = "ant" => WholeAnt(f)
  BY HeadsOfFile
<1>2. /\ n \in Nat /\ n + 1 \in 1 .. Len(f) /\ (n + 1) - 1 = n /\ (s.firstline <=> n = 0)
      /\ n + 1 > 1 <=> n # 0
  BY <1>1 DEF Remembers
<1>3. Separates(s, f[n + 1]) <=> n + 1 \in Heads(f)
  <2>1. CASE f[1].k = "From"
    <3>1. s.getline = "mailbox" /\ s.sep = "From" /\ (n # 0 => (s.emptyline <=> IsEol(f[n])))
      BY <1>1, <1>2, <2>1 DEF Remembers
    <3>2. Heads(f) = {i \in DOMAIN f : f[i].k = "From" /\ (i > 1 => IsEol(f[i - 1]))}
      BY <2>1 DEF Heads
    <3> QED BY <1>1, <1>2, <3>1, <3>2 DEF Separates
  <2>2. CASE f[1].k = "rmail"
    <3>1. s.getline = "rmail" /\ s.sep = "rmail"
      BY <2>2 DEF Remembers
    <3>2. CASE n = 0
      <4>1. s.bytesleft = 0
        <5>1. \A i \in Heads(f) : ~(0 \in i .. i + f[i].n)
          BY <1>1
        <5> QED BY <2>2, <3>2, <5>1 DEF Remembers
      <4> QED BY <1>1, <2>2, <3>1, <3>2, <4>1 DEF Separates
    <3>3. CASE n # 0
      <4>1. PICK i \in Heads(f) : n \in i .. i + f[i].n /\ s.bytesleft = i + f[i].n - n
        BY <2>2, <3>3 DEF Remembers
      <4>2. /\ i \in 1 .. Len(f) /\ f[i].n \in Nat /\ i + f[i].n <= Len(f)
            /\ i + f[i].n = Len(f) \/ i + f[i].n + 1 \in Heads(f)
            /\ \A l \in i + 1 .. i + f[i].n : l \notin Heads(f)
        BY <1>1, <2>2, TextMarkers DEF AreHeads
      <4>3. CASE s.bytesleft = 0
        <5>1. n = i + f[i].n /\ n # Len(f)
          <6> DEFINE z == f[i].n
          <6>1. z \in Nat /\ i \in Nat /\ n \in Nat
            BY <1>1, <1>2, <4>2
          <6>2. i + z - n = 0
            BY <4>1, <4>3
          <6>3. n # Len(f)
            <7>1. Len(f) \in Nat
              BY <1>1
            <7> QED BY ONLY <7>1, n \in 0 .. Len(f) - 1
          <6> HIDE DEF z
          <6>4. n = i + z
            BY <6>1, <6>2
          <6> QED BY <6>3, <6>4 DEF z
        <5>2. n + 1 \in Heads(f)
          BY <4>2, <5>1
        <5> QED BY <1>1, <2>2, <3>1, <4>3, <5>2 DEF Separates
      <4>4. CASE s.bytesleft # 0
        <5>1. n + 1 \in i + 1 .. i + f[i].n
          BY <1>2, <4>1, <4>2, <4>4
        <5> QED BY <3>1, <4>2, <4>4, <5>1 DEF Separates
      <4> QED BY <4>3, <4>4
    <3> QED BY <3>2, <3>3
  <2>3. CASE f[1].k = "ant"
    <3>1. s.getline = "ant" /\ s.sep = "ant" /\ (s.dot_found <=> n = 0 \/ f[n].k = "dot")
      BY <2>3 DEF Remembers
    <3>2. Heads(f) = {i \in DOMAIN f : i > 1 => f[i - 1].k = "dot"}
      BY <2>3 DEF Heads
    <3>3. n + 1 \in Heads(f) <=> s.dot_found
      BY <1>1, <1>2, <3>1, <3>2
    <3>4. s.dot_found => f[n + 1].k = "ant"
      BY <1>1, <2>3, <3>3
    <3> QED BY <3>1, <3>3, <3>4 DEF Separates
  <2> QED BY <2>1, <2>2, <2>3 DEF IsCutUp
<1>4. Cuts(s, f[n + 1]) <=> n + 1 \in Heads(f) \ {1}
  BY <1>2, <1>3 DEF Cuts
<1> QED BY <1>3, <1>4

\* What is remembered after one more line.
LEMMA RemembersMore ==
    ASSUME NEW c, NEW f, WholeFile(c, f), IsCutUp(f), NEW s \in Statics, NEW t \in Statics,
           NEW n \in 0 .. Len(f) - 1, Remembers(s, f, n),
           Noted(s, t, f[n + 1]), SameReader(s, t)
    PROVE  Remembers(t, f, n + 1)
<1>1. /\ Len(f) \in Nat /\ 1 <= Len(f) /\ DOMAIN f = 1 .. Len(f)
      /\ 1 \in Heads(f) /\ Heads(f) \subseteq 1 .. Len(f)
      /\ \A i \in 1 .. Len(f) : f[i] \in Line
      /\ \A i \in Heads(f) : f[i].k = f[1].k
      /\ f[1].k = "rmail" => AreHeads(Heads(f), f)
      /\ f[1].k = "ant" => WholeAnt(f)
  BY HeadsOfFile
<1>2. n \in Nat /\ n + 1 \in 1 .. Len(f) /\ (s.firstline <=> n = 0) /\ n + 1 # 0
  BY <1>1 DEF Remembers
<1>3. /\ Separates(s, f[n + 1]) <=> n + 1 \in Heads(f)
      /\ Cuts(s, f[n + 1]) <=> n + 1 \in Heads(f) \ {1}
  BY SeparatesAtHeads
<1>4. t.sep = f[1].k /\ t.getline = IF f[1].k = "From" THEN "mailbox" ELSE f[1].k
  BY DEF Remembers, SameReader
<1>5. t.firstline <=> n + 1 = 0
  <2>1. t.firstline = (s.firstline /\ ~Separates(s, f[n + 1]))
    BY DEF Noted
  <2>2. ~t.firstline
    <3>1. n = 0 => Separates(s, f[n + 1])
      BY <1>1, <1>3
    <3> QED BY <1>2, <2>1, <3>1
  <2> QED BY <1>2, <2>2
<1>6. ASSUME f[1].k = "From" PROVE t.emptyline <=> IsEol(f[n + 1])
  <2>1. t.emptyline = (IsEol(f[n + 1]) /\ ~Cuts(s, f[n + 1]))
    BY <1>6 DEF Noted, Remembers
  <2>2. Cuts(s, f[n + 1]) => ~IsEol(f[n + 1])
    BY <1>1, <1>3, <1>6 DEF IsEol
  <2> QED BY <2>1, <2>2
<1>7. ASSUME f[1].k = "rmail"
      PROVE  \E i \in Heads(f) : n + 1 \in i .. i + f[i].n /\ t.bytesleft = i + f[i].n - (n + 1)
  <2>1. s.getline = "rmail" /\ s.bytesleft \in Nat /\ f[n + 1].n \in Nat
    BY <1>1, <1>2, <1>7, TextMarkers DEF Remembers, Statics
  <2>2. t.bytesleft = IF s.bytesleft > 0 THEN s.bytesleft - 1
                      ELSE IF Separates(s, f[n + 1]) THEN f[n + 1].n ELSE s.bytesleft
    BY <2>1 DEF Noted
  <2>3. CASE s.bytesleft > 0
    <3>1. n # 0
      <4>1. \A i \in Heads(f) : ~(0 \in i .. i + f[i].n)
        BY <1>1
      <4> QED BY <1>7, <2>3, <4>1 DEF Remembers
    <3>2. PICK i \in Heads(f) : n \in i .. i + f[i].n /\ s.bytesleft = i + f[i].n - n
      BY <1>7, <3>1 DEF Remembers
    <3>3. i \in 1 .. Len(f) /\ f[i].n \in Nat
      BY <1>1, TextMarkers
    <3>4. n + 1 \in i .. i + f[i].n /\ t.bytesleft = i + f[i].n - (n + 1)
      BY <1>2, <2>2, <2>3, <3>2, <3>3
    <3> QED BY <3>4
  <2>4. CASE s.bytesleft = 0
    <3>1. n + 1 \in Heads(f)
      <4>1. CASE n = 0
        BY <1>1, <4>1
      <4>2. CASE n # 0
        <5>1. PICK i \in Heads(f) : n \in i .. i + f[i].n /\ s.bytesleft = i + f[i].n - n
          BY <1>7, <4>2 DEF Remembers
        <5>2. /\ i \in 1 .. Len(f) /\ f[i].n \in Nat /\ i + f[i].n <= Len(f)
              /\ i + f[i].n = Len(f) \/ i + f[i].n + 1 \in Heads(f)
          BY <1>1, <1>7, TextMarkers DEF AreHeads
        <5>3. n = i + f[i].n /\ n # Len(f)
          <6> DEFINE z == f[i].n
          <6>1. z \in Nat /\ i \in Nat /\ n \in Nat
            BY <1>1, <1>2, <5>2
          <6>2. i + z - n = 0
            BY <2>4, <5>1
          <6>3. n # Len(f)
            <7>1. Len(f) \in Nat
              BY <1>1
            <7> QED BY ONLY <7>1, n \in 0 .. Len(f) - 1
          <6> HIDE DEF z
          <6>4. n = i + z
            BY <6>1, <6>2
          <6> QED BY <6>3, <6>4 DEF z
        <5> QED BY <5>2, <5>3
      <4> QED BY <4>1, <4>2
    <3>2. t.bytesleft = f[n + 1].n
      BY <1>3, <2>2, <2>4, <3>1
    <3>3. n + 1 \in n + 1 .. n + 1 + f[n + 1].n /\ f[n + 1].n = n + 1 + f[n + 1].n - (n + 1)
      BY <1>2, <2>1
    <3> QED BY <3>1, <3>2, <3>3
  <2> QED BY <2>1, <2>3, <2>4
<1>8. ASSUME f[1].k = "ant" PROVE t.dot_found <=> f[n + 1].k = "dot"
  <2>1. s.getline = "ant" /\ (s.dot_found <=> n = 0 \/ f[n].k = "dot")
    BY <1>8 DEF Remembers
  <2>2. t.dot_found <=> ~Separates(s, f[n + 1]) /\ (s.dot_found \/ f[n + 1].k = "dot")
    BY <2>1 DEF Noted
  <2>3. Heads(f) = {i \in DOMAIN f : i > 1 => f[i - 1].k = "dot"}
    BY <1>8 DEF Heads
  <2>4. n + 1 \in Heads(f) <=> s.dot_found
    <3>1. (n + 1) - 1 = n /\ (n + 1 > 1 <=> n # 0)
      BY <1>2
    <3> QED BY <1>1, <1>2, <2>1, <2>3, <3>1
  <2>5. s.dot_found => f[n + 1].k = "ant"
    BY <1>1, <1>8, <2>4
  <2> QED BY <1>3, <2>2, <2>4, <2>5
<1> QED BY <1>1, <1>2, <1>4, <1>5, <1>6, <1>7, <1>8 DEF Remembers

\* Nothing is remembered of a line when none is read.
LEMMA RemembersSame ==
    ASSUME NEW s, NEW t, NEW f, NEW n, Remembers(s, f, n),
           t.sep = s.sep, t.getline = s.getline, t.firstline = s.firstline,
           t.bytesleft = s.bytesleft, t.dot_found = s.dot_found,
           t.emptyline = s.emptyline \/ n \notin 1 .. Len(f) - 1
    PROVE  Remembers(t, f, n)
BY DEF Remembers

\* At the end of the file the readers of batches are as they were before it.
LEMMA RemembersEnd ==
    ASSUME NEW c, NEW f, WholeFile(c, f), IsCutUp(f), NEW s \in Statics, Remembers(s, f, Len(f))
    PROVE  /\ f[1].k = "rmail" => s.bytesleft = 0
           /\ f[1].k = "ant" => s.dot_found
           /\ ~Unseen(s)
<1>1. /\ Len(f) \in Nat /\ 1 <= Len(f) /\ Heads(f) \subseteq 1 .. Len(f)
      /\ \A i \in 1 .. Len(f) : f[i] \in Line
      /\ f[1].k = "rmail" => AreHeads(Heads(f), f)
      /\ f[1].k = "ant" => WholeAnt(f)
  BY HeadsOfFile
<1>2. ASSUME f[1].k = "rmail" PROVE s.bytesleft = 0
  <2>1. PICK i \in Heads(f) : Len(f) \in i .. i + f[i].n /\ s.bytesleft = i + f[i].n - Len(f)
    BY <1>1, <1>2 DEF Remembers
  <2>2. i \in 1 .. Len(f) /\ f[i].n \in Nat /\ i + f[i].n <= Len(f)
    BY <1>1, <1>2, TextMarkers DEF AreHeads
  <2> QED BY <1>1, <2>1, <2>2
<1>3. f[1].k = "ant" => s.dot_found
  BY <1>1 DEF Remembers, WholeAnt
<1>4. ~Unseen(s)
  BY <1>2 DEF Remembers, Unseen, IsCutUp
<1> QED BY <1>2, <1>3, <1>4

\* Where the reader is in the file.
LEMMA PlaceInFile ==
    ASSUME TextInv
    PROVE  /\ Len(file) \in Nat /\ Len(took) \in Nat /\ Len(fpin.lines) \in Nat
           /\ Passed = Len(took) + (IF IsSaved(st) THEN 1 ELSE 0)
           /\ Passed \in 0 .. Len(file)
           /\ fpin.lines = <<>> <=> Passed = Len(file)
           /\ fpin.lines # <<>> => Passed < Len(file) /\ Head(fpin.lines) = file[Passed + 1]
           /\ took = <<>> <=> Len(took) = 0
<1> DEFINE wt == WaitingIn(st) n == fpin.lines a == took \o wt
<1>1. /\ took \in Seq(Line) /\ file \in Seq(Line) /\ n \in Seq(Line) /\ a \o n = file /\ st \in Statics
  BY DEF TextInv, TextTypes, IsStream, Stream
<1>2. wt \in Seq(Line) /\ Len(wt) = IF IsSaved(st) THEN 1 ELSE 0
  <2>1. CASE IsSaved(st)
    <3>1. st.saved[st.getline] \in Line
      BY <1>1, <2>1 DEF IsSaved, Statics
    <3> QED BY <2>1, <3>1 DEF WaitingIn
  <2>2. CASE ~IsSaved(st)
    BY <2>2 DEF WaitingIn
  <2> QED BY <2>1, <2>2
<1> HIDE DEF wt
<1>3. a \in Seq(Line) /\ Len(a) = Len(took) + Len(wt)
  BY <1>1, <1>2, ConcatProperties
<1> HIDE DEF a
<1>4. /\ Len(file) = Len(a) + Len(n)
      /\ \A i \in 1 .. Len(a) + Len(n) : file[i] = IF i <= Len(a) THEN a[i] ELSE n[i - Len(a)]
  <2> HIDE DEF n
  <2> DEFINE z == a \o n
  <2>1. /\ Len(z) = Len(a) + Len(n)
        /\ \A i \in 1 .. Len(a) + Len(n) : z[i] = IF i <= Len(a) THEN a[i] ELSE n[i - Len(a)]
    <3>1. n \in Seq(Line)
      BY <1>1
    <3> QED BY <1>3, <3>1, ConcatProperties
  <2>2. z = file
    BY <1>1
  <2> HIDE DEF z
  <2> QED BY <2>1, <2>2
<1>5. Len(file) \in Nat /\ Len(took) \in Nat /\ Len(n) \in Nat /\ Len(a) \in Nat
  BY <1>1, <1>3, LenProperties
<1>6. Passed = Len(a)
  BY <1>4, <1>5 DEF Passed
<1>7. n = <<>> <=> Len(n) = 0
  BY <1>1, EmptySeq
<1>8. took = <<>> <=> Len(took) = 0
  BY <1>1, EmptySeq
<1>9. ASSUME n # <<>> PROVE Head(n) = file[Passed + 1]
  <2>1. Head(n) = n[1]
    BY <1>1, <1>9
  <2>2. Len(a) + 1 \in 1 .. Len(a) + Len(n) /\ ~(Len(a) + 1 <= Len(a)) /\ (Len(a) + 1) - Len(a) = 1
    BY <1>5, <1>7, <1>9
  <2>3. file[Len(a) + 1] = n[(Len(a) + 1) - Len(a)]
    BY <1>4, <2>2
  <2> QED BY <1>6, <2>1, <2>2, <2>3
<1> HIDE DEF n
<1>10. Passed \in 0 .. Len(file) /\ (n = <<>> <=> Passed = Len(file)) /\ (n # <<>> => Passed < Len(file))
  BY <1>4, <1>5, <1>6, <1>7
<1> QED BY <1>2, <1>3, <1>5, <1>6, <1>8, <1>9, <1>10 DEF n

\* The parts of CutInv, once the file is one that is cut up.
LEMMA CutFacts ==
    ASSUME TextInv, CutInv, IsCutUp(file)
    PROVE  /\ WholeFile(opt, file) /\ st \in Statics
           /\ 1 \in Heads(file) /\ Heads(file) \subseteq 1 .. Len(file) /\ 1 <= Len(file)
           /\ Remembers(st, file, Passed)
           /\ IsSaved(st) => Passed \in Heads(file) \ {1}
           /\ starts \in Seq(Nat) /\ Range(starts) = Begun /\ Ordered
           /\ AtEnd /\ st.have_message => IsSaved(st)
           /\ pc \in {"get", "skip"} => (Fresh <=> IsSaved(st) \/ took = <<>>)
           /\ st.mail_first => pc = "more" /\ took = <<>> /\ starts = <<>>
           /\ Fresh => \A j \in DOMAIN starts : starts[j] <= Len(took) + 1
           /\ ~Fresh => \A j \in DOMAIN starts : starts[j] <= Len(took)
<1>1. WholeFile(opt, file) /\ st \in Statics
  BY DEF TextInv, TextTypes
<1>2. 1 \in Heads(file) /\ Heads(file) \subseteq 1 .. Len(file) /\ 1 <= Len(file)
  BY <1>1, HeadsOfFile
<1>3. Len(took) \in Nat
  BY PlaceInFile
<1>4. \A j \in DOMAIN starts : starts[j] \in Nat /\ (starts[j] <= Len(took) \/ (Fresh /\ starts[j] = Len(took) + 1))
  BY DEF CutInv, Ordered
<1> QED BY <1>1, <1>2, <1>3, <1>4 DEF CutInv

\* A step that takes no line and begins no mail.
LEMMA CutInvIdle ==
    ASSUME TextInv, CutInv, IsCutUp(file), UNCHANGED <<file, fpin, took, starts>>,
           pc # "get", pc' # "get", pc' # "skip",
           st'.sep = st.sep, st'.getline = st.getline, st'.firstline = st.firstline,
           st'.bytesleft = st.bytesleft, st'.dot_found = st.dot_found,
           st'.emptyline = st.emptyline, st'.saved = st.saved, st'.have_message = st.have_message,
           AtEnd' => AtEnd, st'.mail_first => st.mail_first /\ pc' = "more"
    PROVE  CutInv'
<1>1. Passed' = Passed
  BY DEF Passed
<1>2. Remembers(st', file', Passed')
  BY <1>1, RemembersSame DEF CutInv
<1>3. IsSaved(st)' <=> IsSaved(st)
  BY DEF IsSaved
<1>4. ~Fresh /\ ~Fresh'
  BY DEF Fresh
<1>5. Begun' = Begun
  BY <1>4 DEF Begun
<1>6. Ordered'
  BY <1>4 DEF Ordered, CutInv
<1> QED BY <1>1, <1>2, <1>3, <1>4, <1>5, <1>6 DEF CutInv

\* The same mails have begun when the line of the mail at hand is taken, ...
LEMMA BegunTaken ==
    ASSUME TextInv, CutInv, IsCutUp(file), pc \in {"get", "skip"}, UNCHANGED <<file, starts>>,
           Len(took') = Len(took) + 1, Len(took) + 1 \in Heads(file) <=> Fresh
    PROVE  ~Fresh' /\ Begun' = Begun /\ Ordered'
<1>1. /\ starts \in Seq(Nat) /\ Heads(file) \subseteq 1 .. Len(file) /\ Ordered
      /\ \A j \in DOMAIN starts : starts[j] \in Nat /\ starts[j] <= Len(took) + 1
  <2>1. /\ starts \in Seq(Nat) /\ Heads(file) \subseteq 1 .. Len(file) /\ Ordered
        /\ Fresh => \A j \in DOMAIN starts : starts[j] <= Len(took) + 1
        /\ ~Fresh => \A j \in DOMAIN starts : starts[j] <= Len(took)
    BY CutFacts
  <2>2. Len(took) \in Nat
    BY PlaceInFile
  <2>3. \A j \in DOMAIN starts : starts[j] \in Nat
    BY <2>1 DEF Ordered
  <2> QED BY <2>1, <2>2, <2>3
<1>2. Len(took) \in Nat
  BY PlaceInFile
<1>3. ~Fresh'
  <2>1. ASSUME starts # <<>> PROVE starts[Len(starts)] # Len(took) + 1 + 1
    <3>1. Len(starts) \in DOMAIN starts
      BY <1>1, <2>1, EmptySeq, LenProperties
    <3> QED BY <1>1, <1>2, <3>1
  <2> QED BY <2>1 DEF Fresh
<1>4. Begun' = {i \in Heads(file) : i <= Len(took) + 1}
  BY <1>3 DEF Begun
<1>5. Begun = {i \in Heads(file) : i <= Len(took) + 1}
  <2>1. \A i \in Heads(file) : i \in Nat /\ (i <= Len(took) + 1 <=> i <= Len(took) \/ i = Len(took) + 1)
    BY <1>1, <1>2
  <2>2. CASE Fresh
    BY <2>1, <2>2 DEF Begun
  <2>3. CASE ~Fresh
    BY <2>1, <2>3 DEF Begun
  <2> QED BY <2>2, <2>3
<1>6. Ordered'
  BY <1>1 DEF Ordered
<1> QED BY <1>3, <1>4, <1>5, <1>6

\* ... and when none is taken at the end of it.
LEMMA BegunKept ==
    ASSUME CutInv, IsCutUp(file), ~Fresh, pc' # "get", UNCHANGED <<file, took, starts>>
    PROVE  ~Fresh' /\ Begun' = Begun /\ Ordered'
<1>1. ~Fresh'
  BY DEF Fresh
<1>2. Begun' = Begun
  BY <1>1 DEF Begun
<1>3. Ordered'
  BY <1>1 DEF Ordered, CutInv
<1> QED BY <1>1, <1>2, <1>3

\* A line is read: the mails that have begun are those of the file.
LEMMA CutInvRead ==
    ASSUME TextInv, CutInv, IsCutUp(file), NEW r, ReadingStep(r)
    PROVE  CutInv'
<1>1. /\ st \in Statics /\ IsStream(fpin) /\ lwsp \in BOOLEAN /\ took \in Seq(Line)
      /\ fpin.lines \in Seq(Line) /\ WholeFile(opt, file)
  BY DEF TextInv, TextTypes, IsStream, Stream
<1>2. /\ pc \in {"get", "skip"} /\ pc' \in {"get", "skip", "eof"}
      /\ r = Getline(st, fpin, lwsp)
      /\ pc' = "eof" => r.line = EOF
      /\ r.line = EOF => pc' = "eof" \/ r.lwsp
      /\ r.line # EOF => pc' # "eof"
      /\ fpin' = r.in /\ st' = r.s /\ took' = (IF r.line = EOF THEN took ELSE Append(took, r.line))
      /\ UNCHANGED <<file, starts>>
  BY DEF ReadingStep, Read
<1>3. /\ 1 \in Heads(file) /\ Heads(file) \subseteq 1 .. Len(file) /\ 1 <= Len(file)
      /\ Remembers(st, file, Passed)
      /\ IsSaved(st) => Passed \in Heads(file) \ {1}
      /\ starts \in Seq(Nat) /\ Range(starts) = Begun /\ Ordered
      /\ Fresh <=> IsSaved(st) \/ took = <<>>
      /\ ~st.mail_first
  BY <1>2, CutFacts
<1>4. /\ Len(file) \in Nat /\ Len(took) \in Nat /\ Len(fpin.lines) \in Nat
      /\ Passed = Len(took) + (IF IsSaved(st) THEN 1 ELSE 0)
      /\ Passed \in 0 .. Len(file)
      /\ fpin.lines = <<>> <=> Passed = Len(file)
      /\ fpin.lines # <<>> => Passed < Len(file) /\ Head(fpin.lines) = file[Passed + 1]
      /\ took = <<>> <=> Len(took) = 0
  BY PlaceInFile
<1>5. ASSUME NEW x \in Line, took' = Append(took, x) PROVE Len(took') = Len(took) + 1 /\ took' # <<>>
  <2>1. took' \in Seq(Line) /\ Len(took') = Len(took) + 1
    BY <1>1, <1>5, AppendProperties
  <2> QED BY <1>4, <2>1, EmptySeq
<1>6. CASE IsSaved(st)
  <2>1. GivesBack(st, fpin, r)
    BY <1>1, <1>2, <1>6, SavedReads
  <2>2. r.line \in Line /\ r.line # EOF /\ r.in = fpin /\ SameReader(st, r.s)
    BY <2>1, TextMarkers DEF GivesBack
  <2>3. took' = Append(took, r.line) /\ pc' \in {"get", "skip"}
    BY <1>2, <2>2
  <2>4. Len(took') = Len(took) + 1 /\ took' # <<>>
    BY <1>5, <2>2, <2>3
  <2>5. ~IsSaved(st')
    <3>1. st.saved \in [{"mailbox", "rmail", "ant"} -> Line \cup {None}] /\ st.getline \in {"mailbox", "rmail", "ant"}
      BY <1>1, <1>6 DEF Statics, IsSaved
    <3> QED BY <1>2, <2>1, <3>1 DEF GivesBack, SameReader, IsSaved
  <2>6. Passed' = Passed
    BY <1>2, <2>2 DEF Passed
  <2>7. Remembers(r.s, file, Passed)
    BY <1>3, <2>1, RemembersSame DEF GivesBack, SameReader
  <2>8. ~Fresh' /\ Begun' = Begun /\ Ordered'
    <3>1. Len(took) + 1 \in Heads(file)
      BY <1>3, <1>4, <1>6
    <3> QED BY <1>2, <1>3, <1>6, <2>4, <3>1, BegunTaken
  <2>9. ~AtEnd' /\ ~st'.mail_first
    BY <1>2, <1>3, <2>2, <2>3 DEF AtEnd, SameReader
  <2> QED BY <1>2, <1>3, <2>4, <2>5, <2>6, <2>7, <2>8, <2>9 DEF CutInv
<1>7. CASE ~IsSaved(st)
  <2>1. ReadsOn(st, fpin, r)
    BY <1>1, <1>2, <1>7, GetlineReads
  <2>2. Passed = Len(took) /\ (Fresh <=> Len(took) = 0) /\ SameReader(st, r.s) /\ ~st'.mail_first
    BY <1>2, <1>3, <1>4, <1>7, <2>1 DEF ReadsOn, SameReader
  <2>3. CASE fpin.lines = <<>>
    <3>1. r.line = EOF /\ r.in.lines = <<>> /\ EndNoted(st, r.s)
      BY <2>1, <2>3 DEF ReadsOn
    <3>2. Remembers(st, file, Len(file))
      BY <1>3, <1>4, <2>3
    <3>3. ~Unseen(st)
      BY <1>1, <3>2, RemembersEnd
    <3>4. pc' = "eof" /\ took' = took
      BY <1>2, <2>1, <3>1, <3>3 DEF ReadsOn
    <3>5. Passed' = Passed /\ Passed = Len(file)
      <4>1. fpin'.lines = fpin.lines /\ file' = file
        BY <1>2, <2>3, <3>1
      <4>2. Passed' = Passed
        BY <4>1 DEF Passed
      <4> QED BY <1>4, <2>3, <4>2
    <3>6. Remembers(r.s, file, Len(file))
      <4>1. Len(file) \notin 1 .. Len(file) - 1
        BY <1>4
      <4>2. /\ r.s.sep = st.sep /\ r.s.getline = st.getline /\ r.s.firstline = st.firstline
            /\ r.s.bytesleft = st.bytesleft /\ r.s.dot_found = st.dot_found
        BY <2>2, <3>1 DEF SameReader, EndNoted
      <4> QED BY <3>2, <4>1, <4>2 DEF Remembers
    <3>7. ~Fresh
      BY <1>3, <1>4, <2>2, <2>3
    <3>8. ~Fresh' /\ Begun' = Begun /\ Ordered'
      BY <1>2, <3>4, <3>7, BegunKept
    <3>9. ~IsSaved(st') /\ ~st'.have_message
      BY <1>2, <1>7, <2>2, <3>1, <3>3 DEF IsSaved, EndNoted, SameReader
    <3> QED BY <1>2, <1>3, <2>2, <3>4, <3>5, <3>6, <3>8, <3>9 DEF CutInv
  <2>4. CASE fpin.lines # <<>>
    <3> DEFINE x == Head(fpin.lines)
    <3>1. /\ r.in.lines = Tail(fpin.lines) /\ Noted(st, r.s, x)
          /\ r.line = IF Cuts(st, x) THEN EOF ELSE x
      BY <2>1, <2>4 DEF ReadsOn
    <3>2. x = file[Len(took) + 1] /\ Len(took) \in 0 .. Len(file) - 1 /\ x \in Line
      <4>1. x \in Line
        BY <1>1, <2>4, HeadTailProperties
      <4> QED BY <1>4, <2>2, <2>4, <4>1
    <3> HIDE DEF x
    <3>3. Cuts(st, x) <=> Len(took) + 1 \in Heads(file) \ {1}
      BY <1>1, <1>3, <2>2, <3>2, SeparatesAtHeads
    <3>4. r.s \in Statics
      BY <2>1 DEF ReadsOn
    <3>5. Remembers(r.s, file, Len(took) + 1)
      <4>1. Noted(st, r.s, file[Len(took) + 1])
        BY <3>1, <3>2
      <4> QED BY <1>1, <1>3, <2>2, <3>2, <3>4, <4>1, RemembersMore
    <3>6. Passed' = Len(took) + 1
      <4>1. Len(Tail(fpin.lines)) = Len(fpin.lines) - 1
        BY <1>1, <2>4, HeadTailProperties
      <4>2. Passed' = Len(file) - (Len(fpin.lines) - 1) /\ Passed = Len(file) - Len(fpin.lines)
        BY <1>2, <3>1, <4>1 DEF Passed
      <4> QED BY <1>4, <2>2, <4>2
    <3>7. CASE ~Cuts(st, x)
      <4>1. r.line = x /\ r.line # EOF
        BY <3>1, <3>2, <3>7, TextMarkers
      <4>2. took' = Append(took, x) /\ pc' \in {"get", "skip"}
        BY <1>2, <4>1
      <4>3. Len(took') = Len(took) + 1 /\ took' # <<>>
        BY <1>5, <3>2, <4>2
      <4>4. ~IsSaved(st')
        BY <1>2, <1>7, <2>2, <3>1, <3>7 DEF IsSaved, Noted, SameReader
      <4>5. Len(took) + 1 \in Heads(file) <=> Fresh
        BY <1>3, <1>4, <2>2, <3>3, <3>7
      <4>6. ~Fresh' /\ Begun' = Begun /\ Ordered'
        BY <1>2, <4>3, <4>5, BegunTaken
      <4>7. ~AtEnd'
        BY <4>2 DEF AtEnd
      <4> QED BY <1>2, <1>3, <2>2, <3>5, <3>6, <4>3, <4>4, <4>6, <4>7 DEF CutInv
    <3>8. CASE Cuts(st, x)
      <4>1. r.line = EOF /\ took' = took /\ Separates(st, x)
        BY <1>2, <3>1, <3>8 DEF Cuts
      <4>2. ~Unseen(st) /\ st.getline # "simple"
        BY <4>1 DEF Separates, Unseen
      <4>3. pc' = "eof"
        BY <1>2, <2>1, <4>1, <4>2 DEF ReadsOn
      <4>4. IsSaved(st')
        <5>1. r.s.saved = [st.saved EXCEPT ![st.getline] = x] /\ r.s.getline = st.getline
          BY <2>2, <3>1, <3>8 DEF Noted, SameReader
        <5>2. st.saved \in [{"mailbox", "rmail", "ant"} -> Line \cup {None}] /\ st.getline \in {"mailbox", "rmail", "ant"}
          BY <1>1, <4>2 DEF Statics
        <5> QED BY <1>2, <3>2, <4>2, <5>1, <5>2, TextMarkers DEF IsSaved
      <4>5. Len(took) + 1 \in Heads(file) \ {1} /\ ~Fresh
        BY <1>4, <2>2, <3>3, <3>8
      <4>6. ~Fresh' /\ Begun' = Begun /\ Ordered'
        BY <1>2, <4>1, <4>3, <4>5, BegunKept
      <4> QED BY <1>2, <1>3, <2>2, <3>5, <3>6, <4>1, <4>3, <4>4, <4>5, <4>6 DEF CutInv
    <3> QED BY <3>7, <3>8
  <2> QED BY <2>3, <2>4
<1> QED BY <1>6, <1>7

\* What the readers remember of the files before stays as it is in a file without
\* mails of their own.
LEMMA RestInvRead ==
    ASSUME TextInv, RestInv, CutInv, opt.mbox_mode, NEW r, ReadingStep(r)
    PROVE  RestInv'
<1>1. /\ st \in Statics /\ IsStream(fpin) /\ lwsp \in BOOLEAN /\ took \in Seq(Line)
      /\ fpin.lines \in Seq(Line) /\ WholeFile(opt, file) /\ file \in Seq(Line)
      /\ st.next_mail # None
  BY DEF TextInv, TextTypes, IsStream, Stream, ModeKept, ReadingStep
<1>2. r = Getline(st, fpin, lwsp) /\ st' = r.s /\ UNCHANGED file
  BY DEF ReadingStep, Read
<1>3. ASSUME NEW x, x \in Line, fpin.lines # <<>>, x = Head(fpin.lines),
             st.getline \in {"rmail", "ant"}, ~IsBatch(st.getline)
      PROVE  ~Separates(st, x)
  <2>1. file # <<>> /\ file[1].c = st.getline /\ st.sep = st.getline
    BY <1>1, <1>3 DEF RestInv
  <2>2. file[1].k # st.getline
    BY <1>3, <2>1 DEF IsBatch
  <2>3. \A i \in DOMAIN file : file[i].k # st.getline
    BY <1>1, <1>3, <2>1, <2>2 DEF WholeFile, WholeRmail, AreHeads, WholeAnt
  <2>4. Passed + 1 \in DOMAIN file /\ x = file[Passed + 1]
    <3>1. Len(file) \in Nat /\ Passed \in 0 .. Len(file) /\ Passed < Len(file) /\ x = file[Passed + 1]
      BY <1>3, PlaceInFile
    <3>2. Passed + 1 \in 1 .. Len(file)
      BY <3>1
    <3> QED BY <1>1, <3>1, <3>2, LenProperties
  <2> QED BY <2>1, <2>3, <2>4 DEF Separates
<1>4. SameReader(st, r.s)
  <2>1. CASE IsSaved(st)
    BY <1>1, <1>2, <2>1, SavedReads DEF GivesBack
  <2>2. CASE ~IsSaved(st)
    BY <1>1, <1>2, <2>2, GetlineReads DEF ReadsOn
  <2> QED BY <2>1, <2>2
<1>5. /\ st.getline # "rmail" \/ ~IsBatch("rmail") => r.s.bytesleft = st.bytesleft
      /\ st.getline # "ant" \/ ~IsBatch("ant") => r.s.dot_found = st.dot_found
  <2>1. CASE IsSaved(st)
    <3>1. GivesBack(st, fpin, r)
      BY <1>1, <1>2, <2>1, SavedReads
    <3> QED BY <3>1 DEF GivesBack
  <2>2. CASE ~IsSaved(st)
    <3>1. ReadsOn(st, fpin, r)
      BY <1>1, <1>2, <2>2, GetlineReads
    <3>2. CASE fpin.lines = <<>>
      BY <3>1, <3>2 DEF ReadsOn, EndNoted
    <3>3. CASE fpin.lines # <<>>
      <4>1. PICK x : x = Head(fpin.lines) /\ x \in Line /\ Noted(st, r.s, x)
        BY <1>1, <3>1, <3>3, HeadTailProperties DEF ReadsOn
      <4>2. st.getline = "rmail" /\ ~IsBatch("rmail") => ~Separates(st, x) /\ st.bytesleft = 0
        BY <1>3, <3>3, <4>1 DEF RestInv
      <4>3. st.getline = "ant" /\ ~IsBatch("ant") => ~Separates(st, x) /\ st.dot_found
        BY <1>3, <3>3, <4>1 DEF RestInv
      <4>4. st.dot_found \in BOOLEAN
        BY <1>1 DEF Statics
      <4> QED BY <4>1, <4>2, <4>3, <4>4 DEF Noted
    <3> QED BY <3>2, <3>3
  <2> QED BY <2>1, <2>2
<1>6. st.getline \in {"simple", "mailbox", "rmail", "ant"}
  BY <1>1 DEF Statics
<1>7. IsBatch("rmail")' = IsBatch("rmail") /\ IsBatch("ant")' = IsBatch("ant")
  BY <1>2 DEF IsBatch
<1>8. (~IsBatch("rmail") => r.s.bytesleft = 0) /\ (~IsBatch("ant") => r.s.dot_found)
  BY <1>5 DEF RestInv
<1>9. r.s.next_mail # None /\ r.s.getline \in {"rmail", "ant"} =>
        file # <<>> /\ file[1].c = r.s.getline /\ r.s.sep = r.s.getline
  BY <1>4 DEF RestInv, SameReader
<1> QED BY <1>2, <1>7, <1>8, <1>9 DEF RestInv

\* A mail begins.
LEMMA SplitInvNext ==
    ASSUME TextInv, SplitInv, NextMail
    PROVE  SplitInv'
<1> SUFFICES ASSUME opt.mbox_mode PROVE CutInv' /\ RestInv'
  BY DEF SplitInv, NextMail
<1>1. CutInv /\ RestInv /\ pc = "more" /\ st \in Statics /\ took \in Seq(Line)
  BY DEF SplitInv, NextMail, TextInv, TextTypes
<1> DEFINE t == [st EXCEPT !.mail_first = FALSE]
<1>2. /\ t.mail_first = FALSE /\ t.sep = st.sep /\ t.getline = st.getline /\ t.firstline = st.firstline
      /\ t.bytesleft = st.bytesleft /\ t.dot_found = st.dot_found /\ t.emptyline = st.emptyline
      /\ t.saved = st.saved /\ t.next_mail = st.next_mail /\ t.have_message = st.have_message
  BY <1>1 DEF Statics
<1>3. /\ st' = t /\ pc' = "get" /\ UNCHANGED <<opt, file, fpin, took>> /\ MoreMail(st) /\ st.next_mail # None
      /\ starts' = IF Len(starts) < Len(file) + 2 THEN Append(starts, Len(took) + 1) ELSE starts
  BY DEF NextMail, MaxMails
<1> HIDE DEF t
<1>4. RestInv'
  BY <1>1, <1>2, <1>3 DEF RestInv, IsBatch
<1>5. ASSUME IsCutUp(file) PROVE CutInv'
  <2>1. /\ 1 \in Heads(file) /\ Heads(file) \subseteq 1 .. Len(file) /\ 1 <= Len(file)
        /\ Remembers(st, file, Passed)
        /\ IsSaved(st) => Passed \in Heads(file) \ {1}
        /\ starts \in Seq(Nat) /\ Range(starts) = Begun /\ Ordered
        /\ AtEnd /\ st.have_message => IsSaved(st)
        /\ st.mail_first => took = <<>> /\ starts = <<>>
        /\ ~Fresh => \A j \in DOMAIN starts : starts[j] <= Len(took)
    BY <1>1, <1>5, CutFacts
  <2>2. /\ Len(file) \in Nat /\ Len(took) \in Nat
        /\ Passed = Len(took) + (IF IsSaved(st) THEN 1 ELSE 0)
        /\ Passed \in 0 .. Len(file)
        /\ took = <<>> <=> Len(took) = 0
    BY PlaceInFile
  <2>3. ~Fresh /\ Len(took) <= Len(file)
    BY <1>1, <2>2 DEF Fresh
  <2>4. (took = <<>> /\ starts = <<>>) \/ IsSaved(st)
    <3>1. CASE st.mail_first
      BY <2>1, <3>1
    <3>2. CASE ~st.mail_first
      <4>1. st.have_message /\ AtEnd
        BY <1>1, <1>3, <3>2 DEF MoreMail, AtEnd
      <4> QED BY <2>1, <4>1
    <3> QED BY <3>1, <3>2
  <2>5. Len(took) + 1 \in Heads(file)
    BY <2>1, <2>2, <2>4
  <2>6. Len(starts) \in Nat /\ DOMAIN starts = 1 .. Len(starts) /\ Len(starts) <= Len(took)
    <3>1. Len(starts) \in Nat /\ DOMAIN starts = 1 .. Len(starts)
      BY <2>1, LenProperties
    <3>2. CASE starts = <<>>
      BY <2>2, <3>2
    <3>3. CASE starts # <<>>
      <4>1. Len(starts) \in DOMAIN starts
        BY <2>1, <3>1, <3>3, EmptySeq
      <4>2. Len(starts) <= starts[Len(starts)] /\ starts[Len(starts)] <= Len(took) /\ starts[Len(starts)] \in Nat
        BY <2>1, <2>3, <4>1 DEF Ordered
      <4> QED BY <2>2, <3>1, <4>2
    <3> QED BY <3>2, <3>3
  <2> DEFINE new == Append(starts, Len(took) + 1)
  <2>7. starts' = new
    BY <1>3, <2>2, <2>3, <2>6
  <2>8. /\ new \in Seq(Nat) /\ Len(new) = Len(starts) + 1 /\ new # <<>>
        /\ \A i \in 1 .. Len(starts) : new[i] = starts[i]
        /\ new[Len(starts) + 1] = Len(took) + 1 /\ DOMAIN new = 1 .. Len(starts) + 1
    <3>1. Len(took) + 1 \in Nat
      BY <2>2
    <3>2. /\ new \in Seq(Nat) /\ Len(new) = Len(starts) + 1
          /\ \A i \in 1 .. Len(starts) : new[i] = starts[i]
          /\ new[Len(starts) + 1] = Len(took) + 1
      BY <2>1, <3>1, AppendProperties
    <3> HIDE DEF new
    <3>3. new # <<>> /\ DOMAIN new = 1 .. Len(starts) + 1
      BY <2>6, <3>2, EmptySeq, LenProperties
    <3> QED BY <3>2, <3>3
  <2> HIDE DEF new
  <2>9. Fresh'
    BY <1>3, <2>7, <2>8 DEF Fresh
  <2>10. Range(new) = Begun'
    <3>1. Begun' = {i \in Heads(file) : i <= Len(took)} \cup {Len(took) + 1}
      BY <1>3, <2>9 DEF Begun
    <3>2. Begun = {i \in Heads(file) : i <= Len(took)}
      BY <2>3 DEF Begun
    <3>3. Range(new) = Range(starts) \cup {Len(took) + 1}
      <4>1. ASSUME NEW y \in Range(new) PROVE y \in Range(starts) \cup {Len(took) + 1}
        <5>1. PICK i \in 1 .. Len(starts) + 1 : y = new[i]
          BY <2>8 DEF Range
        <5>2. i \in 1 .. Len(starts) \/ i = Len(starts) + 1
          BY <2>6
        <5> QED BY <2>6, <2>8, <5>1, <5>2 DEF Range
      <4>2. ASSUME NEW i \in DOMAIN starts PROVE starts[i] \in Range(new)
        <5>1. i \in 1 .. Len(starts) /\ i \in 1 .. Len(starts) + 1
          BY <2>6
        <5> QED BY <2>8, <5>1 DEF Range
      <4>3. Len(took) + 1 \in Range(new)
        <5>1. Len(starts) + 1 \in DOMAIN new
          BY <2>6, <2>8
        <5> QED BY <2>8, <5>1 DEF Range
      <4> QED BY <4>1, <4>2, <4>3 DEF Range
    <3> QED BY <2>1, <3>1, <3>2, <3>3
  <2>11. Ordered'
    <3> SUFFICES ASSUME NEW j \in DOMAIN new
                 PROVE  /\ new[j] \in Nat /\ j <= new[j]
                        /\ new[j] <= Len(took) \/ new[j] = Len(took) + 1
                        /\ \A l \in 1 .. j - 1 : new[l] < new[j]
      BY <1>3, <2>7, <2>9 DEF Ordered
    <3>1. CASE j \in 1 .. Len(starts)
      <4>1. new[j] = starts[j] /\ j \in DOMAIN starts
        BY <2>6, <2>8, <3>1
      <4>2. /\ starts[j] \in Nat /\ j <= starts[j] /\ starts[j] <= Len(took)
            /\ \A l \in 1 .. j - 1 : starts[l] < starts[j]
        BY <2>1, <2>3, <4>1 DEF Ordered
      <4>3. \A l \in 1 .. j - 1 : new[l] = starts[l]
        BY <2>6, <2>8, <3>1
      <4> QED BY <4>1, <4>2, <4>3
    <3>2. CASE j = Len(starts) + 1
      <4>1. new[j] = Len(took) + 1 /\ j <= Len(took) + 1
        BY <2>2, <2>6, <2>8, <3>2
      <4>2. ASSUME NEW l \in 1 .. j - 1 PROVE new[l] < Len(took) + 1
        <5>1. l \in 1 .. Len(starts)
          BY <2>6, <3>2, <4>2
        <5>2. new[l] = starts[l] /\ starts[l] \in Nat /\ starts[l] <= Len(took)
          BY <2>1, <2>3, <2>6, <2>8, <5>1 DEF Ordered
        <5> QED BY <2>2, <5>2
      <4> QED BY <2>2, <4>1, <4>2
    <3> QED BY <2>6, <2>8, <3>1, <3>2
  <2>12. Remembers(t, file, Passed)
    BY <1>2, <2>1, RemembersSame
  <2>13. Passed' = Passed /\ IsSaved(st') = IsSaved(st) /\ ~AtEnd'
    BY <1>2, <1>3 DEF Passed, IsSaved, AtEnd
  <2> QED BY <1>2, <1>3, <2>1, <2>4, <2>7, <2>8, <2>9, <2>10, <2>11, <2>12, <2>13 DEF CutInv
<1>6. CutInv'
  <2>1. CASE IsCutUp(file)
    BY <1>5, <2>1
  <2>2. CASE ~IsCutUp(file)
    <3>1. ~IsCutUp(file')
      BY <1>3, <2>2
    <3> QED BY <3>1 DEF CutInv
  <2> QED BY <2>1, <2>2
<1> QED BY <1>4, <1>6

\* A file is opened: nothing is left over from the one before.
LEMMA SplitInvOpen ==
    ASSUME TextInv, SplitInv, OpenStore, WholeFiles
    PROVE  SplitInv'
<1> SUFFICES ASSUME opt.mbox_mode PROVE CutInv' /\ RestInv'
  BY DEF SplitInv, OpenStore
<1>1. /\ CutInv /\ RestInv /\ pc = "more" /\ st.next_mail = None /\ st \in Statics /\ opt \in Cases
      /\ took = file /\ WholeFile(opt, file)
  BY DEF SplitInv, OpenStore, TextInv, TextTypes, Exhausted
<1>2. PICK f \in Files(opt) : file' = f /\ fpin' = StreamOf(f) /\ st' = Opened(st, f, TRUE)
  <2>1. PICK f \in Files(opt) : file' = f /\ fpin' = StreamOf(f) /\ st' = Opened(st, f, opt.mbox_mode)
    BY DEF OpenStore
  <2>2. opt.mbox_mode = TRUE
    BY <1>1, CasesAssumption
  <2> QED BY <2>1, <2>2
<1>3. WholeFile(opt, f) /\ f \in Seq(Line)
  BY <1>1 DEF WholeFiles, WholeFile
<1>4. pc' = "more" /\ took' = <<>> /\ starts' = <<>> /\ opt' = opt
  BY <1>1 DEF OpenStore
<1>5. \A g \in {"mailbox", "rmail", "ant"} : st.saved[g] = None
  BY <1>1, TextMarkers DEF TextInv, SavedIsNext
<1>6. st.bytesleft = 0 /\ st.dot_found
  <2>1. ~IsSaved(st)
    <3>1. st.getline \in {"simple", "mailbox", "rmail", "ant"}
      BY <1>1 DEF Statics
    <3> QED BY <1>5, <3>1 DEF IsSaved
  <2>2. Passed = Len(file)
    <3>1. Passed = Len(took) + (IF IsSaved(st) THEN 1 ELSE 0) /\ Len(took) \in Nat
      BY PlaceInFile
    <3> QED BY <1>1, <2>1, <3>1
  <2>3. CASE IsCutUp(file)
    <3>1. Remembers(st, file, Len(file))
      BY <1>1, <2>2, <2>3 DEF CutInv
    <3>2. /\ file[1].k = "rmail" => st.bytesleft = 0
          /\ file[1].k = "ant" => st.dot_found
      BY <1>1, <2>3, <3>1, RemembersEnd
    <3> QED BY <1>1, <3>2 DEF RestInv, IsBatch
  <2>4. CASE ~IsCutUp(file)
    BY <1>1, <2>4 DEF RestInv, IsBatch, IsCutUp
  <2> QED BY <2>3, <2>4
<1> DEFINE c == IF f = <<>> THEN None ELSE f[1].c
           d == IF c = None THEN st.sep ELSE c
           g == IF c \in {"rmail", "ant"} THEN c ELSE "mailbox"
           t == [st EXCEPT !.sep = d, !.getline = g, !.firstline = TRUE,
                           !.mail_first = TRUE, !.next_mail = "mailbox"]
<1>7. st' = t
  <2>1. Selected(st, f, TRUE) = [st EXCEPT !.sep = d, !.getline = g]
    BY DEF Selected
  <2> DEFINE u == [st EXCEPT !.sep = d, !.getline = g]
  <2>2. st' = [u EXCEPT !.firstline = TRUE, !.mail_first = TRUE, !.next_mail = "mailbox"]
    BY <1>2, <2>1 DEF Opened
  <2> HIDE DEF c, d, g
  <2>3. t = [u EXCEPT !.firstline = TRUE, !.mail_first = TRUE, !.next_mail = "mailbox"]
    BY <1>1 DEF Statics
  <2> QED BY <2>2, <2>3
<1>8. /\ t.sep = d /\ t.getline = g /\ t.firstline = TRUE /\ t.mail_first = TRUE
      /\ t.bytesleft = 0 /\ t.dot_found = TRUE /\ t.saved = st.saved
  <2>1. st.dot_found = TRUE
    BY <1>1, <1>6 DEF Statics
  <2> HIDE DEF c, d, g
  <2> QED BY <1>1, <1>6, <2>1 DEF Statics
<1>9. c \in Separators => d = c
  BY TextMarkers
<1>10. g \in {"rmail", "ant"} => f # <<>> /\ f[1].c = g /\ d = g
  <2>1. g \in {"rmail", "ant"} => c = g /\ c \in Separators
    BY DEF Separators
  <2>2. c \in Separators => f # <<>> /\ c = f[1].c
    BY TextMarkers
  <2> HIDE DEF c, d, g
  <2> QED BY <1>9, <2>1, <2>2
<1>11. IsCutUp(f) => f[1].k = c /\ d = c /\ g = IF f[1].k = "From" THEN "mailbox" ELSE f[1].k
  <2>1. IsCutUp(f) => f[1].k = c /\ c \in {"From", "rmail", "ant"}
    BY <1>3, HeadsOfFile DEF IsCutUp
  <2>2. c \in {"From", "rmail", "ant"} => g = IF c = "From" THEN "mailbox" ELSE c
    OBVIOUS
  <2> HIDE DEF c, d, g
  <2> QED BY <1>9, <2>1, <2>2 DEF Separators
<1> HIDE DEF c, d, g, t
<1>12. RestInv'
  BY <1>2, <1>7, <1>8, <1>10 DEF RestInv
<1>13. ASSUME IsCutUp(f) PROVE CutInv'
  <2>1. Heads(f) \subseteq 1 .. Len(f) /\ Len(f) \in Nat
    BY <1>3, <1>13, HeadsOfFile
  <2>2. Passed' = 0
    <3>1. fpin'.lines = f
      BY <1>2 DEF StreamOf
    <3> QED BY <1>2, <2>1, <3>1 DEF Passed
  <2>3. Remembers(t, f, 0)
    BY <1>8, <1>11, <1>13 DEF Remembers
  <2>4. ~IsSaved(st') /\ ~AtEnd'
    <3>1. ~IsSaved(t)
      <4>1. g \in {"mailbox", "rmail", "ant"}
        BY <1>11, <1>13 DEF IsCutUp
      <4> QED BY <1>5, <1>8, <4>1 DEF IsSaved
    <3> QED BY <1>4, <1>7, <1>8, <3>1 DEF AtEnd
  <2>5. ~Fresh'
    BY <1>4 DEF Fresh
  <2>6. Begun' = {}
    <3>1. Len(took') = 0
      BY <1>4
    <3> QED BY <1>2, <2>1, <2>5, <3>1 DEF Begun
  <2>7. starts' \in Seq(Nat) /\ Range(starts') = {} /\ Ordered'
    BY <1>4 DEF Range, Ordered
  <2> QED BY <1>2, <1>4, <1>7, <2>2, <2>3, <2>4, <2>6, <2>7 DEF CutInv
<1>14. CutInv'
  <2>1. CASE IsCutUp(f)
    BY <1>13, <2>1
  <2>2. CASE ~IsCutUp(f)
    BY <1>2, <2>2 DEF CutInv
  <2> QED BY <2>1, <2>2
<1> QED BY <1>12, <1>14

\* Every step.
LEMMA SplitInvStep ==
    ASSUME TextInv, SplitInv, [Next]_vars, WholeFiles
    PROVE  SplitInv'
<1>1. CASE UNCHANGED vars
  <2>1. UNCHANGED <<opt, pc, file, fpin, st, took, starts>>
    BY <1>1 DEF vars, read, mails
  <2> QED BY <2>1 DEF SplitInv, CutInv, RestInv, Passed, IsSaved, Begun, Fresh, Ordered, AtEnd, IsBatch
<1>2. CASE WritingStep \/ StoreExhausted
  <2>1. /\ UNCHANGED <<opt, file, fpin, took, starts>> /\ pc # "get" /\ pc' # "get" /\ pc' # "skip"
        /\ pc # "done" /\ pc' # "done" /\ st \in Statics
    BY <1>2 DEF WritingStep, StoreExhausted, mails, TextInv, TextTypes
  <2>2. /\ st'.sep = st.sep /\ st'.getline = st.getline /\ st'.firstline = st.firstline
        /\ st'.bytesleft = st.bytesleft /\ st'.dot_found = st.dot_found
        /\ st'.emptyline = st.emptyline /\ st'.saved = st.saved /\ st'.have_message = st.have_message
        /\ AtEnd' => AtEnd
        /\ st'.mail_first => st.mail_first /\ pc # "more"
        /\ st'.next_mail # None => st'.next_mail = st.next_mail
    <3>1. CASE StoreExhausted
      <4> DEFINE t == [st EXCEPT !.mail_first = FALSE, !.next_mail = None]
      <4>1. /\ t.sep = st.sep /\ t.getline = st.getline /\ t.firstline = st.firstline
            /\ t.bytesleft = st.bytesleft /\ t.dot_found = st.dot_found
            /\ t.emptyline = st.emptyline /\ t.saved = st.saved /\ t.have_message = st.have_message
            /\ t.mail_first = FALSE /\ t.next_mail = None
        BY <2>1 DEF Statics
      <4>2. st' = t /\ pc' = pc /\ pc = "more"
        BY <3>1 DEF StoreExhausted
      <4> HIDE DEF t
      <4> QED BY <4>1, <4>2 DEF AtEnd
    <3>2. CASE WritingStep
      <4>1. st' = st /\ pc \in {"eof", "header", "body"}
        BY <3>2 DEF WritingStep
      <4>2. AtEnd
        BY <4>1 DEF AtEnd
      <4> QED BY <4>1, <4>2
    <3> QED BY <1>2, <3>1, <3>2
  <2>3. RestInv => RestInv'
    BY <2>1, <2>2 DEF RestInv, IsBatch
  <2>4. CutInv => CutInv'
    <3>1. CASE IsCutUp(file)
      <4>1. CutInv => (st'.mail_first => st.mail_first /\ pc' = "more")
        BY <2>2, <3>1 DEF CutInv
      <4> QED BY <2>1, <2>2, <3>1, <4>1, CutInvIdle
    <3>2. CASE ~IsCutUp(file)
      BY <2>1, <3>2 DEF CutInv
    <3> QED BY <3>1, <3>2
  <2> QED BY <2>1, <2>3, <2>4 DEF SplitInv
<1>3. ASSUME NEW r, ReadingStep(r) PROVE SplitInv'
  <2> SUFFICES ASSUME opt.mbox_mode PROVE CutInv' /\ RestInv'
    BY <1>3 DEF SplitInv, ReadingStep
  <2>1. CutInv /\ RestInv
    BY <1>3 DEF SplitInv, ReadingStep
  <2>2. RestInv'
    BY <1>3, <2>1, RestInvRead
  <2>3. CASE IsCutUp(file)
    BY <1>3, <2>1, <2>2, <2>3, CutInvRead
  <2>4. CASE ~IsCutUp(file)
    BY <1>3, <2>2, <2>4 DEF ReadingStep, CutInv
  <2> QED BY <2>2, <2>3, <2>4
<1>4. CASE NextMail
  BY <1>4, SplitInvNext
<1>5. CASE OpenStore
  BY <1>5, SplitInvOpen
<1>6. CASE OpenFails \/ NoMoreStores
  BY <1>6 DEF OpenFails, NoMoreStores, SplitInv
<1> QED BY <1>1, <1>2, <1>3, <1>4, <1>5, <1>6, TextSteps

\* It holds at the start.
LEMMA SplitInvInit == ASSUME Init PROVE SplitInv
<1>1. ~IsCutUp(file)
  BY DEF Init, IsCutUp
<1>2. /\ InitStatics.next_mail = None /\ InitStatics.bytesleft = 0 /\ InitStatics.dot_found
  BY DEF InitStatics
<1>3. RestInv
  BY <1>2 DEF Init, RestInv
<1> QED BY <1>1, <1>3 DEF SplitInv, CutInv

\* The mails of a file that has been read: each begins at a head, and ends in front of
\* the next one or with the file.
LastLine(j) == IF j = Len(starts) THEN Len(took) ELSE starts[j + 1] - 1

\* A mail ends in front of the next head.
LEMMA MailsFit ==
    ASSUME TextInv, CutInv, IsCutUp(file), Exhausted
    PROVE  /\ took = file /\ starts \in Seq(Nat) /\ Len(starts) \in Nat /\ DOMAIN starts = 1 .. Len(starts)
           /\ Range(starts) = Heads(file)
           /\ \A j \in DOMAIN starts : \A l \in 1 .. j - 1 : starts[l] < starts[j]
           /\ \A j \in DOMAIN starts :
                /\ starts[j] \in Heads(file) /\ starts[j] \in 1 .. Len(file)
                /\ LastLine(j) \in Nat /\ starts[j] <= LastLine(j) /\ LastLine(j) <= Len(file)
                /\ LastLine(j) = Len(file) \/ LastLine(j) + 1 \in Heads(file)
                /\ \A i \in starts[j] + 1 .. LastLine(j) : i \notin Heads(file)
<1>1. /\ took = file /\ Heads(file) \subseteq 1 .. Len(file) /\ Len(file) \in Nat /\ pc = "more"
      /\ starts \in Seq(Nat) /\ Range(starts) = Begun /\ Ordered
      /\ Len(starts) \in Nat /\ DOMAIN starts = 1 .. Len(starts)
  <2>1. took = file /\ pc = "more"
    BY DEF TextInv, Exhausted
  <2>2. /\ Heads(file) \subseteq 1 .. Len(file) /\ starts \in Seq(Nat) /\ Range(starts) = Begun /\ Ordered
    BY CutFacts
  <2>3. Len(file) \in Nat
    BY PlaceInFile
  <2> QED BY <2>1, <2>2, <2>3, LenProperties
<1>2. Range(starts) = Heads(file)
  <2>1. Begun = {i \in Heads(file) : i <= Len(file)}
    BY <1>1 DEF Begun, Fresh
  <2> QED BY <1>1, <2>1
<1>3. \A j \in DOMAIN starts : /\ starts[j] \in Nat /\ starts[j] \in Heads(file)
                               /\ \A l \in 1 .. j - 1 : starts[l] < starts[j]
  BY <1>1, <1>2 DEF Ordered, Range
<1>4. ASSUME NEW j \in DOMAIN starts
      PROVE  /\ LastLine(j) \in Nat /\ starts[j] <= LastLine(j) /\ LastLine(j) <= Len(file)
             /\ LastLine(j) = Len(file) \/ LastLine(j) + 1 \in Heads(file)
             /\ \A i \in starts[j] + 1 .. LastLine(j) : i \notin Heads(file)
  <2>1. starts[j] \in 1 .. Len(file) /\ j \in 1 .. Len(starts)
    BY <1>1, <1>3
  <2>2. ASSUME NEW l \in DOMAIN starts, l <= j PROVE starts[l] <= starts[j]
    <3>1. l = j \/ l \in 1 .. j - 1
      BY <1>1, <2>1, <2>2
    <3> QED BY <1>1, <1>3, <2>1, <2>2, <3>1
  <2>3. CASE j = Len(starts)
    <3>1. LastLine(j) = Len(file)
      BY <1>1, <2>3 DEF LastLine
    <3>2. ASSUME NEW i \in Heads(file) PROVE i <= starts[j]
      <4>1. PICK l \in DOMAIN starts : i = starts[l]
        BY <1>2 DEF Range
      <4>2. l <= j
        BY <1>1, <2>3
      <4> QED BY <2>2, <4>1, <4>2
    <3>3. \A i \in starts[j] + 1 .. Len(file) : ~(i <= starts[j])
      BY <1>1, <2>1
    <3> QED BY <1>1, <2>1, <3>1, <3>2, <3>3
  <2>4. CASE j # Len(starts)
    <3>1. j + 1 \in DOMAIN starts /\ j \in 1 .. (j + 1) - 1
      BY <1>1, <2>1, <2>4
    <3>2. LastLine(j) = starts[j + 1] - 1
      BY <2>4 DEF LastLine
    <3>3. starts[j] < starts[j + 1] /\ starts[j + 1] \in Heads(file) /\ starts[j + 1] \in 1 .. Len(file)
      BY <1>1, <1>3, <3>1
    <3>4. /\ LastLine(j) \in Nat /\ starts[j] <= LastLine(j) /\ LastLine(j) <= Len(file)
          /\ LastLine(j) + 1 = starts[j + 1]
      <4>1. \A x, n \in Nat : \A y \in 1 .. n : x < y => y - 1 \in Nat /\ x <= y - 1 /\ y - 1 <= n /\ (y - 1) + 1 = y
        OBVIOUS
      <4>2. starts[j] \in Nat
        BY <1>3
      <4> QED BY ONLY <1>1, <3>2, <3>3, <4>1, <4>2
    <3>5. ASSUME NEW i \in Heads(file) PROVE i <= starts[j] \/ starts[j + 1] <= i
      <4>1. PICK l \in DOMAIN starts : i = starts[l]
        BY <1>2 DEF Range
      <4>2. CASE l <= j
        BY <2>2, <4>1, <4>2
      <4>3. CASE l = j + 1
        BY <1>1, <3>3, <4>1, <4>3
      <4>4. CASE l > j + 1
        <5>1. j + 1 \in 1 .. l - 1
          <6>1. l \in Nat /\ j \in Nat
            BY <1>1, <2>1
          <6> QED BY ONLY <4>4, <6>1
        <5>2. starts[j + 1] < starts[l]
          BY <1>3, <5>1
        <5>3. starts[j + 1] \in Nat /\ starts[l] \in Nat
          BY <1>3, <3>1
        <5> QED BY ONLY <4>1, <5>2, <5>3
      <4> QED BY <1>1, <2>1, <4>2, <4>3, <4>4
    <3>6. ASSUME NEW i \in starts[j] + 1 .. LastLine(j) PROVE ~(i <= starts[j] \/ starts[j + 1] <= i)
      <4>1. \A x, y, e \in Nat : e + 1 = y => \A k \in x + 1 .. e : ~(k <= x \/ y <= k)
        OBVIOUS
      <4>2. starts[j] \in Nat /\ starts[j + 1] \in Nat
        BY <1>3, <3>1
      <4> QED BY ONLY <3>4, <4>1, <4>2, <3>6
    <3> QED BY <3>3, <3>4, <3>5, <3>6
  <2> QED BY <2>3, <2>4
<1> QED BY <1>1, <1>2, <1>3, <1>4

\* A mail is the lines from its head to its end.
LEMMA LinesOfMail ==
    ASSUME TextInv, CutInv, IsCutUp(file), Exhausted, NEW j \in DOMAIN starts
    PROVE  /\ Len(Mail(j)) = LastLine(j) - starts[j] + 1 /\ Len(Mail(j)) \in Nat \ {0}
           /\ DOMAIN Mail(j) = 1 .. Len(Mail(j))
           /\ \A i \in 1 .. Len(Mail(j)) : Mail(j)[i] = file[starts[j] + i - 1]
<1> DEFINE a == starts[j] e == LastLine(j) s == SubSeq(file, a, e)
<1>1. /\ took = file /\ a \in 1 .. Len(file) /\ e \in Nat /\ a <= e /\ e <= Len(file) /\ Len(file) \in Nat
      /\ file \in Seq(Line)
  <2>1. /\ took = file /\ a \in 1 .. Len(file) /\ e \in Nat /\ a <= e /\ e <= Len(file)
    BY MailsFit
  <2>2. file \in Seq(Line)
    BY DEF TextInv, TextTypes
  <2> QED BY <2>1, <2>2, LenProperties
<1>2. Mail(j) = s
  BY <1>1 DEF Mail, LastLine
<1> HIDE DEF a, e
<1>3. \A i \in a .. e : file[i] \in Line
  <2>1. \A i \in a .. e : i \in 1 .. Len(file)
    BY <1>1
  <2> QED BY <1>1, <2>1, ElementOfSeq
<1>4. /\ s \in Seq(Line) /\ Len(s) = IF a <= e THEN e - a + 1 ELSE 0
      /\ \A i \in 1 .. e - a + 1 : s[i] = file[a + i - 1]
  <2>1. a \in Int /\ e \in Int
    BY <1>1
  <2> QED BY <1>3, <2>1, SubSeqProperties
<1> HIDE DEF s
<1>5. Len(s) = e - a + 1 /\ Len(s) \in Nat \ {0} /\ DOMAIN s = 1 .. Len(s)
  BY <1>1, <1>4, LenProperties
<1> QED BY <1>2, <1>4, <1>5 DEF a, e

\* Once the file is read, its mails are what the separators say.
LEMMA SplitAtEnd ==
    ASSUME TextInv, SplitInv
    PROVE  MailsSplit
<1> SUFFICES ASSUME Exhausted, opt.mbox_mode,
                    IsMbox \/ IsBatch("rmail") \/ IsBatch("ant")
             PROVE  /\ IsMbox =>
                         LET seps == {i \in DOMAIN file : file[i].k = "From" /\ (i > 1 => IsEol(file[i - 1]))}
                         IN Range(starts) = seps /\ Len(starts) = Cardinality(seps)
                    /\ IsBatch("rmail") => \A j \in DOMAIN starts :
                         Mail(j)[1].k = "rmail" /\ Len(Mail(j)) = Mail(j)[1].n + 1
                    /\ IsBatch("ant") => \A j \in DOMAIN starts :
                         /\ Mail(j)[1].k = "ant"
                         /\ \A i \in DOMAIN Mail(j) : Mail(j)[i].k = "dot" <=> i = Len(Mail(j))
  BY DEF MailsSplit
<1>1. CutInv /\ IsCutUp(file) /\ WholeFile(opt, file)
  BY DEF SplitInv, Exhausted, IsMbox, IsBatch, IsCutUp, TextInv, TextTypes
<1>2. /\ file \in Seq(Line) /\ Len(file) \in Nat
      /\ \A i \in 1 .. Len(file) : file[i] \in Line
      /\ \A i \in Heads(file) : file[i].k = file[1].k
      /\ file[1].k = "rmail" => AreHeads(Heads(file), file)
      /\ file[1].k = "ant" => WholeAnt(file)
      /\ DOMAIN file = 1 .. Len(file)
  BY <1>1, HeadsOfFile
<1>3. /\ starts \in Seq(Nat) /\ Len(starts) \in Nat /\ DOMAIN starts = 1 .. Len(starts)
      /\ Range(starts) = Heads(file)
      /\ \A j \in DOMAIN starts : \A l \in 1 .. j - 1 : starts[l] < starts[j]
  BY <1>1, MailsFit
<1>4. ASSUME NEW j \in DOMAIN starts
      PROVE  /\ starts[j] \in Heads(file) /\ starts[j] \in 1 .. Len(file)
             /\ LastLine(j) \in Nat /\ starts[j] <= LastLine(j) /\ LastLine(j) <= Len(file)
             /\ LastLine(j) = Len(file) \/ LastLine(j) + 1 \in Heads(file)
             /\ \A i \in starts[j] + 1 .. LastLine(j) : i \notin Heads(file)
             /\ Len(Mail(j)) = LastLine(j) - starts[j] + 1 /\ Len(Mail(j)) \in Nat \ {0}
             /\ DOMAIN Mail(j) = 1 .. Len(Mail(j))
             /\ \A i \in 1 .. Len(Mail(j)) : Mail(j)[i] = file[starts[j] + i - 1]
             /\ Mail(j)[1] = file[starts[j]]
  <2>1. /\ starts[j] \in Heads(file) /\ starts[j] \in 1 .. Len(file)
        /\ LastLine(j) \in Nat /\ starts[j] <= LastLine(j) /\ LastLine(j) <= Len(file)
        /\ LastLine(j) = Len(file) \/ LastLine(j) + 1 \in Heads(file)
        /\ \A i \in starts[j] + 1 .. LastLine(j) : i \notin Heads(file)
    BY <1>1, MailsFit
  <2>2. /\ Len(Mail(j)) = LastLine(j) - starts[j] + 1 /\ Len(Mail(j)) \in Nat \ {0}
        /\ DOMAIN Mail(j) = 1 .. Len(Mail(j))
        /\ \A i \in 1 .. Len(Mail(j)) : Mail(j)[i] = file[starts[j] + i - 1]
    BY <1>1, LinesOfMail
  <2>3. 1 \in 1 .. Len(Mail(j)) /\ starts[j] + 1 - 1 = starts[j]
    BY <2>1, <2>2
  <2>4. Mail(j)[1] = file[starts[j]]
    BY <2>2, <2>3
  <2> QED BY <2>1, <2>2, <2>4
<1>5. ASSUME IsMbox
      PROVE  LET seps == {i \in DOMAIN file : file[i].k = "From" /\ (i > 1 => IsEol(file[i - 1]))}
             IN Range(starts) = seps /\ Len(starts) = Cardinality(seps)
  <2> DEFINE seps == {i \in DOMAIN file : file[i].k = "From" /\ (i > 1 => IsEol(file[i - 1]))}
  <2>1. Heads(file) = seps
    BY <1>5 DEF Heads, IsMbox
  <2> HIDE DEF seps
  <2>2. Range(starts) = seps
    BY <1>3, <2>1
  <2>3. starts \in [1 .. Len(starts) -> seps]
    <3>1. starts \in [1 .. Len(starts) -> Nat]
      BY <1>3, LenProperties
    <3> QED BY <1>3, <2>2, <3>1 DEF Range
  <2>4. ASSUME NEW i \in 1 .. Len(starts), NEW j \in 1 .. Len(starts), starts[i] = starts[j] PROVE i = j
    <3>1. i \in 1 .. j - 1 \/ j \in 1 .. i - 1 \/ i = j
      BY <1>3
    <3>2. starts[i] \in Nat
      BY <1>3, ElementOfSeq
    <3>3. ~(starts[i] < starts[j]) /\ ~(starts[j] < starts[i])
      BY <2>4, <3>2
    <3> QED BY <1>3, <3>1, <3>3
  <2>5. starts \in Bijection(1 .. Len(starts), seps)
    <3>1. \A y \in seps : \E i \in 1 .. Len(starts) : starts[i] = y
      BY <1>3, <2>2 DEF Range
    <3> QED BY <2>3, <2>4, <3>1 DEF Bijection, Injection, Surjection, IsInjective
  <2>6. ExistsBijection(1 .. Len(starts), seps)
    BY <2>5 DEF ExistsBijection
  <2>7. IsFiniteSet(1 .. Len(starts)) /\ Cardinality(1 .. Len(starts)) = Len(starts)
    <3>1. 1 \in Int /\ Len(starts) \in Int
      BY <1>3
    <3>2. /\ IsFiniteSet(1 .. Len(starts))
          /\ Cardinality(1 .. Len(starts)) = IF 1 > Len(starts) THEN 0 ELSE Len(starts) - 1 + 1
      BY ONLY <3>1, FS_Interval
    <3> QED BY ONLY <1>3, <3>2
  <2>8. Len(starts) = Cardinality(seps)
    BY <2>6, <2>7, FS_Bijection
  <2> QED BY <2>2, <2>8 DEF seps
<1>6. ASSUME IsBatch("rmail"), NEW j \in DOMAIN starts
      PROVE  Mail(j)[1].k = "rmail" /\ Len(Mail(j)) = Mail(j)[1].n + 1
  <2> DEFINE b == starts[j] e == LastLine(j) z == file[starts[j]].n
  <2>1. file[1].k = "rmail" /\ AreHeads(Heads(file), file)
    BY <1>2, <1>6 DEF IsBatch
  <2>2. /\ b \in 1 .. Len(file) /\ e \in Nat /\ b <= e /\ e <= Len(file)
        /\ e = Len(file) \/ e + 1 \in Heads(file)
        /\ \A i \in b + 1 .. e : i \notin Heads(file)
        /\ Len(Mail(j)) = e - b + 1 /\ Mail(j)[1] = file[b]
    BY <1>4
  <2>3. /\ file[b].k = "rmail" /\ z \in Nat /\ b + z <= Len(file)
        /\ b + z = Len(file) \/ b + z + 1 \in Heads(file)
        /\ \A l \in b + 1 .. b + z : l \notin Heads(file)
    BY <1>2, <1>4, <2>1, TextMarkers DEF AreHeads
  <2>4. Mail(j)[1].k = "rmail" /\ Mail(j)[1].n = z
    BY <2>2, <2>3
  <2> HIDE DEF b, e, z
  <2>5. b \in Nat /\ e \in Nat /\ z \in Nat /\ Len(file) \in Nat
    <3>1. Len(file) \in Nat /\ z \in Nat /\ e \in Nat /\ b \in 1 .. Len(file)
      BY ONLY <1>2, <2>2, <2>3, Zenon
    <3> QED BY ONLY <3>1
  <2>6. ~(e < b + z)
    <3> SUFFICES ASSUME e < b + z PROVE FALSE
      OBVIOUS
    <3>1. e # Len(file) /\ e + 1 \in b + 1 .. b + z
      <4>1. b <= e /\ b + z <= Len(file)
        BY <2>2, <2>3
      <4> QED BY ONLY <2>5, <4>1, e < b + z
    <3> QED BY <2>2, <2>3, <3>1
  <2>7. ~(b + z < e)
    <3> SUFFICES ASSUME b + z < e PROVE FALSE
      OBVIOUS
    <3>1. b + z # Len(file) /\ b + z + 1 \in b + 1 .. e
      <4>1. e <= Len(file)
        BY <2>2
      <4> QED BY ONLY <2>5, <4>1, b + z < e
    <3> QED BY <2>2, <2>3, <3>1
  <2>8. e - b + 1 = z + 1
    BY ONLY <2>5, <2>6, <2>7
  <2> QED BY <2>2, <2>4, <2>8
<1>7. ASSUME IsBatch("ant"), NEW j \in DOMAIN starts
      PROVE  /\ Mail(j)[1].k = "ant"
             /\ \A i \in DOMAIN Mail(j) : Mail(j)[i].k = "dot" <=> i = Len(Mail(j))
  <2> DEFINE b == starts[j] e == LastLine(j)
  <2>1. /\ file[1].k = "ant" /\ WholeAnt(file)
        /\ Heads(file) = {i \in DOMAIN file : i > 1 => file[i - 1].k = "dot"}
    BY <1>2, <1>7 DEF IsBatch, Heads
  <2>2. /\ b \in 1 .. Len(file) /\ b \in Heads(file) /\ e \in Nat /\ b <= e /\ e <= Len(file)
        /\ e = Len(file) \/ e + 1 \in Heads(file)
        /\ \A i \in b + 1 .. e : i \notin Heads(file)
        /\ Len(Mail(j)) = e - b + 1 /\ Mail(j)[1] = file[b]
        /\ DOMAIN Mail(j) = 1 .. Len(Mail(j))
        /\ \A i \in 1 .. Len(Mail(j)) : Mail(j)[i] = file[b + i - 1]
    BY <1>4
  <2>3. file[b].k = "ant"
    BY <1>2, <2>1, <2>2
  <2> HIDE DEF b, e
  <2>4. ASSUME NEW i \in 1 .. Len(Mail(j)) PROVE Mail(j)[i].k = "dot" <=> i = Len(Mail(j))
    <3> DEFINE p == b + i - 1
    <3>1. /\ p \in Nat /\ b <= p /\ p <= e /\ p \in 1 .. Len(file)
          /\ i = Len(Mail(j)) <=> p = e
      <4>1. \A m, n \in Nat : \A x \in 1 .. n : \A l \in 1 .. m - x + 1 : x <= m /\ m <= n =>
               /\ x + l - 1 \in Nat /\ x <= x + l - 1 /\ x + l - 1 <= m /\ x + l - 1 \in 1 .. n
               /\ l = m - x + 1 <=> x + l - 1 = m
        OBVIOUS
      <4>2. i \in 1 .. e - b + 1
        BY ONLY <2>2, <2>4
      <4>3. b \in 1 .. Len(file) /\ e \in Nat /\ b <= e /\ e <= Len(file) /\ Len(Mail(j)) = e - b + 1
            /\ Len(file) \in Nat
        BY ONLY <1>2, <2>2, Zenon
      <4> QED BY ONLY <4>1, <4>2, <4>3
    <3>2. Mail(j)[i] = file[p]
      BY <2>2
    <3> HIDE DEF p
    <3>3. CASE p = e
      <4>1. file[e].k = "dot"
        <5>1. CASE e = Len(file)
          BY <2>1, <5>1 DEF WholeAnt
        <5>2. CASE e + 1 \in Heads(file)
          <6>1. e + 1 > 1 /\ (e + 1) - 1 = e
            BY <2>2
          <6> QED BY <2>1, <5>2, <6>1
        <5> QED BY <2>2, <5>1, <5>2
      <4> QED BY <3>1, <3>2, <3>3, <4>1
    <3>4. CASE p # e
      <4>1. p + 1 \in b + 1 .. e /\ p + 1 \in DOMAIN file /\ (p + 1) - 1 = p
        <5>1. /\ e \in Nat /\ Len(file) \in Nat /\ e <= Len(file) /\ DOMAIN file = 1 .. Len(file)
              /\ b \in 1 .. Len(file)
          BY ONLY <1>2, <2>2, Zenon
        <5>2. b \in Nat
          BY ONLY <5>1
        <5> QED BY ONLY <3>1, <3>4, <5>1, <5>2
      <4>2. file[p].k # "dot"
        BY <2>1, <2>2, <4>1
      <4> QED BY <3>1, <3>2, <3>4, <4>2
    <3> QED BY <3>3, <3>4
  <2> QED BY <2>2, <2>3, <2>4
<1> QED BY <1>5, <1>6, <1>7

\* The lines of a file reach the mails it is cut into, whole and at the right places,
\* whatever files were read before it: nothing the readers keep between two lines, two
\* mails or two files (sep, firstline, emptyline, bytesleft, dot_found, the saved
\* separator and have_message, bogoreader.c:437-579) is left over from another one.
\* Of a batch it is assumed that it is whole.
THEOREM LinesReachTheirMails == ASSUME WholeFiles PROVE InputSpec => []MailsKept
<1> DEFINE Inv == TextInv /\ SplitInv
<1>1. InputInit => Inv
  BY TextInvInit, SplitInvInit DEF InputInit
<1>2. Inv /\ [InputNext]_allVars => Inv'
  <2> SUFFICES ASSUME Inv, [InputNext]_allVars PROVE Inv'
    OBVIOUS
  <2>1. [Next]_vars
    BY DEF InputNext, Text, Dir, Parts, Tokens, Decode, Scan, allVars
  <2> QED BY <2>1, TextInvStep, SplitInvStep
<1>3. Inv => MailsKept
  BY TextInvLines, SplitAtEnd DEF MailsKept
<1> QED BY <1>1, <1>2, <1>3, PTL DEF InputSpec

-----------------------------------------------------------------------------
(* Maildir *)

\* The directories are read in the order of maildir_subs.
AheadIn(s, d) == \E i \in DOMAIN s : s[i] = d
Ahead(d) == AheadIn(subs, d)

ReadInOrder ==
    \/ dtype = "maildir" /\ subs = <<"new", "cur">> /\ sub = "none"
    \/ dtype = "maildir" /\ subs = <<"cur">> /\ sub \in {"none", "new"}
    \/ dtype = "maildir" /\ subs = <<>> /\ sub \in {"none", "cur"}
    \/ dtype = "mh" /\ subs = <<"folder">> /\ sub = "none"
    \/ dtype = "mh" /\ subs = <<>> /\ sub \in {"none", "folder"}

\* The names that have been there since opendir are there.
SteadyAreThere ==
    /\ sub = "none" => steady = {}
    /\ sub # "none" => steady \subseteq dirs[sub]

ReaderIsSomewhere ==
    /\ dpc = "open" => sub # "none"
    /\ dpc = "done" => subs = <<>> /\ sub = "none"

\* A name that will be given: it is in a directory that is still to be read, or has
\* been in this one since opendir, or is about to be opened.
ToCome(n) ==
    \/ \E d \in D!Directory : Ahead(d) /\ n \in dirs[d]
    \/ n \in steady
    \/ dpc = "open" /\ entry = n /\ n \in dirs[sub]

NoneLeftOut ==
    \A m \in first : kind[m] = "mail" /\ m \notin renamed =>
        got[m] > 0 \/ \E f \in D!Flags : ToCome(<<m, f>>)

MaildirInv == D!TypeOK /\ ReadInOrder /\ SteadyAreThere /\ ReaderIsSomewhere /\ NoneLeftOut

\* What is ahead where.
LEMMA AheadCases ==
    ASSUME NEW s
    PROVE  /\ s = <<"new", "cur">> => \A d : AheadIn(s, d) <=> d \in {"new", "cur"}
           /\ s = <<"cur">> => \A d : AheadIn(s, d) <=> d = "cur"
           /\ s = <<"folder">> => \A d : AheadIn(s, d) <=> d = "folder"
           /\ s = <<>> => \A d : ~AheadIn(s, d)
<1>1. CASE s = <<"new", "cur">>
  <2>1. DOMAIN s = {1, 2} /\ s[1] = "new" /\ s[2] = "cur"
    BY <1>1
  <2> QED BY <1>1, <2>1 DEF AheadIn
<1>2. CASE s = <<"cur">>
  <2>1. DOMAIN s = {1} /\ s[1] = "cur"
    BY <1>2
  <2> QED BY <1>2, <2>1 DEF AheadIn
<1>3. CASE s = <<"folder">>
  <2>1. DOMAIN s = {1} /\ s[1] = "folder"
    BY <1>3
  <2> QED BY <1>3, <2>1 DEF AheadIn
<1>4. CASE s = <<>>
  <2>1. DOMAIN s = {}
    BY <1>4
  <2> QED BY <1>4, <2>1 DEF AheadIn
<1> QED BY <1>1, <1>2, <1>3, <1>4

\* Nothing is given and all is to come.
LEMMA MaildirStarts == D!Init => MaildirInv
<1> SUFFICES ASSUME D!Init PROVE MaildirInv
  OBVIOUS
<1> USE DEF D!Init
<1>1. PICK at \in [MailId -> D!Directory \cup {"outside"}] :
        /\ \A m \in MailId : at[m] = "outside" \/ \E i \in DOMAIN D!Subs(dtype) :
                                                     at[m] = D!Subs(dtype)[i]
        /\ dirs = [d \in D!Directory |-> {<<m, 0>> : m \in {x \in MailId : at[x] = d}}]
  OBVIOUS
<1>5. kind \in [MailId -> D!FileKinds]
  BY InputAssumption DEF D!MaildirAssumption
<1>2. D!TypeOK
  BY <1>1, <1>5 DEF D!TypeOK, D!Name, D!Flags, D!Directory
<1>3. ReadInOrder /\ SteadyAreThere /\ ReaderIsSomewhere
  BY DEF D!Subs, ReadInOrder, SteadyAreThere, ReaderIsSomewhere
<1>4. ASSUME NEW m \in first
      PROVE  \E f \in D!Flags : ToCome(<<m, f>>)
  <2>1. PICK d \in D!Directory, f \in D!Flags : m \in MailId /\ <<m, f>> \in dirs[d]
    BY <1>4 DEF D!MailsIn
  <2>2. at[m] = d /\ d # "outside"
    BY <1>1, <2>1 DEF D!Directory
  <2>3. Ahead(d)
    BY <1>1, <2>1, <2>2 DEF Ahead, AheadIn
  <2> QED BY <2>1, <2>3 DEF ToCome
<1> QED BY <1>2, <1>3, <1>4 DEF MaildirInv, NoneLeftOut

\* The reader gives each of them, or has it still to come.
LEMMA ReaderKeeps ==
    ASSUME MaildirInv,
           D!OpenDir \/ D!ReadDir \/ D!Fopen \/ D!EndOfDir \/ D!NoMoreDirs \/ D!ReadFails
    PROVE  MaildirInv'
<1> USE DEF MaildirInv, D!otherVars
<1>1. CASE D!OpenDir
  <2>1. /\ dpc = "next" /\ sub = "none" /\ subs # <<>> /\ steady = {}
        /\ sub' = Head(subs) /\ subs' = Tail(subs) /\ dpc' = dpc
        /\ steady' = dirs[sub'] /\ listed' = dirs[sub']
        /\ UNCHANGED <<dtype, kind, dirs, known, first, renamed, entry, got>>
    BY <1>1 DEF D!OpenDir, SteadyAreThere
  <2>2. ReadInOrder' /\ sub' \in D!Directory
    <3>1. CASE subs = <<"new", "cur">>
      <4>1. sub' = "new" /\ subs' = <<"cur">>
        BY <2>1, <3>1
      <4> QED BY <2>1, <3>1, <4>1 DEF ReadInOrder, D!Directory
    <3>2. CASE subs = <<"cur">>
      <4>1. sub' = "cur" /\ subs' = <<>>
        BY <2>1, <3>2
      <4> QED BY <2>1, <3>2, <4>1 DEF ReadInOrder, D!Directory
    <3>3. CASE subs = <<"folder">>
      <4>1. sub' = "folder" /\ subs' = <<>>
        BY <2>1, <3>3
      <4> QED BY <2>1, <3>3, <4>1 DEF ReadInOrder, D!Directory
    <3> QED BY <2>1, <3>1, <3>2, <3>3 DEF ReadInOrder
  <2>3. D!TypeOK'
    BY <2>1, <2>2 DEF D!TypeOK
  <2>4. SteadyAreThere' /\ ReaderIsSomewhere'
    BY <2>1, <2>2 DEF SteadyAreThere, ReaderIsSomewhere, D!Directory
  <2>5. ASSUME NEW d, Ahead(d) PROVE d = sub' \/ Ahead(d)'
    <3>1. CASE subs = <<"new", "cur">>
      <4>1. sub' = "new" /\ subs' = <<"cur">>
        BY <2>1, <3>1
      <4> QED BY <2>5, <3>1, <4>1, AheadCases DEF Ahead
    <3>2. CASE subs = <<"cur">>
      <4>1. sub' = "cur"
        BY <2>1, <3>2
      <4> QED BY <2>5, <3>2, <4>1, AheadCases DEF Ahead
    <3>3. CASE subs = <<"folder">>
      <4>1. sub' = "folder"
        BY <2>1, <3>3
      <4> QED BY <2>5, <3>3, <4>1, AheadCases DEF Ahead
    <3> QED BY <2>1, <3>1, <3>2, <3>3 DEF ReadInOrder
  <2>6. \A n : ToCome(n) => ToCome(n)'
    BY <2>1, <2>5 DEF ToCome
  <2> QED BY <2>1, <2>2, <2>3, <2>4, <2>6 DEF NoneLeftOut
<1>2. CASE D!ReadDir
  <2>1. PICK e \in listed :
        /\ dpc = "next" /\ sub # "none"
        /\ listed' = listed \ {e} /\ steady' = steady \ {e}
        /\ \/ kind[e[1]] = "private" /\ dpc' = dpc /\ entry' = entry
           \/ dpc' = "open" /\ entry' = e
        /\ UNCHANGED <<dtype, kind, dirs, known, first, renamed, subs, sub, got>>
    BY <1>2 DEF D!ReadDir
  <2>2. D!TypeOK'
    BY <2>1 DEF D!TypeOK
  <2>3. ReadInOrder' /\ SteadyAreThere' /\ ReaderIsSomewhere'
    BY <2>1 DEF ReadInOrder, SteadyAreThere, ReaderIsSomewhere
  <2>4. ASSUME NEW m, NEW w, kind[m] = "mail", ToCome(<<m, w>>) PROVE ToCome(<<m, w>>)'
    BY <2>1, <2>4 DEF ToCome, Ahead, AheadIn, SteadyAreThere
  <2> QED BY <2>1, <2>2, <2>3, <2>4 DEF NoneLeftOut
<1>3. CASE D!Fopen
  <2>1. /\ dpc = "open" /\ dpc' = "next" /\ sub # "none" /\ entry \in D!Name
        /\ got' = IF D!Opened THEN [got EXCEPT ![entry[1]] = @ + 1] ELSE got
        /\ UNCHANGED <<dtype, kind, dirs, known, first, renamed, subs, sub, listed, steady>>
    BY <1>3 DEF D!Fopen, ReaderIsSomewhere, D!TypeOK
  <2>2. entry[1] \in MailId /\ got \in [MailId -> Nat]
    BY <2>1 DEF D!Name, D!TypeOK
  <2>3. D!TypeOK'
    BY <2>1, <2>2 DEF D!TypeOK
  <2>4. ReadInOrder' /\ SteadyAreThere' /\ ReaderIsSomewhere'
    BY <2>1 DEF ReadInOrder, SteadyAreThere, ReaderIsSomewhere
  <2>5. ASSUME NEW m \in first, kind[m] = "mail", m \notin renamed
        PROVE  got'[m] > 0 \/ \E f \in D!Flags : ToCome(<<m, f>>)'
    <3>1. CASE got[m] > 0
      <4>1. m \in MailId => got[m] \in Nat
        BY <2>2
      <4> QED BY <2>1, <2>2, <3>1, <4>1
    <3>2. ASSUME NEW f \in D!Flags, ToCome(<<m, f>>)
          PROVE  got'[m] > 0 \/ ToCome(<<m, f>>)'
      <4>1. CASE entry = <<m, f>> /\ <<m, f>> \in dirs[sub]
        BY <2>1, <2>2, <2>5, <4>1 DEF D!Opened
      <4>2. CASE ~(entry = <<m, f>> /\ <<m, f>> \in dirs[sub])
        BY <2>1, <3>2, <4>2 DEF ToCome, Ahead, AheadIn
      <4> QED BY <4>1, <4>2
    <3> QED BY <2>5, <3>1, <3>2 DEF NoneLeftOut
  <2> QED BY <2>1, <2>3, <2>4, <2>5 DEF NoneLeftOut
<1>4. CASE D!EndOfDir
  <2>1. /\ dpc = "next" /\ sub # "none" /\ steady = {} /\ sub' = "none" /\ listed' = {}
        /\ UNCHANGED <<dtype, kind, dirs, known, first, renamed, dpc, subs, steady, entry, got>>
    BY <1>4 DEF D!EndOfDir
  <2>2. D!TypeOK' /\ ReadInOrder' /\ SteadyAreThere' /\ ReaderIsSomewhere'
    BY <2>1 DEF D!TypeOK, ReadInOrder, SteadyAreThere, ReaderIsSomewhere
  <2>3. \A n : ToCome(n) => ToCome(n)'
    BY <2>1 DEF ToCome, Ahead, AheadIn
  <2> QED BY <2>1, <2>2, <2>3 DEF NoneLeftOut
<1>5. CASE D!NoMoreDirs
  <2>1. /\ dpc = "next" /\ sub = "none" /\ subs = <<>> /\ dpc' = "done"
        /\ UNCHANGED <<dtype, kind, dirs, known, first, renamed, subs, sub, listed, steady, entry, got>>
    BY <1>5 DEF D!NoMoreDirs
  <2>2. D!TypeOK' /\ ReadInOrder' /\ SteadyAreThere' /\ ReaderIsSomewhere'
    BY <2>1 DEF D!TypeOK, ReadInOrder, SteadyAreThere, ReaderIsSomewhere
  <2>3. \A n : ToCome(n) => ToCome(n)'
    BY <2>1 DEF ToCome, Ahead, AheadIn
  <2> QED BY <2>1, <2>2, <2>3 DEF NoneLeftOut
<1>6. CASE D!ReadFails
  <2>1. /\ dpc = "next" /\ dpc' = "exited"
        /\ UNCHANGED <<dtype, kind, dirs, known, first, renamed, subs, sub, listed, steady, entry, got>>
    BY <1>6 DEF D!ReadFails
  <2>2. D!TypeOK' /\ ReadInOrder' /\ SteadyAreThere' /\ ReaderIsSomewhere'
    BY <2>1 DEF D!TypeOK, ReadInOrder, SteadyAreThere, ReaderIsSomewhere
  <2>3. \A n : ToCome(n) => ToCome(n)'
    BY <2>1 DEF ToCome, Ahead, AheadIn
  <2> QED BY <2>1, <2>2, <2>3 DEF NoneLeftOut
<1> QED BY <1>1, <1>2, <1>3, <1>4, <1>5, <1>6

\* A name that is moved from new to cur is given there: cur is read after new.  One
\* that is renamed in the last directory before that is opened is given with its new
\* name.
LEMMA MoversKeep ==
    ASSUME MaildirInv, \/ D!Deliver \/ D!Move \/ D!Rename \/ D!Delete
    PROVE  MaildirInv'
<1> USE DEF MaildirInv
<1> DEFINE Same == UNCHANGED <<dtype, kind, dpc, subs, sub, entry, got>>
           Known == /\ dirs' \in [D!Directory -> SUBSET D!Name]
                    /\ listed' \subseteq D!Name /\ steady' \subseteq listed'
                    /\ first' \subseteq known' /\ renamed' \subseteq MailId
                    /\ sub = "none" => steady' = {}
                    /\ sub # "none" => steady' \subseteq dirs'[sub]
<1>1. ASSUME Same, Known PROVE D!TypeOK' /\ ReadInOrder' /\ SteadyAreThere' /\ ReaderIsSomewhere'
  BY <1>1 DEF D!TypeOK, ReadInOrder, SteadyAreThere, ReaderIsSomewhere
<1>2. CASE D!Deliver
  <2>1. PICK m \in MailId \ known :
          /\ D!Renamed(D!Where[1], {}, D!Where[1], {<<m, 0>>})
          /\ known' = known \cup {m} /\ first' = first /\ renamed' = renamed
    BY <1>2 DEF D!Deliver
  <2>2. D!Where[1] \in D!Directory
    BY DEF D!Where, D!Subs, D!Directory
  <2>3. /\ dirs' \in [D!Directory -> SUBSET D!Name]
        /\ \A d \in D!Directory : dirs[d] \subseteq dirs'[d]
        /\ listed \subseteq listed' /\ listed' \subseteq D!Name /\ steady' = steady /\ Same
    BY <2>1, <2>2 DEF D!Renamed, D!TypeOK, D!Name, D!Flags
  <2>4. Known
    BY <2>1, <2>3 DEF D!TypeOK, SteadyAreThere
  <2>5. \A n : ToCome(n) => ToCome(n)'
    BY <2>3 DEF ToCome, Ahead, AheadIn, ReaderIsSomewhere, D!TypeOK
  <2> QED BY <1>1, <2>1, <2>3, <2>4, <2>5 DEF NoneLeftOut
<1>3. CASE D!Move
  <2>1. PICK n \in dirs["new"] :
          /\ D!Renamed("new", {n}, "cur", {n}) /\ UNCHANGED <<known, first, renamed>> /\ dtype = "maildir"
    BY <1>3 DEF D!Move
  <2>2. /\ "new" \in D!Directory /\ "cur" \in D!Directory
        /\ dirs' = [dirs EXCEPT !["new"] = @ \ {n}, !["cur"] = @ \cup {n}]
        /\ listed' = IF sub = "cur" THEN listed \cup {n} ELSE listed
        /\ steady' = IF sub = "new" THEN steady \ {n} ELSE steady
        /\ Same
    BY <2>1 DEF D!Renamed, D!Directory
  <2>3. /\ \A d \in D!Directory : dirs'[d] \subseteq dirs[d] \cup {n}
        /\ \A d \in D!Directory \ {"new"} : dirs[d] \subseteq dirs'[d]
        /\ dirs["new"] \ {n} \subseteq dirs'["new"] /\ n \in dirs'["cur"] /\ n \in D!Name
    BY <2>1, <2>2 DEF D!TypeOK
  <2>4. Known
    BY <2>1, <2>2, <2>3 DEF D!TypeOK, SteadyAreThere
  <2>5. ToCome(n) => ToCome(n)'
    <3>1. Ahead("new") => Ahead("cur")
      BY AheadCases DEF Ahead, ReadInOrder
    <3>2. sub = "new" => Ahead("cur")
      BY AheadCases DEF Ahead, ReadInOrder
    <3>3. Ahead("cur")' <=> Ahead("cur")
      BY <2>2 DEF Ahead
    <3>4. Ahead("cur") => ToCome(n)'
      BY <2>2, <2>3, <3>3 DEF ToCome
    <3>5. ASSUME NEW d \in D!Directory, Ahead(d), n \in dirs[d], d # "new" PROVE ToCome(n)'
      <4>1. n \in dirs'[d] /\ Ahead(d)'
        BY <2>2, <2>3, <3>5 DEF Ahead
      <4> QED BY <4>1, <3>5 DEF ToCome
    <3>6. n \in steady => Ahead("cur") \/ n \in steady'
      BY <2>2, <3>2
    <3>7. dpc = "open" /\ entry = n /\ n \in dirs[sub] => Ahead("cur") \/ n \in dirs'[sub]
      BY <2>2, <2>3, <3>2 DEF ReaderIsSomewhere, D!TypeOK
    <3> QED BY <2>2, <3>1, <3>4, <3>5, <3>6, <3>7 DEF ToCome
  <2>6. \A w : w # n /\ ToCome(w) => ToCome(w)'
    BY <2>2, <2>3 DEF ToCome, Ahead, AheadIn, ReaderIsSomewhere, D!TypeOK
  <2> QED BY <1>1, <2>1, <2>2, <2>4, <2>5, <2>6 DEF NoneLeftOut
<1>4. CASE D!Delete
  <2>1. PICK i \in DOMAIN D!Where : \E n \in dirs[D!Where[i]] :
          /\ D!Renamed(D!Where[i], {n}, D!Where[i], {}) /\ first' = first \ {n[1]}
          /\ known' = known /\ renamed' = renamed
    BY <1>4 DEF D!Delete
  <2>2. PICK n \in dirs[D!Where[i]] :
          /\ D!Renamed(D!Where[i], {n}, D!Where[i], {}) /\ first' = first \ {n[1]}
          /\ known' = known /\ renamed' = renamed
    BY <2>1
  <2>3. D!Where[i] \in D!Directory
    BY DEF D!Where, D!Subs, D!Directory
  <2>4. /\ dirs' \in [D!Directory -> SUBSET D!Name]
        /\ \A d \in D!Directory : dirs'[d] \subseteq dirs[d] /\ dirs[d] \ {n} \subseteq dirs'[d]
        /\ listed' = listed /\ Same
        /\ steady' = IF sub = D!Where[i] THEN steady \ {n} ELSE steady
        /\ \A d \in D!Directory \ {D!Where[i]} : dirs'[d] = dirs[d]
    BY <2>2, <2>3 DEF D!Renamed, D!TypeOK
  <2>5. Known
    BY <2>2, <2>4 DEF D!TypeOK, SteadyAreThere
  <2>6. \A w : w # n /\ ToCome(w) => ToCome(w)'
    BY <2>4 DEF ToCome, Ahead, AheadIn, ReaderIsSomewhere, D!TypeOK
  <2>7. \A m \in first' : m \in first /\ \A f : <<m, f>> # n
    BY <2>2
  <2> QED BY <1>1, <2>2, <2>4, <2>5, <2>6, <2>7 DEF NoneLeftOut
<1>5. CASE D!Rename
  <2> DEFINE Old(m) == <<m, 0>>
             New(m) == <<m, 1>>
  <2>1. PICK m \in MailId :
          /\ Old(m) \in dirs[D!Kept]
          /\ D!Renamed(D!Kept, {Old(m)}, D!Kept, {New(m)})
          /\ renamed' = IF sub = D!Kept THEN renamed \cup {m} ELSE renamed
          /\ UNCHANGED <<known, first>>
    BY <1>5 DEF D!Rename
  <2>2. D!Kept \in D!Directory /\ New(m) \in D!Name /\ 1 \in D!Flags
    BY DEF D!Kept, D!Directory, D!Name, D!Flags
  <2>3. /\ dirs' \in [D!Directory -> SUBSET D!Name]
        /\ \A d \in D!Directory \ {D!Kept} : dirs'[d] = dirs[d]
        /\ dirs'[D!Kept] = (dirs[D!Kept] \ {Old(m)}) \cup {New(m)}
        /\ listed' = (IF sub = D!Kept THEN listed \cup {New(m)} ELSE listed) /\ Same
        /\ steady' = IF sub = D!Kept THEN steady \ {Old(m)} ELSE steady
    BY <2>1, <2>2 DEF D!Renamed, D!TypeOK
  <2> HIDE DEF Old, New
  <2>4. Known
    BY <2>1, <2>2, <2>3 DEF D!TypeOK, SteadyAreThere
  <2>5. \A w : w # Old(m) /\ ToCome(w) => ToCome(w)'
    BY <2>2, <2>3 DEF ToCome, Ahead, AheadIn, ReaderIsSomewhere, D!TypeOK
  <2>6. ToCome(Old(m)) /\ sub # D!Kept => ToCome(Old(m))' \/ ToCome(New(m))'
    <3>1. ASSUME NEW d \in D!Directory, Ahead(d), Old(m) \in dirs[d]
          PROVE  ToCome(Old(m))' \/ ToCome(New(m))'
      <4>1. Ahead(d)' /\ (Old(m) \in dirs'[d] \/ New(m) \in dirs'[d])
        BY <2>3, <3>1 DEF Ahead
      <4> QED BY <4>1, <3>1 DEF ToCome
    <3>2. Old(m) \in steady /\ sub # D!Kept => ToCome(Old(m))'
      BY <2>3 DEF ToCome
    <3>3. dpc = "open" /\ entry = Old(m) /\ Old(m) \in dirs[sub] /\ sub # D!Kept => ToCome(Old(m))'
      BY <2>3 DEF ToCome, ReaderIsSomewhere, D!TypeOK
    <3> QED BY <3>1, <3>2, <3>3 DEF ToCome
  <2>7. ASSUME NEW x \in first, kind[x] = "mail", x \notin renamed'
        PROVE  got[x] > 0 \/ \E f \in D!Flags : ToCome(<<x, f>>)'
    <3>1. CASE got[x] > 0
      BY <3>1
    <3>2. ASSUME NEW f \in D!Flags, ToCome(<<x, f>>)
          PROVE  \E g \in D!Flags : ToCome(<<x, g>>)'
      <4>1. CASE <<x, f>> # Old(m)
        BY <2>5, <3>2, <4>1
      <4>2. CASE <<x, f>> = Old(m)
        <5>1. x = m /\ New(m) = <<x, 1>> /\ sub # D!Kept
          BY <2>1, <2>7, <4>2 DEF Old, New
        <5> QED BY <2>2, <2>6, <3>2, <4>2, <5>1
      <4> QED BY <4>1, <4>2
    <3> QED BY <2>1, <2>7, <3>1, <3>2 DEF NoneLeftOut
  <2> QED BY <1>1, <2>1, <2>3, <2>4, <2>7 DEF NoneLeftOut
<1> QED BY <1>2, <1>3, <1>4, <1>5

\* When the program has read the directories, a mail that was there at the start
\* has been read, whatever other programs deliver, move, rename and delete, but for
\* deleted mails and those renamed in cur or in an MH folder while that was read
\* (dir_next_mail, maildir_subs, bogoreader.c).
THEOREM OnlyRenamedMailIsMissed == InputSpec => []OnlyRenamedAreMissed
<1>1. InputInit => MaildirInv
  BY MaildirStarts DEF InputInit
<1>2. MaildirInv /\ [InputNext]_allVars => MaildirInv'
  <2> SUFFICES ASSUME MaildirInv, [InputNext]_allVars PROVE MaildirInv'
    OBVIOUS
  <2>1. CASE component = "dir" /\ D!Next
    BY <2>1, ReaderKeeps, MoversKeep DEF D!Next
  <2>2. CASE UNCHANGED dirVars
    BY <2>2 DEF dirVars, MaildirInv, D!TypeOK, ReadInOrder, SteadyAreThere,
                ReaderIsSomewhere, NoneLeftOut, ToCome, Ahead, AheadIn
  <2> QED BY <2>1, <2>2 DEF InputNext, Text, Dir, Parts, Tokens, Decode, Scan, allVars
<1>3. MaildirInv => OnlyRenamedAreMissed
  <2> SUFFICES ASSUME MaildirInv, dpc = "done", NEW m \in first, kind[m] = "mail", m \notin renamed
               PROVE  got[m] > 0
    BY DEF OnlyRenamedAreMissed, D!OnlyRenamedAreMissed
  <2>1. subs = <<>> /\ steady = {}
    BY DEF MaildirInv, ReaderIsSomewhere, SteadyAreThere
  <2>2. \A n : ~ToCome(n)
    BY <2>1, AheadCases DEF ToCome, Ahead
  <2> QED BY <2>2 DEF MaildirInv, NoneLeftOut
<1> QED BY <1>1, <1>2, <1>3, PTL DEF InputSpec

-----------------------------------------------------------------------------
(* Mime *)

\* The program is in the entities of the writer, but for the boundary of one that
\* has been closed.
SameEntities ==
    /\ Len(E!Entered) = Len(part) /\ part # <<>>
    /\ \A i \in 1 .. Len(part) :
        /\ E!Declared(E!Entered[i]) = E!Declared(part[i])
        /\ E!Entered[i].boundary = part[i].boundary \/ (where = "epilogue" /\ i = Len(part))

WhereItIs ==
    /\ where # "epilogue" => E!InHeader = (where = "header")
    /\ where = "epilogue" =>
        part[Len(part)].mime_type = "multipart" /\ part[Len(part)].boundary = None

\* A boundary belongs to one entity, a multipart.
BoundaryOfOne ==
    \A i \in 1 .. Len(E!Entered) : E!Entered[i].boundary # None =>
        /\ E!Entered[i].mime_type = "multipart"
        /\ \A j \in 1 .. Len(E!Entered) : E!Entered[j].boundary = E!Entered[i].boundary => j = i

OnlyApplications ==
    \A i \in 1 .. Len(part) : part[i].dont_decode => part[i].mime_type = "application"

\* A message that is declared has room in the bound.
RoomForMessage ==
    where = "header" /\ part[Len(part)].mime_type = "message" => Len(part) < MaxDepth

\* No message begins with the line that is read ahead in a body.
ReadAhead == ahead /\ where # "header" => E!Last(stack).mime_type # "message"

EnteredType ==
    /\ E!Entered \in Seq(E!Entities) /\ E!Entered # <<>> /\ E!InHeader \in BOOLEAN

MimeInv == /\ E!TypeOK /\ EnteredType /\ ReadAhead
           /\ SameEntities /\ WhereItIs /\ BoundaryOfOne /\ OnlyApplications /\ RoomForMessage

\* A line is matched where it was read.
MatchedAtOnce == stack' \in Seq(E!Entities) /\ stack' # <<>> /\ mheader' \in BOOLEAN /\ ahead' = FALSE

LEMMA AtOnce ==
    ASSUME MatchedAtOnce
    PROVE  /\ E!Entered' = stack' /\ E!InHeader' = mheader' /\ E!Current' = E!msg_state'
           /\ EnteredType' /\ ReadAhead'
<1>1. E!Entered' = stack' /\ E!InHeader' = mheader'
  BY DEF MatchedAtOnce, E!Entered, E!InHeader
<1> QED BY <1>1 DEF MatchedAtOnce, EnteredType, ReadAhead, E!Current, E!msg_state

\* The beginning of a sequence, with one element more or another one at its end.
LEMMA CutAt ==
    ASSUME NEW S, NEW s \in Seq(S), NEW d \in 1 .. Len(s)
    PROVE  /\ SubSeq(s, 1, d) \in Seq(S) /\ Len(SubSeq(s, 1, d)) = d
           /\ \A i \in 1 .. d : SubSeq(s, 1, d)[i] = s[i]
<1>1. \A i \in 1 .. d : s[i] \in S
  BY ElementOfSeq
<1>2. 1 \in Int /\ d \in Int /\ 1 <= d
  OBVIOUS
<1>3. /\ SubSeq(s, 1, d) \in Seq(S)
      /\ Len(SubSeq(s, 1, d)) = IF 1 <= d THEN d - 1 + 1 ELSE 0
      /\ \A i \in 1 .. d - 1 + 1 : SubSeq(s, 1, d)[i] = s[1 + i - 1]
  BY <1>1, <1>2, SubSeqProperties
<1> QED BY <1>2, <1>3

\* The end of a sequence from its element m on.
LEMMA EndFrom ==
    ASSUME NEW S, NEW s \in Seq(S), NEW m \in 1 .. Len(s), NEW n \in Nat, n = Len(s) - m + 1
    PROVE  /\ SubSeq(s, m, Len(s)) \in Seq(S) /\ Len(SubSeq(s, m, Len(s))) = n
           /\ \A i \in 1 .. n : SubSeq(s, m, Len(s))[i] = s[m + i - 1]
<1> DEFINE l == Len(s)
<1>1. \A i \in m .. l : s[i] \in S
  BY ElementOfSeq
<1>2. m \in Int /\ l \in Int /\ m <= l
  BY LenProperties
<1>3. n = l - m + 1
  OBVIOUS
<1> HIDE DEF l
<1>4. /\ SubSeq(s, m, l) \in Seq(S)
      /\ Len(SubSeq(s, m, l)) = IF m <= l THEN l - m + 1 ELSE 0
      /\ \A i \in 1 .. l - m + 1 : SubSeq(s, m, l)[i] = s[m + i - 1]
  BY <1>1, <1>2, SubSeqProperties
<1>5. Len(SubSeq(s, m, l)) = n /\ \A i \in 1 .. n : SubSeq(s, m, l)[i] = s[m + i - 1]
  BY <1>2, <1>3, <1>4
<1> QED BY <1>4, <1>5 DEF l

\* A sequence with one element more.
LEMMA OneMore ==
    ASSUME NEW S, NEW s \in Seq(S), NEW e \in S
    PROVE  /\ Append(s, e) \in Seq(S) /\ Len(Append(s, e)) = Len(s) + 1
           /\ \A i \in 1 .. Len(s) : Append(s, e)[i] = s[i]
           /\ Append(s, e)[Len(s) + 1] = e
           /\ Append(s, e) # <<>>
BY AppendProperties

LastIs(S, s, e, new) ==
    /\ new \in Seq(S) /\ Len(new) = Len(s)
    /\ \A i \in 1 .. Len(s) : new[i] = IF i = Len(s) THEN e ELSE s[i]

LEMMA AnotherLast ==
    ASSUME NEW S, NEW s \in Seq(S), NEW e \in S, s # <<>>
    PROVE  LastIs(S, s, e, E!SetLast(s, e))
<1> SUFFICES /\ E!SetLast(s, e) \in Seq(S) /\ Len(E!SetLast(s, e)) = Len(s)
             /\ \A i \in 1 .. Len(s) : E!SetLast(s, e)[i] = IF i = Len(s) THEN e ELSE s[i]
  BY DEF LastIs
<1>1. Len(s) \in Nat \ {0}
  BY EmptySeq, LenProperties
<1>2. CASE Len(s) = 1
  <2>1. E!SetLast(s, e) = Append(<<>>, e)
    <3>1. SubSeq(s, 1, Len(s) - 1) = <<>>
      BY <1>2, SubSeqEmpty
    <3> QED BY <3>1 DEF E!SetLast, E!Front
  <2>2. Append(<<>>, e) = <<e>>
    OBVIOUS
  <2> QED BY <1>2, <2>1, <2>2
<1>3. CASE Len(s) # 1
  <2> DEFINE d == Len(s) - 1
             t == SubSeq(s, 1, d)
  <2>1. d \in 1 .. Len(s) /\ d + 1 = Len(s)
    <3> DEFINE n == Len(s)
    <3>1. n \in Nat /\ n # 0 /\ n # 1
      BY <1>1, <1>3
    <3> HIDE DEF n
    <3>2. n - 1 \in 1 .. n /\ (n - 1) + 1 = n
      BY <3>1
    <3> QED BY <3>2 DEF n
  <2>2. E!SetLast(s, e) = Append(t, e)
    BY DEF E!SetLast, E!Front
  <2> HIDE DEF d
  <2>3. t \in Seq(S) /\ Len(t) = d /\ \A i \in 1 .. d : t[i] = s[i]
    BY <2>1, CutAt
  <2> HIDE DEF t
  <2>4. /\ Append(t, e) \in Seq(S) /\ Len(Append(t, e)) = d + 1
        /\ \A i \in 1 .. d : Append(t, e)[i] = s[i]
        /\ Append(t, e)[d + 1] = e
    BY <2>3, OneMore
  <2>5. \A i \in 1 .. Len(s) : i = Len(s) \/ i \in 1 .. d
    BY <1>1, <2>1
  <2> QED BY <2>1, <2>2, <2>4, <2>5
<1> QED BY <1>2, <1>3

\* The entity that a boundary belongs to, and what is left of a E!Entered when the
\* boundary and the last boundary are seen.
BelongsTo(s, b, d) ==
    /\ s[d].mime_type = "multipart" /\ s[d].boundary = b
    /\ \A i \in 1 .. Len(s) : s[i].boundary = b => i = d

FoundIn(s, b, d, final) ==
    LET more == E!GotBoundary(s, b)
        last == E!GotBoundary(s, final)
    IN /\ more \in Seq(E!Entities) /\ Len(more) = d + 1
       /\ \A i \in 1 .. d : more[i] = s[i]
       /\ more[d + 1] = E!Entity
       /\ last \in Seq(E!Entities) /\ Len(last) = d
       /\ \A i \in 1 .. d : last[i] = s[i]
       /\ E!Candidates(s, b) # {} /\ E!Candidates(s, final) # {}

\* A boundary is taken for its own entity, which is not ended by its last boundary.
LEMMA SeenOnce ==
    ASSUME E!BoundariesApart,
           NEW s \in Seq(E!Entities), NEW d \in 1 .. Len(s), NEW b \in Boundary,
           BelongsTo(s, b, d), NEW final, final = b \o <<"-", "-">>
    PROVE  FoundIn(s, b, d, final)
<1> DEFINE Char == STRING \cup {"-"}
           dashes == <<"-", "-">>
<1>1. b \in Seq(Char) /\ b # <<>> /\ b # None /\ None \notin Boundary
  <2>1. b \in Seq(STRING) /\ b # <<>> /\ b # None /\ None \notin Boundary
    BY InputAssumption DEF E!MimeAssumption
  <2>2. \A i \in 1 .. Len(b) : b[i] \in Char
    BY <2>1, ElementOfSeq
  <2> HIDE DEF Char
  <2>3. b \in Seq(Char)
    BY <2>1, <2>2, LenProperties, SeqDef
  <2> QED BY <2>1, <2>3
<1>2. /\ Len(b) \in Nat /\ Len(b) # 0 /\ dashes \in Seq(Char) /\ Len(dashes) = 2
      /\ dashes[1] = "-" /\ dashes[2] = "-"
  <2>1. Len(b) \in Nat /\ Len(b) # 0
    BY <1>1, EmptySeq, LenProperties
  <2>2. "-" \in Char
    OBVIOUS
  <2> HIDE DEF Char
  <2> QED BY <2>1, <2>2
<1> HIDE DEF dashes, Char
<1>a. final = b \o dashes
  BY DEF dashes
<1>3. /\ final \in Seq(Char) /\ Len(final) = Len(b) + 2
      /\ \A i \in 1 .. Len(b) + 2 : final[i] = IF i <= Len(b) THEN b[i] ELSE dashes[i - Len(b)]
  BY <1>1, <1>2, <1>a, ConcatProperties
<1>4. SubSeq(b, 1, Len(b)) = b /\ SubSeq(final, 1, Len(b)) = b
  <2>1. Len(b) \in 1 .. Len(b) /\ Len(b) \in 1 .. Len(final)
    BY <1>2, <1>3
  <2>2. /\ SubSeq(b, 1, Len(b)) \in Seq(Char) /\ Len(SubSeq(b, 1, Len(b))) = Len(b)
        /\ \A i \in 1 .. Len(b) : SubSeq(b, 1, Len(b))[i] = b[i]
    BY <1>1, <2>1, CutAt
  <2>3. /\ SubSeq(final, 1, Len(b)) \in Seq(Char) /\ Len(SubSeq(final, 1, Len(b))) = Len(b)
        /\ \A i \in 1 .. Len(b) : SubSeq(final, 1, Len(b))[i] = final[i]
    BY <1>3, <2>1, CutAt
  <2>4. \A i \in 1 .. Len(b) : final[i] = b[i]
    BY <1>2, <1>3
  <2> QED BY <1>1, <2>2, <2>3, <2>4, SeqEqual
<1>5. SubSeq(final, Len(b) + 1, Len(final)) = dashes
  <2> DEFINE m == Len(b) + 1
             tail == SubSeq(final, m, Len(final))
  <2>1. m \in 1 .. Len(final) /\ 2 = Len(final) - m + 1 /\ m + 1 - 1 = m /\ m + 2 - 1 = m + 1
    BY <1>2, <1>3
  <2>2. final[m] = "-" /\ final[m + 1] = "-"
    BY <1>2, <1>3
  <2> HIDE DEF m
  <2>3. tail \in Seq(Char) /\ Len(tail) = 2 /\ \A i \in 1 .. 2 : tail[i] = final[m + i - 1]
    BY <1>3, <2>1, EndFrom
  <2> HIDE DEF tail
  <2>4. tail[1] = "-" /\ tail[2] = "-"
    BY <2>1, <2>2, <2>3
  <2>5. tail = dashes
    <3>1. \A i \in 1 .. 2 : tail[i] = dashes[i]
      BY <1>2, <2>4
    <3> QED BY <1>2, <2>3, <3>1, SeqEqual
  <2> QED BY <2>5 DEF tail, m
<1>6. E!Matches(b, b) /\ E!Matches(b, final) /\ E!IsFinal(b, final) /\ ~E!IsFinal(b, b)
  <2>1. E!Matches(b, b) /\ E!Matches(b, final)
    BY <1>1, <1>2, <1>3, <1>4 DEF E!Matches
  <2>2. E!IsFinal(b, final)
    BY <1>2, <1>3, <1>5 DEF E!IsFinal, dashes
  <2>3. ~E!IsFinal(b, b)
    BY <1>2 DEF E!IsFinal
  <2> QED BY <2>1, <2>2, <2>3
<1>7. ASSUME NEW i \in 1 .. Len(s), i # d
      PROVE  ~E!Matches(s[i].boundary, b) /\ ~E!Matches(s[i].boundary, final)
  <2>1. s[i] \in E!Entities /\ s[i].boundary # b
    BY <1>7, ElementOfSeq DEF BelongsTo
  <2>2. CASE s[i].boundary = None
    BY <2>2 DEF E!Matches
  <2>3. CASE s[i].boundary \in Boundary
    BY <1>a, <2>1, <2>3 DEF E!BoundariesApart, dashes
  <2> QED BY <2>1, <2>2, <2>3 DEF E!Entities
<1>8. DOMAIN s = 1 .. Len(s)
  BY LenProperties
<1>9. E!Candidates(s, b) = {d} /\ E!Candidates(s, final) = {d}
  BY <1>6, <1>7, <1>8 DEF E!Candidates, E!IsContainer, BelongsTo
<1>10. E!Depth(s, b) = d /\ E!Depth(s, final) = d
  BY <1>9 DEF E!Depth
<1> DEFINE kept == SubSeq(s, 1, d)
<1>11. E!GotBoundary(s, b) = Append(kept, E!Entity) /\ E!GotBoundary(s, final) = kept
  BY <1>6, <1>9, <1>10 DEF E!GotBoundary, BelongsTo
<1>12. kept \in Seq(E!Entities) /\ Len(kept) = d /\ \A i \in 1 .. d : kept[i] = s[i]
  BY CutAt
<1>13. E!Entity \in E!Entities
  BY DEF E!Entity, E!Entities, E!MimeTypes, E!Encodings
<1> HIDE DEF kept
<1>14. /\ Append(kept, E!Entity) \in Seq(E!Entities) /\ Len(Append(kept, E!Entity)) = d + 1
       /\ \A i \in 1 .. d : Append(kept, E!Entity)[i] = s[i]
       /\ Append(kept, E!Entity)[d + 1] = E!Entity
  BY <1>12, <1>13, OneMore
<1> QED BY <1>9, <1>11, <1>12, <1>14 DEF FoundIn

\* It is looked at twice, and the second time changes nothing.
LEMMA SeenTwice ==
    ASSUME E!BoundariesApart, MimeInv, where # "header",
           NEW d \in E!OpenParts
    PROVE  LET b == part[d].boundary
               more == E!GotBoundary(E!GotBoundary(E!Entered, b), b)
               end == b \o <<"-", "-">>
               last == E!GotBoundary(E!GotBoundary(E!Entered, end), end)
           IN /\ d \in 1 .. Len(part) /\ E!Entered[d].boundary = b /\ b \in Boundary
              /\ more \in Seq(E!Entities) /\ Len(more) = d + 1
              /\ \A i \in 1 .. d : more[i] = E!Entered[i]
              /\ more[d + 1] = E!Entity
              /\ last \in Seq(E!Entities) /\ Len(last) = d
              /\ \A i \in 1 .. d : last[i] = E!Entered[i]
              /\ E!SeeBoundary(b) => stack' = more /\ mheader' = TRUE /\ ahead' = FALSE
              /\ E!SeeBoundary(end) => stack' = last /\ mheader' = TRUE /\ ahead' = FALSE
<1> USE DEF MimeInv
<1> DEFINE b == part[d].boundary
           end == b \o <<"-", "-">>
           more1 == E!GotBoundary(E!Entered, b)
           last1 == E!GotBoundary(E!Entered, end)
<1>1. E!Entered \in Seq(E!Entities) /\ part \in Seq(E!Entities) /\ Len(E!Entered) = Len(part)
  BY DEF E!TypeOK, EnteredType, SameEntities
<1>c. E!Entered = stack
  BY DEF ReadAhead, E!Entered, E!HeaderEnded
<1>2. d \in 1 .. Len(part) /\ part[d].mime_type = "multipart" /\ b # None
  BY <1>1, LenProperties DEF E!OpenParts
<1>3. E!Entered[d].boundary = b /\ E!Entered[d] \in E!Entities
  BY <1>1, <1>2, ElementOfSeq DEF SameEntities, WhereItIs
<1>4. b \in Boundary /\ E!Entered[d].mime_type = "multipart"
  BY <1>1, <1>2, <1>3 DEF E!Entities, BoundaryOfOne
<1>5. \A i \in 1 .. Len(E!Entered) : E!Entered[i].boundary = b => i = d
  BY <1>1, <1>2, <1>3 DEF BoundaryOfOne
<1>b. end = b \o <<"-", "-">>
  OBVIOUS
<1> HIDE DEF MimeInv, b, end
<1>6. /\ more1 \in Seq(E!Entities) /\ Len(more1) = d + 1
      /\ \A i \in 1 .. d : more1[i] = E!Entered[i]
      /\ more1[d + 1] = E!Entity
      /\ last1 \in Seq(E!Entities) /\ Len(last1) = d
      /\ \A i \in 1 .. d : last1[i] = E!Entered[i]
  <2>1. BelongsTo(E!Entered, b, d) /\ d \in 1 .. Len(E!Entered)
    BY <1>1, <1>2, <1>3, <1>4, <1>5 DEF BelongsTo
  <2>2. FoundIn(E!Entered, b, d, end)
    BY <1>1, <1>4, <1>b, <2>1, SeenOnce
  <2> QED BY <2>2 DEF FoundIn
<1> HIDE DEF more1, last1
<1>7. E!Entity.boundary # b
  BY <1>2 DEF E!Entity
<1>8. /\ d \in 1 .. Len(more1) /\ more1[d].mime_type = "multipart" /\ more1[d].boundary = b
      /\ \A i \in 1 .. Len(more1) : more1[i].boundary = b => i = d
  <2>1. \A i \in 1 .. d + 1 : i \in 1 .. d \/ i = d + 1
    BY <1>2
  <2>2. \A i \in 1 .. d : i \in 1 .. Len(E!Entered)
    BY <1>1, <1>2
  <2> QED BY <1>2, <1>3, <1>4, <1>5, <1>6, <1>7, <2>1, <2>2
<1>9. /\ d \in 1 .. Len(last1) /\ last1[d].mime_type = "multipart" /\ last1[d].boundary = b
      /\ \A i \in 1 .. Len(last1) : last1[i].boundary = b => i = d
  <2>1. \A i \in 1 .. d : i \in 1 .. Len(E!Entered)
    BY <1>1, <1>2
  <2> QED BY <1>2, <1>3, <1>4, <1>5, <1>6, <2>1
<1>10. /\ E!GotBoundary(more1, b) \in Seq(E!Entities) /\ Len(E!GotBoundary(more1, b)) = d + 1
       /\ \A i \in 1 .. d : E!GotBoundary(more1, b)[i] = more1[i]
       /\ E!GotBoundary(more1, b)[d + 1] = E!Entity
       /\ E!Candidates(more1, b) # {}
  <2>1. FoundIn(more1, b, d, end)
    BY <1>4, <1>6, <1>8, <1>b, SeenOnce DEF BelongsTo
  <2> QED BY <2>1 DEF FoundIn
<1>11. /\ E!GotBoundary(last1, end) \in Seq(E!Entities) /\ Len(E!GotBoundary(last1, end)) = d
       /\ \A i \in 1 .. d : E!GotBoundary(last1, end)[i] = last1[i]
       /\ E!Candidates(last1, end) # {}
  <2>1. FoundIn(last1, b, d, end)
    BY <1>4, <1>6, <1>9, <1>b, SeenOnce DEF BelongsTo
  <2> QED BY <2>1 DEF FoundIn
<1>12. E!HeaderEnded(more1) = more1 /\ E!HeaderEnded(last1) = last1
  <2>1. E!Last(more1) = E!Entity /\ E!Last(last1) = E!Entered[d]
    BY <1>2, <1>6 DEF E!Last
  <2>2. E!Entity.mime_type # "message"
    BY DEF E!Entity
  <2> QED BY <1>4, <2>1, <2>2 DEF E!HeaderEnded
<1>13. more1 = E!GotBoundary(stack, b) /\ last1 = E!GotBoundary(stack, end)
  BY <1>c DEF more1, last1
<1>14. E!SeeBoundary(b) => stack' = E!GotBoundary(more1, b) /\ mheader' = TRUE /\ ahead' = FALSE
  BY <1>10, <1>12, <1>13 DEF E!SeeBoundary
<1>15. E!SeeBoundary(end) => stack' = E!GotBoundary(last1, end) /\ mheader' = TRUE /\ ahead' = FALSE
  BY <1>11, <1>12, <1>13 DEF E!SeeBoundary
<1> QED BY <1>2, <1>3, <1>4, <1>6, <1>10, <1>11, <1>14, <1>15 DEF b, end, more1, last1

\* A mail begins in the header of its one entity.
LEMMA MimeStarts == E!Init => MimeInv
<1> SUFFICES ASSUME E!Init PROVE MimeInv
  OBVIOUS
<1>1. E!Entity \in E!Entities /\ E!Entity.boundary = None /\ ~E!Entity.dont_decode
  BY DEF E!Entity, E!Entities, E!MimeTypes, E!Encodings
<1>2. /\ E!Entered \in Seq(E!Entities) /\ E!Entered # <<>> /\ Len(E!Entered) = 1
      /\ E!Entered[1] = E!Entity /\ part = E!Entered /\ E!Entered = stack
      /\ E!InHeader = TRUE /\ mheader = TRUE /\ ahead = FALSE /\ where = "header"
  BY <1>1 DEF E!Init, E!Entered, E!InHeader
<1>3. 1 <= MaxDepth
  BY InputAssumption DEF E!MimeAssumption
<1>4. E!TypeOK
  BY <1>2, <1>3 DEF E!TypeOK
<1>5. \A i \in 1 .. 1 : i = 1
  OBVIOUS
<1>6. E!Entity.mime_type # "message"
  BY DEF E!Entity
<1>7. RoomForMessage
  BY <1>2, <1>6 DEF RoomForMessage
<1> QED BY <1>1, <1>2, <1>4, <1>5, <1>7
        DEF MimeInv, EnteredType, ReadAhead, SameEntities, WhereItIs, BoundaryOfOne,
            OnlyApplications

\* The last entity of the two is changed alike.
LEMMA LastChanged ==
    ASSUME MimeInv, where = "header",
           NEW e \in E!Entities, NEW f \in E!Entities,
           stack' = E!SetLast(E!Entered, e), part' = E!SetLast(part, f),
           mheader' = E!InHeader, ahead' = FALSE, where' = where,
           E!Declared(e) = E!Declared(f), e.boundary = f.boundary,
           f.dont_decode => f.mime_type = "application",
           f.mime_type = "message" => Len(part) < MaxDepth,
           e.boundary # None => /\ e.mime_type = "multipart"
                                /\ \A i \in 1 .. Len(part) :
                                      part[i].boundary = e.boundary => i = Len(part)
    PROVE  MimeInv'
<1> DEFINE n == Len(part)
<1>1. /\ E!Entered \in Seq(E!Entities) /\ part \in Seq(E!Entities) /\ Len(E!Entered) = n
      /\ E!Entered # <<>> /\ part # <<>> /\ n <= MaxDepth
  BY DEF MimeInv, E!TypeOK, EnteredType, SameEntities
<1>2. n \in Nat /\ n # 0
  BY <1>1, LenProperties, EmptySeq
<1>3. /\ stack' \in Seq(E!Entities) /\ Len(stack') = n
      /\ \A i \in 1 .. n : stack'[i] = IF i = n THEN e ELSE E!Entered[i]
  <2>1. LastIs(E!Entities, E!Entered, e, E!SetLast(E!Entered, e))
    <3> HIDE DEF n
    <3> QED BY <1>1, AnotherLast
  <2> QED BY <1>1, <2>1 DEF LastIs
<1>4. /\ part' \in Seq(E!Entities) /\ Len(part') = n
      /\ \A i \in 1 .. n : part'[i] = IF i = n THEN f ELSE part[i]
  <2>1. LastIs(E!Entities, part, f, E!SetLast(part, f))
    <3> HIDE DEF n
    <3> QED BY <1>1, AnotherLast
  <2> QED BY <1>1, <2>1 DEF LastIs
<1>a. \A i \in 1 .. n : /\ part[i].boundary = E!Entered[i].boundary
                        /\ E!Declared(E!Entered[i]) = E!Declared(part[i])
  BY DEF MimeInv, SameEntities
<1>b. /\ \A i \in 1 .. n : E!Entered[i].boundary # None =>
            /\ E!Entered[i].mime_type = "multipart"
            /\ \A j \in 1 .. n : E!Entered[j].boundary = E!Entered[i].boundary => j = i
      /\ \A i \in 1 .. n : part[i].dont_decode => part[i].mime_type = "application"
  BY <1>1 DEF MimeInv, BoundaryOfOne, OnlyApplications
<1>c. e.boundary # None => /\ e.mime_type = "multipart"
                           /\ \A i \in 1 .. n : part[i].boundary = e.boundary => i = n
  OBVIOUS
<1>d. mheader' = E!InHeader /\ where' = "header" /\ E!InHeader /\ mheader' \in BOOLEAN
      /\ (f.mime_type = "message" => n < MaxDepth)
  BY DEF MimeInv, WhereItIs, EnteredType
<1> HIDE DEF n
<1>5. stack' # <<>> /\ part' # <<>>
  BY <1>2, <1>3, <1>4, EmptySeq
<1>e. /\ E!Entered' = stack' /\ E!InHeader' = mheader' /\ EnteredType' /\ ReadAhead'
  BY <1>3, <1>5, <1>d, AtOnce DEF MatchedAtOnce
<1>6. E!TypeOK'
  BY <1>1, <1>3, <1>4, <1>5, <1>d DEF E!TypeOK
<1>7. SameEntities'
  <2>1. \A i \in 1 .. n : E!Declared(stack'[i]) = E!Declared(part'[i])
    BY <1>3, <1>4, <1>a
  <2>2. \A i \in 1 .. n : stack'[i].boundary = part'[i].boundary
    BY <1>3, <1>4, <1>a
  <2> QED BY <1>3, <1>4, <1>5, <1>e, <2>1, <2>2 DEF SameEntities
<1>8. WhereItIs'
  BY <1>d, <1>e DEF WhereItIs
<1>9. BoundaryOfOne'
  <2> SUFFICES ASSUME NEW i \in 1 .. n, stack'[i].boundary # None
               PROVE  /\ stack'[i].mime_type = "multipart"
                      /\ \A j \in 1 .. n : stack'[j].boundary = stack'[i].boundary => j = i
    BY <1>3, <1>e DEF BoundaryOfOne
  <2>2. CASE i = n
    <3>1. stack'[i] = e
      BY <1>3, <2>2
    <3> QED BY <1>3, <1>a, <1>c, <2>2, <3>1
  <2>3. CASE i # n
    <3>1. stack'[i] = E!Entered[i]
      BY <1>3, <2>3
    <3>2. ASSUME NEW j \in 1 .. n, stack'[j].boundary = stack'[i].boundary
          PROVE  j = i
      <4>1. CASE j = n
        <5>1. stack'[j] = e
          BY <1>3, <4>1
        <5> QED BY <1>a, <1>c, <2>3, <3>1, <3>2, <5>1
      <4>2. CASE j # n
        <5>1. stack'[j] = E!Entered[j]
          BY <1>3, <4>2
        <5> QED BY <1>b, <3>1, <3>2, <5>1
      <4> QED BY <4>1, <4>2
    <3> QED BY <1>b, <3>1, <3>2
  <2> QED BY <2>2, <2>3
<1>10. OnlyApplications'
  BY <1>4, <1>b DEF OnlyApplications
<1>11. RoomForMessage'
  BY <1>2, <1>4, <1>d DEF RoomForMessage
<1> QED BY <1>e, <1>6, <1>7, <1>8, <1>9, <1>10, <1>11 DEF MimeInv

\* The current entity of the program and of the writer.
LEMMA Currently ==
    ASSUME MimeInv
    PROVE  /\ Len(part) \in Nat /\ Len(part) # 0 /\ Len(E!Entered) = Len(part)
           /\ E!Current = E!Entered[Len(part)] /\ E!ThePart = part[Len(part)]
           /\ E!Current \in E!Entities /\ E!ThePart \in E!Entities
           /\ E!Declared(E!Current) = E!Declared(E!ThePart)
           /\ where # "epilogue" => E!Current = E!ThePart
           /\ E!Current.mime_type = E!ThePart.mime_type
<1> USE DEF MimeInv
<1>1. /\ E!Entered \in Seq(E!Entities) /\ part \in Seq(E!Entities)
      /\ Len(E!Entered) = Len(part) /\ part # <<>>
  BY DEF E!TypeOK, EnteredType, SameEntities
<1>2. Len(part) \in Nat /\ Len(part) # 0
  BY <1>1, EmptySeq, LenProperties
<1>3. E!Current = E!Entered[Len(part)] /\ E!ThePart = part[Len(part)]
  BY <1>1 DEF E!Current, E!ThePart, E!Last
<1>4. Len(part) \in 1 .. Len(part)
  BY <1>2
<1>5. E!Current \in E!Entities /\ E!ThePart \in E!Entities
  BY <1>1, <1>3, <1>4, ElementOfSeq
<1>6. E!Declared(E!Current) = E!Declared(E!ThePart)
  BY <1>3, <1>4 DEF SameEntities
<1>7. where # "epilogue" => E!Current.boundary = E!ThePart.boundary
  BY <1>3, <1>4 DEF SameEntities
<1>8. /\ E!Current.mime_type = E!Declared(E!Current).mime_type
      /\ E!ThePart.mime_type = E!Declared(E!ThePart).mime_type
      /\ E!Current.mime_encoding = E!Declared(E!Current).mime_encoding
      /\ E!ThePart.mime_encoding = E!Declared(E!ThePart).mime_encoding
      /\ E!Current.dont_decode = E!Declared(E!Current).dont_decode
      /\ E!ThePart.dont_decode = E!Declared(E!ThePart).dont_decode
  BY <1>5 DEF E!Declared, E!Entities
<1>9. where # "epilogue" => E!Current = E!ThePart
  BY <1>5, <1>6, <1>7, <1>8 DEF E!Entities
<1> QED BY <1>1, <1>2, <1>3, <1>5, <1>6, <1>8, <1>9

\* A header line is taken by the entity it belongs to.
LEMMA HeadersKeep ==
    ASSUME MimeInv,
           \/ \E t \in E!MimeTypes, b \in Boundary \cup {None} : E!ContentType(t, b)
           \/ \E e \in E!Encodings : E!TransferEncoding(e)
    PROVE  MimeInv'
<1>1. ASSUME NEW t \in E!MimeTypes, NEW b \in Boundary \cup {None}, E!ContentType(t, b)
      PROVE  MimeInv'
  <2> DEFINE f == [E!ThePart EXCEPT !.mime_type = t, !.boundary = b,
                                    !.dont_decode = t = "application"]
             e == E!Typed(E!Current, t, b)
  <2>1. /\ where = "header" /\ E!ThePart.mime_type = "text" /\ t # "text"
        /\ IF t = "multipart" THEN b \in Boundary /\ \A i \in DOMAIN part : part[i].boundary # b
           ELSE b = None
        /\ part' = E!SetLast(part, f)
        /\ stack' = E!SetLast(E!Entered, e)
        /\ mheader' = E!InHeader /\ ahead' = FALSE /\ where' = where
        /\ (t = "message" => Len(part) < MaxDepth)
    <3>1. stack' = IF E!InHeader THEN E!SetLast(E!Entered, e) ELSE E!Entered
      BY ONLY <1>1 DEF E!ContentType
    <3>2. /\ where = "header" /\ E!ThePart.mime_type = "text" /\ t # "text"
          /\ IF t = "multipart" THEN b \in Boundary /\ \A i \in DOMAIN part : part[i].boundary # b
             ELSE b = None
          /\ part' = E!SetLast(part, f)
          /\ mheader' = E!InHeader /\ ahead' = FALSE /\ where' = where
          /\ (t = "message" => Len(part) < MaxDepth)
      BY ONLY <1>1 DEF E!ContentType
    <3>3. E!InHeader
      BY <3>2 DEF MimeInv, WhereItIs
    <3> QED BY <3>1, <3>2, <3>3
  <2>2. E!Current = E!ThePart /\ E!ThePart \in E!Entities /\ ~E!ThePart.dont_decode
        /\ E!ThePart.boundary = None
    <3>1. Len(part) \in 1 .. Len(part)
      BY Currently
    <3>2. ~E!ThePart.dont_decode
      BY <2>1, <3>1, Currently DEF MimeInv, OnlyApplications
    <3>3. E!ThePart.boundary = None
      BY <2>1, <3>1, Currently DEF MimeInv, BoundaryOfOne
    <3> QED BY <2>1, <3>2, <3>3, Currently
  <2>3. b # None => t = "multipart" /\ \A i \in 1 .. Len(part) : part[i].boundary # b
    <3>1. DOMAIN part = 1 .. Len(part)
      BY LenProperties DEF MimeInv, E!TypeOK
    <3> QED BY <2>1, <3>1
  <2>4. /\ e \in E!Entities /\ f \in E!Entities /\ E!Declared(e) = E!Declared(f)
        /\ e.boundary = f.boundary /\ f.boundary = b /\ e.mime_type = t /\ f.mime_type = t
        /\ f.dont_decode = (t = "application")
    BY <2>2 DEF E!Typed, E!Entities, E!Declared
  <2> HIDE DEF e, f
  <2> QED BY <2>1, <2>3, <2>4, LastChanged
<1>2. ASSUME NEW c \in E!Encodings, E!TransferEncoding(c)
      PROVE  MimeInv'
  <2> DEFINE f == [E!ThePart EXCEPT !.mime_encoding = c]
             e == [E!Current EXCEPT !.mime_encoding = c]
  <2>1. /\ where = "header" /\ ~E!IsContainer(E!ThePart)
        /\ part' = E!SetLast(part, f) /\ stack' = E!SetLast(E!Entered, e)
        /\ mheader' = E!InHeader /\ ahead' = FALSE /\ where' = where
    BY <1>2 DEF E!TransferEncoding, MimeInv, WhereItIs
  <2>2. E!Current = E!ThePart /\ E!ThePart \in E!Entities
        /\ (E!ThePart.dont_decode => E!ThePart.mime_type = "application")
        /\ E!ThePart.boundary = None
    <3>1. Len(part) \in 1 .. Len(part)
      BY Currently
    <3>2. E!ThePart.dont_decode => E!ThePart.mime_type = "application"
      BY <2>1, <3>1, Currently DEF MimeInv, OnlyApplications
    <3>3. E!ThePart.boundary = None
      BY <2>1, <3>1, Currently DEF MimeInv, BoundaryOfOne, E!IsContainer
    <3> QED BY <2>1, <3>2, <3>3, Currently
  <2>3. /\ e \in E!Entities /\ f \in E!Entities /\ e = f
        /\ f.boundary = None /\ (f.dont_decode => f.mime_type = "application")
        /\ f.mime_type # "message"
    BY <2>1, <2>2 DEF E!Entities, E!IsContainer
  <2> HIDE DEF e, f
  <2> QED BY <2>1, <2>3, LastChanged
<1> QED BY <1>1, <1>2

\* Both get an entity at the end.
LEMMA EntityBegins ==
    ASSUME MimeInv, where # "epilogue", Len(part) < MaxDepth,
           E!Entered' = Append(E!Entered, E!Entity), part' = Append(part, E!Entity),
           E!InHeader' = TRUE, where' = "header",
           stack' \in Seq(E!Entities), stack' # <<>>, mheader' \in BOOLEAN, ahead' \in BOOLEAN
    PROVE  MimeInv'
<1> DEFINE n == Len(part)
<1>1. /\ E!Entered \in Seq(E!Entities) /\ part \in Seq(E!Entities) /\ Len(E!Entered) = n /\ n \in Nat
  BY LenProperties DEF MimeInv, E!TypeOK, EnteredType, SameEntities
<1>2. E!Entity \in E!Entities /\ E!Entity.boundary = None /\ ~E!Entity.dont_decode
  BY DEF E!Entity, E!Entities, E!MimeTypes, E!Encodings
<1>3. /\ E!Entered' \in Seq(E!Entities) /\ Len(E!Entered') = n + 1 /\ E!Entered' # <<>>
      /\ \A i \in 1 .. n : E!Entered'[i] = E!Entered[i]
      /\ E!Entered'[n + 1] = E!Entity
  BY <1>1, <1>2, OneMore
<1>4. /\ part' \in Seq(E!Entities) /\ Len(part') = n + 1 /\ part' # <<>>
      /\ \A i \in 1 .. n : part'[i] = part[i]
      /\ part'[n + 1] = E!Entity
  BY <1>1, <1>2, OneMore
<1>5. n + 1 <= MaxDepth
  BY <1>1, InputAssumption DEF E!MimeAssumption
<1>a. \A i \in 1 .. n + 1 : i = n + 1 \/ i \in 1 .. n
  BY <1>1
<1>b. \A i \in 1 .. n : /\ E!Entered[i].boundary = part[i].boundary
                        /\ E!Declared(E!Entered[i]) = E!Declared(part[i])
  BY DEF MimeInv, SameEntities
<1>c. \A i \in 1 .. n : E!Entered[i].boundary # None =>
          /\ E!Entered[i].mime_type = "multipart"
          /\ \A j \in 1 .. n : E!Entered[j].boundary = E!Entered[i].boundary => j = i
  BY <1>1 DEF MimeInv, BoundaryOfOne
<1>d. \A i \in 1 .. n : part[i].dont_decode => part[i].mime_type = "application"
  BY DEF MimeInv, OnlyApplications
<1> HIDE DEF n
<1>6. E!TypeOK' /\ EnteredType' /\ ReadAhead'
  BY <1>3, <1>4, <1>5 DEF E!TypeOK, EnteredType, ReadAhead
<1>7. SameEntities'
  BY <1>3, <1>4, <1>a, <1>b DEF SameEntities
<1>8. BoundaryOfOne'
  <2> SUFFICES ASSUME NEW i \in 1 .. n + 1, E!Entered'[i].boundary # None
               PROVE  /\ E!Entered'[i].mime_type = "multipart"
                      /\ \A j \in 1 .. n + 1 : E!Entered'[j].boundary = E!Entered'[i].boundary => j = i
    BY <1>3 DEF BoundaryOfOne
  <2>1. i \in 1 .. n /\ E!Entered'[i] = E!Entered[i]
    BY <1>2, <1>3, <1>a
  <2>2. ASSUME NEW j \in 1 .. n + 1, E!Entered'[j].boundary = E!Entered'[i].boundary
        PROVE  j = i
    <3>1. j \in 1 .. n /\ E!Entered'[j] = E!Entered[j]
      BY <1>2, <1>3, <1>a, <2>2
    <3> QED BY <1>c, <2>1, <2>2, <3>1
  <2> QED BY <1>c, <2>1, <2>2
<1>9. OnlyApplications'
  <2>1. \A i \in 1 .. n + 1 : part'[i].dont_decode => part'[i].mime_type = "application"
    BY <1>2, <1>4, <1>a, <1>d
  <2> QED BY <1>4, <2>1 DEF OnlyApplications
<1>10. WhereItIs' /\ RoomForMessage'
  <2>1. part'[n + 1].mime_type # "message"
    BY <1>4 DEF E!Entity
  <2> QED BY <1>4, <2>1 DEF WhereItIs, RoomForMessage
<1> QED BY <1>6, <1>7, <1>8, <1>9, <1>10 DEF MimeInv

\* An empty line ends the header, or begins that of an attached message, at once or
\* when the line behind it has been read.
LEMMA HeaderEnds ==
    ASSUME MimeInv, NEW word \in BOOLEAN, E!EmptyLine(word)
    PROVE  /\ where = "header" /\ ahead' \in BOOLEAN /\ mheader' \in BOOLEAN
           /\ E!Entered = stack /\ E!Entered' = E!HeaderEnded(E!Entered)
           /\ E!InHeader' = (E!Current.mime_type = "message")
           /\ stack' \in {stack, E!HeaderEnded(stack)} /\ (ahead' => stack' = stack)
<1>1. where = "header" /\ ahead = FALSE /\ ahead' \in BOOLEAN /\ mheader \in BOOLEAN
  BY DEF E!EmptyLine, MimeInv, E!TypeOK
<1>2. E!Entered = stack /\ E!InHeader = mheader /\ E!Current = E!Last(stack)
  BY <1>1 DEF E!Entered, E!InHeader, E!Current
<1>3. mheader
  BY <1>1, <1>2 DEF MimeInv, WhereItIs
<1>4. CASE ahead'
  <2>1. stack' = stack /\ mheader' = mheader
    BY <1>4 DEF E!EmptyLine
  <2>2. E!Entered' = E!HeaderEnded(stack)
    BY <1>4, <2>1 DEF E!Entered
  <2>3. E!InHeader' = (E!Current.mime_type = "message")
    BY <1>2, <1>4, <2>1 DEF E!InHeader, E!msg_state
  <2> QED BY <1>1, <1>2, <1>3, <1>4, <2>1, <2>2, <2>3
<1>5. CASE ~ahead'
  <2>1. stack' = E!HeaderEnded(stack) /\ mheader' = (E!Last(stack).mime_type = "message")
    BY <1>3, <1>5 DEF E!EmptyLine, E!EndOfHeader, E!msg_state
  <2>2. E!Entered' = stack' /\ E!InHeader' = mheader'
    BY <1>5 DEF E!Entered, E!InHeader
  <2>3. mheader' \in BOOLEAN
    BY <2>1
  <2> QED BY <1>1, <1>2, <1>5, <2>1, <2>2, <2>3
<1> QED BY <1>4, <1>5

LEMMA EmptyLinesKeep ==
    ASSUME MimeInv, NEW word \in BOOLEAN, E!EmptyLine(word)
    PROVE  MimeInv'
<1>1. stack \in Seq(E!Entities) /\ stack # <<>> /\ E!Entity \in E!Entities
  BY DEF MimeInv, E!TypeOK, E!Entity, E!Entities, E!MimeTypes, E!Encodings
<1>2. E!HeaderEnded(stack) \in Seq(E!Entities) /\ E!HeaderEnded(stack) # <<>>
  BY <1>1, OneMore DEF E!HeaderEnded
<1>3. stack' \in Seq(E!Entities) /\ stack' # <<>>
  BY <1>1, <1>2, HeaderEnds
<1>4. CASE E!ThePart.mime_type = "message"
  <2>1. E!Current.mime_type = "message"
    BY <1>4, Currently
  <2>2. E!Entered' = Append(E!Entered, E!Entity) /\ E!InHeader' = TRUE
    BY <2>1, HeaderEnds DEF E!HeaderEnded, E!Current
  <2>3. part' = Append(part, E!Entity) /\ where' = "header"
    BY <1>4 DEF E!EmptyLine
  <2>4. Len(part) < MaxDepth /\ where # "epilogue"
    BY <1>4, Currently, HeaderEnds DEF MimeInv, RoomForMessage
  <2> QED BY <1>3, <2>2, <2>3, <2>4, HeaderEnds, EntityBegins
<1>5. CASE E!ThePart.mime_type # "message"
  <2>1. E!Current.mime_type # "message"
    BY <1>5, Currently
  <2>2. E!Entered' = E!Entered /\ E!InHeader' = FALSE
    BY <2>1, HeaderEnds DEF E!HeaderEnded, E!Current
  <2>3. part' = part /\ where' \in {"preamble", "body"}
    BY <1>5 DEF E!EmptyLine
  <2>4. E!TypeOK'
    BY <1>3, <2>3, HeaderEnds DEF MimeInv, E!TypeOK
  <2>5. EnteredType' /\ ReadAhead'
    <3>1. ahead' => E!Last(stack').mime_type # "message"
      BY <2>1, HeaderEnds DEF E!Current
    <3> QED BY <2>2, <3>1 DEF MimeInv, EnteredType, ReadAhead
  <2>6. WhereItIs' /\ RoomForMessage'
    BY <2>2, <2>3 DEF WhereItIs, RoomForMessage
  <2>7. SameEntities' /\ BoundaryOfOne' /\ OnlyApplications'
    BY <2>2, <2>3, HeaderEnds DEF MimeInv, SameEntities, BoundaryOfOne, OnlyApplications
  <2> QED BY <2>4, <2>5, <2>6, <2>7 DEF MimeInv
<1> QED BY <1>4, <1>5

\* A line of a body changes nothing but in an epilogue, and ends the reading ahead.
LEMMA BodyLinesKeep ==
    ASSUME MimeInv, E!EmptyBodyLine \/ E!TextLine
    PROVE  MimeInv'
<1>1. where # "header" /\ UNCHANGED <<part, where>>
  BY DEF E!EmptyBodyLine, E!TextLine
<1>2. /\ stack \in Seq(E!Entities) /\ stack # <<>> /\ mheader \in BOOLEAN
      /\ ahead \in BOOLEAN /\ E!InHeader \in BOOLEAN
  BY DEF MimeInv, E!TypeOK, EnteredType
<1>3. ahead => E!HeaderEnded(stack) = stack
  BY <1>1 DEF MimeInv, ReadAhead, E!HeaderEnded
<1>4. E!Entered = stack /\ E!Current = E!Last(stack)
  BY <1>3 DEF E!Entered, E!Current
<1>5. /\ stack' = stack /\ ahead' \in BOOLEAN /\ mheader' \in BOOLEAN
      /\ E!Entered' = E!Entered /\ E!InHeader' \in BOOLEAN
      /\ (where # "epilogue" => ~E!InHeader') /\ ReadAhead'
  <2>1. CASE E!TextLine
    <3>1. stack' = stack /\ mheader' = E!InHeader /\ ahead' = FALSE
      BY <1>4, <2>1 DEF E!TextLine
    <3>2. MatchedAtOnce
      BY <1>2, <3>1 DEF MatchedAtOnce
    <3>3. where # "epilogue" => ~E!InHeader
      BY <1>1 DEF MimeInv, WhereItIs
    <3>4. E!Entered' = E!Entered /\ E!InHeader' = E!InHeader /\ ReadAhead'
      BY <1>4, <3>1, <3>2, AtOnce
    <3> QED BY <1>2, <3>1, <3>3, <3>4
  <2>2. CASE E!EmptyBodyLine /\ ahead
    <3>1. stack' = stack /\ mheader' = mheader /\ ahead' = ahead /\ where' = where
      BY <2>2 DEF E!EmptyBodyLine
    <3>2. E!Entered' = E!Entered /\ E!InHeader' = E!InHeader
      BY <3>1 DEF E!Entered, E!InHeader, E!msg_state
    <3>3. ReadAhead'
      BY <3>1 DEF MimeInv, ReadAhead
    <3>4. where # "epilogue" => ~E!InHeader
      BY <1>1 DEF MimeInv, WhereItIs
    <3> QED BY <1>2, <3>1, <3>2, <3>3, <3>4
  <2>3. CASE E!EmptyBodyLine /\ ~ahead
    <3>1. E!InHeader = mheader /\ ahead' = FALSE
      BY <1>2, <2>3 DEF E!InHeader, E!EmptyBodyLine
    <3>2. where # "epilogue" => ~mheader
      BY <1>1, <3>1 DEF MimeInv, WhereItIs
    <3>3. stack' = stack /\ mheader' = FALSE
      <4>1. CASE mheader = FALSE
        BY <1>2, <2>3, <4>1 DEF E!EmptyBodyLine, E!EndOfHeader
      <4>2. CASE mheader = TRUE
        <5>1. where = "epilogue"
          BY <3>2, <4>2
        <5>2. E!Last(stack).mime_type = "multipart"
          BY <1>4, <5>1, Currently DEF MimeInv, WhereItIs
        <5> QED BY <2>3, <4>2, <5>2 DEF E!EmptyBodyLine, E!EndOfHeader, E!HeaderEnded, E!msg_state
      <4> QED BY <1>2, <4>1, <4>2
    <3>4. MatchedAtOnce
      BY <1>2, <3>1, <3>3 DEF MatchedAtOnce
    <3> QED BY <1>4, <3>1, <3>3, <3>4, AtOnce
  <2> QED BY <2>1, <2>2, <2>3
<1>6. E!TypeOK' /\ EnteredType'
  BY <1>1, <1>2, <1>5 DEF MimeInv, E!TypeOK, EnteredType
<1>7. WhereItIs' /\ RoomForMessage'
  BY <1>1, <1>5 DEF MimeInv, WhereItIs, RoomForMessage
<1>8. SameEntities' /\ BoundaryOfOne' /\ OnlyApplications'
  BY <1>1, <1>5 DEF MimeInv, SameEntities, BoundaryOfOne, OnlyApplications
<1> QED BY <1>5, <1>6, <1>7, <1>8 DEF MimeInv

\* A part begins and its container stays; or the container is closed.
LEMMA BoundariesKeep ==
    ASSUME E!BoundariesApart, MimeInv, NEW d \in 1 .. MaxDepth, E!NextPart(d) \/ E!LastPart(d)
    PROVE  MimeInv'
<1> DEFINE b == part[d].boundary
           end == b \o <<"-", "-">>
           more == E!GotBoundary(E!GotBoundary(E!Entered, b), b)
           last == E!GotBoundary(E!GotBoundary(E!Entered, end), end)
           kept == SubSeq(part, 1, d)
<1>1. d \in E!OpenParts /\ where # "header"
  BY DEF E!NextPart, E!LastPart
<1>2. /\ d \in 1 .. Len(part) /\ E!Entered[d].boundary = b /\ b \in Boundary
      /\ more \in Seq(E!Entities) /\ Len(more) = d + 1
      /\ \A i \in 1 .. d : more[i] = E!Entered[i]
      /\ more[d + 1] = E!Entity
      /\ last \in Seq(E!Entities) /\ Len(last) = d
      /\ \A i \in 1 .. d : last[i] = E!Entered[i]
      /\ E!SeeBoundary(b) => stack' = more /\ mheader' = TRUE /\ ahead' = FALSE
      /\ E!SeeBoundary(end) => stack' = last /\ mheader' = TRUE /\ ahead' = FALSE
  BY <1>1, SeenTwice
<1>3. part \in Seq(E!Entities) /\ Len(E!Entered) = Len(part) /\ part[d] \in E!Entities
  BY <1>2, ElementOfSeq DEF MimeInv, E!TypeOK, EnteredType, SameEntities
<1>4. kept \in Seq(E!Entities) /\ Len(kept) = d /\ \A i \in 1 .. d : kept[i] = part[i]
  BY <1>2, <1>3, CutAt
<1>5. \A i \in 1 .. d : /\ E!Entered[i].boundary = part[i].boundary
                        /\ E!Declared(E!Entered[i]) = E!Declared(part[i])
  BY <1>1, <1>2, LenProperties DEF MimeInv, SameEntities, WhereItIs, E!OpenParts
<1>6. E!Entity \in E!Entities /\ E!Entity.boundary = None /\ ~E!Entity.dont_decode
  BY DEF E!Entity, E!Entities, E!MimeTypes, E!Encodings
<1>7. /\ \A i \in 1 .. d : E!Entered[i].boundary # None =>
            /\ E!Entered[i].mime_type = "multipart"
            /\ \A j \in 1 .. d : E!Entered[j].boundary = E!Entered[i].boundary => j = i
      /\ \A i \in 1 .. d : part[i].dont_decode => part[i].mime_type = "application"
  <2>1. \A i \in 1 .. d : i \in 1 .. Len(part) /\ i \in 1 .. Len(E!Entered)
    BY <1>2, <1>3, LenProperties
  <2>2. \A i \in 1 .. Len(E!Entered) : E!Entered[i].boundary # None =>
            /\ E!Entered[i].mime_type = "multipart"
            /\ \A j \in 1 .. Len(E!Entered) : E!Entered[j].boundary = E!Entered[i].boundary => j = i
    BY DEF MimeInv, BoundaryOfOne
  <2>3. \A i \in 1 .. Len(part) : part[i].dont_decode => part[i].mime_type = "application"
    BY DEF MimeInv, OnlyApplications
  <2> QED BY <2>1, <2>2, <2>3
<1>e. DOMAIN part = 1 .. Len(part)
  BY LenProperties DEF MimeInv, E!TypeOK
<1>8. part[d].mime_type = "multipart" /\ None \notin Boundary
  BY <1>1, InputAssumption DEF E!OpenParts, E!MimeAssumption
<1>9. \A i \in 1 .. d + 1 : i = d + 1 \/ i \in 1 .. d
  OBVIOUS
<1>10. CASE E!NextPart(d)
  <2>1. /\ d < MaxDepth /\ stack' = more /\ mheader' = TRUE /\ ahead' = FALSE
        /\ where' = "header" /\ part' = Append(kept, E!Entity)
    BY <1>2, <1>10 DEF E!NextPart
  <2> HIDE DEF more, last, kept, end, b
  <2>2. /\ part' \in Seq(E!Entities) /\ Len(part') = d + 1 /\ part' # <<>>
        /\ \A i \in 1 .. d : part'[i] = part[i]
        /\ part'[d + 1] = E!Entity
    BY <1>4, <1>6, <2>1, OneMore
  <2>3. stack' # <<>> /\ d + 1 <= MaxDepth
    <3>1. Len(more) # 0 /\ MaxDepth \in Nat
      BY <1>2, InputAssumption DEF E!MimeAssumption
    <3> QED BY <1>2, <2>1, <3>1, EmptySeq
  <2>e. E!Entered' = stack' /\ E!InHeader' = TRUE /\ EnteredType' /\ ReadAhead'
    BY <1>2, <2>1, <2>3, AtOnce DEF MatchedAtOnce
  <2>4. E!TypeOK'
    BY <1>2, <2>1, <2>2, <2>3 DEF E!TypeOK
  <2>a. /\ Len(E!Entered') = d + 1 /\ E!Entered'[d + 1] = E!Entity
        /\ \A i \in 1 .. d : E!Entered'[i] = E!Entered[i]
    BY <1>2, <2>1, <2>e
  <2>5. SameEntities'
    <3>1. \A i \in 1 .. d + 1 : /\ E!Declared(E!Entered'[i]) = E!Declared(part'[i])
                                 /\ E!Entered'[i].boundary = part'[i].boundary
      BY <1>5, <1>9, <2>2, <2>a
    <3> QED BY <2>2, <2>a, <3>1 DEF SameEntities
  <2>6. BoundaryOfOne'
    <3> SUFFICES ASSUME NEW i \in 1 .. d + 1, E!Entered'[i].boundary # None
                 PROVE  /\ E!Entered'[i].mime_type = "multipart"
                        /\ \A j \in 1 .. d + 1 : E!Entered'[j].boundary = E!Entered'[i].boundary => j = i
      BY <2>a DEF BoundaryOfOne
    <3>1. i \in 1 .. d /\ E!Entered'[i] = E!Entered[i]
      BY <1>6, <1>9, <2>a
    <3>2. ASSUME NEW j \in 1 .. d + 1, E!Entered'[j].boundary = E!Entered'[i].boundary
          PROVE  j = i
      <4>1. j \in 1 .. d /\ E!Entered'[j] = E!Entered[j]
        BY <1>6, <1>9, <2>a, <3>2
      <4> QED BY <1>7, <3>1, <3>2, <4>1
    <3> QED BY <1>7, <3>1, <3>2
  <2>b. OnlyApplications'
    <3>1. \A i \in 1 .. d + 1 : part'[i].dont_decode => part'[i].mime_type = "application"
      BY <1>6, <1>7, <1>9, <2>2
    <3> QED BY <2>2, <3>1 DEF OnlyApplications
  <2>7. WhereItIs' /\ RoomForMessage'
    <3>1. part'[d + 1].mime_type # "message"
      BY <2>2 DEF E!Entity
    <3> QED BY <2>1, <2>2, <2>e, <3>1 DEF WhereItIs, RoomForMessage
  <2> QED BY <2>e, <2>4, <2>5, <2>6, <2>7, <2>b DEF MimeInv
<1>11. CASE E!LastPart(d)
  <2> DEFINE e == [part[d] EXCEPT !.boundary = None]
  <2>1. /\ stack' = last /\ mheader' = TRUE /\ ahead' = FALSE /\ where' = "epilogue"
        /\ part' = E!SetLast(kept, e)
    BY <1>2, <1>11 DEF E!LastPart
  <2>2. /\ e \in E!Entities /\ e.boundary = None /\ e.mime_type = "multipart"
        /\ E!Declared(e) = E!Declared(part[d]) /\ e.dont_decode = part[d].dont_decode
    BY <1>3, <1>8 DEF E!Entities, E!Declared
  <2> HIDE DEF more, last, kept, end, b, e
  <2>3. kept # <<>> /\ stack' # <<>> /\ d <= MaxDepth
    <3>1. Len(last) # 0 /\ Len(kept) # 0
      BY <1>2, <1>4
    <3> QED BY <2>1, <3>1, EmptySeq
  <2>f. E!Entered' = stack' /\ E!InHeader' = TRUE /\ EnteredType' /\ ReadAhead'
    BY <1>2, <2>1, <2>3, AtOnce DEF MatchedAtOnce
  <2>4. /\ part' \in Seq(E!Entities) /\ Len(part') = d
        /\ \A i \in 1 .. d : part'[i] = IF i = d THEN e ELSE part[i]
    <3>1. LastIs(E!Entities, kept, e, E!SetLast(kept, e))
      BY <1>4, <2>2, <2>3, AnotherLast
    <3> QED BY <1>4, <2>1, <3>1 DEF LastIs
  <2>5. part' # <<>>
    <3>1. Len(part') # 0
      BY <2>4
    <3> QED BY <3>1, EmptySeq
  <2>6. E!TypeOK'
    BY <1>2, <2>1, <2>3, <2>4, <2>5 DEF E!TypeOK
  <2>a. Len(E!Entered') = d /\ \A i \in 1 .. d : E!Entered'[i] = E!Entered[i]
    BY <1>2, <2>1, <2>f
  <2>7. SameEntities'
    <3>1. \A i \in 1 .. d : E!Declared(E!Entered'[i]) = E!Declared(part'[i])
      BY <1>5, <2>2, <2>4, <2>a
    <3>2. \A i \in 1 .. d : i = d \/ E!Entered'[i].boundary = part'[i].boundary
      BY <1>5, <2>4, <2>a
    <3> QED BY <2>1, <2>4, <2>5, <2>a, <3>1, <3>2 DEF SameEntities
  <2>8. BoundaryOfOne'
    <3>1. \A i \in 1 .. d : E!Entered'[i].boundary # None =>
              /\ E!Entered'[i].mime_type = "multipart"
              /\ \A j \in 1 .. d : E!Entered'[j].boundary = E!Entered'[i].boundary => j = i
      BY <1>7, <2>a
    <3> QED BY <2>a, <3>1 DEF BoundaryOfOne
  <2>b. OnlyApplications'
    <3>1. ASSUME NEW i \in 1 .. d, part'[i].dont_decode PROVE part'[i].mime_type = "application"
      <4>1. CASE i = d
        BY <1>2, <1>7, <1>8, <2>2, <2>4, <3>1, <4>1
      <4>2. CASE i # d
        BY <1>7, <2>4, <3>1, <4>2
      <4> QED BY <4>1, <4>2
    <3> QED BY <2>4, <3>1 DEF OnlyApplications
  <2>c. d \in 1 .. d
    BY <1>2
  <2>d. part'[d] = e
    BY <2>4, <2>c
  <2>9. WhereItIs' /\ RoomForMessage'
    BY <2>1, <2>2, <2>4, <2>d DEF WhereItIs, RoomForMessage
  <2> QED BY <2>f, <2>6, <2>7, <2>8, <2>9, <2>b DEF MimeInv
<1> QED BY <1>10, <1>11

\* Every line but the first behind a header that ends in an encoded word is decoded as
\* its own part declares, in any mail that keeps to RFC 2046 and whose boundaries cannot
\* be taken for each other (got_mime_boundary, mime.c, mime_add_child, token.c).
THEOREM PartsAreDecodedAsDeclared ==
    ASSUME E!BoundariesApart PROVE InputSpec => []DecodedAsDeclared
<1>1. InputInit => MimeInv
  BY MimeStarts DEF InputInit
<1>2. MimeInv /\ [InputNext]_allVars => MimeInv'
  <2> SUFFICES ASSUME MimeInv, [InputNext]_allVars PROVE MimeInv'
    OBVIOUS
  <2>1. CASE E!Next
    <3>1. CASE E!NextMail
      <4>1. E!Init'
        BY <3>1 DEF E!NextMail, E!Init
      <4> QED BY <4>1, MimeStarts, PTL
    <3> QED BY <2>1, <3>1, HeadersKeep, EmptyLinesKeep, BodyLinesKeep, BoundariesKeep DEF E!Next
  <2>2. CASE UNCHANGED mimeVars
    <3>a. E!Entered' = E!Entered /\ E!InHeader' = E!InHeader /\ UNCHANGED <<part, where>>
      BY <2>2 DEF mimeVars, E!Entered, E!InHeader, E!msg_state
    <3>b. E!TypeOK' /\ ReadAhead'
      BY <2>2 DEF mimeVars, MimeInv, E!TypeOK, ReadAhead
    <3>1. EnteredType' /\ WhereItIs' /\ RoomForMessage'
      BY <3>a DEF MimeInv, EnteredType, WhereItIs, RoomForMessage
    <3>2. SameEntities' /\ BoundaryOfOne' /\ OnlyApplications'
      BY <3>a DEF MimeInv, SameEntities, BoundaryOfOne, OnlyApplications
    <3> QED BY <3>b, <3>1, <3>2 DEF MimeInv
  <2> QED BY <2>1, <2>2 DEF InputNext, Text, Dir, Parts, Tokens, Decode, Scan, allVars
<1>3. MimeInv => DecodedAsDeclared
  <2> SUFFICES ASSUME MimeInv, ~ahead PROVE E!ReadAsDeclared
    BY DEF DecodedAsDeclared, E!DecodedAsDeclared
  <2>1. E!Entered = stack /\ E!InHeader = mheader /\ E!Current = E!msg_state
    BY DEF E!Entered, E!InHeader, E!Current, E!msg_state
  <2> QED BY <2>1, Currently DEF E!ReadAsDeclared, MimeInv, WhereItIs
<1> QED BY <1>1, <1>2, <1>3, PTL DEF InputSpec

-----------------------------------------------------------------------------
(* TokenStream *)

Places == [msg : Nat, run : Nat, tok : Nat]

\* The token that is j tokens older than the newest of n tokens in a ring of m.
Older(rg, n, m, j) == rg[(n - 1 - j) % m]

\* The tokens of the message of p that are in the ring are the newest, of the run of
\* p, and followed each other up to p.
Follows(rg, n, m, p, j) ==
    LET t == Older(rg, n, m, j)
    IN /\ t.run = p.run /\ t.tok <= p.tok /\ p.tok - t.tok <= j
       /\ j = 0 => t = p
       /\ \A i \in 0 .. j : LET u == Older(rg, n, m, i)
                            IN u.msg = p.msg /\ t.tok <= u.tok /\ u.tok - t.tok <= j - i

Trail(rg, n, m, p) ==
    \A j \in 0 .. m - 1 :
        j < n /\ Older(rg, n, m, j).msg = p.msg => Follows(rg, n, m, p, j)

TokenTypes ==
    /\ tpc \in {"lexer_init", "call", "parse", "counts", "end"}
    /\ topt.multi_token_count \in Nat \ {0} /\ topt.markup \in BOOLEAN
    /\ theader \in BOOLEAN /\ parent \in {"none", "multipart", "message"}
    /\ tok_count \in Nat /\ init_token \in Nat \ {0}
    /\ place \in Places /\ place.msg # 0
    /\ saved \in [SavedKinds -> Nat]

RingHolds ==
    topt.multi_token_count > 1 =>
        /\ ring \in [0 .. topt.multi_token_count - 1 -> Places]
        /\ init_token <= topt.multi_token_count
        /\ tpc # "end" => \A i \in 0 .. topt.multi_token_count - 1 : ring[i].msg <= place.msg
        /\ tpc \in {"lexer_init", "call", "parse"} =>
              Trail(ring, tok_count, topt.multi_token_count, place)

\* In a header there is a tag, but for that of an attached message.
HeaderTagged ==
    tpc \in {"call", "parse"} /\ theader /\ topt.markup /\ parent # "message" => token_prefix # None

StreamInv == TokenTypes /\ RingHolds /\ HeaderTagged /\ T!SavedIsOwn

\* The place of a token in the ring is not that of another of the last m.
LEMMA OtherPlace ==
    ASSUME NEW m \in Nat \ {0}, NEW n \in Nat, NEW k \in 1 .. m - 1, k <= n
    PROVE  (n - k) % m # n % m
<1> SUFFICES ASSUME (n - k) % m = n % m PROVE FALSE
  OBVIOUS
<1> DEFINE q == n \div m
           r == (n - k) \div m
<1>1. n = (m * q) + (n % m) /\ q \in Int
  OBVIOUS
<1>2. n - k = (m * r) + ((n - k) % m) /\ r \in Int
  OBVIOUS
<1>3. n % m \in Int
  OBVIOUS
<1> HIDE DEF q, r
<1>4. k = m * (q - r)
  BY <1>1, <1>2, <1>3
<1> DEFINE e == q - r
<1>5. e \in Int /\ k = m * e
  BY <1>1, <1>2, <1>4
<1> HIDE DEF e
<1>6. CASE e <= 0
  BY <1>5, <1>6
<1>7. CASE e >= 1
  BY <1>5, <1>7
<1> QED BY <1>5, <1>6, <1>7

\* The ring has a place for every count.
LEMMA PlaceInRing ==
    ASSUME NEW m \in Nat \ {0}, NEW n \in Nat
    PROVE  n % m \in 0 .. m - 1
OBVIOUS

\* A token put into the ring is the newest, and the others are one older.
Moved(S, rg, n, m, t, new) ==
    /\ new \in [0 .. m - 1 -> S]
    /\ \A i \in 0 .. m - 1 : new[i] \in {rg[i], t}
    /\ Older(new, n + 1, m, 0) = t
    /\ \A j \in 1 .. m - 1 : j < n + 1 => Older(new, n + 1, m, j) = Older(rg, n, m, j - 1)

LEMMA RingMoves ==
    ASSUME NEW m \in Nat \ {0}, NEW n \in Nat, NEW S, NEW rg \in [0 .. m - 1 -> S], NEW t \in S
    PROVE  Moved(S, rg, n, m, t, [rg EXCEPT ![n % m] = t])
<1> DEFINE at == n % m
           new == [rg EXCEPT ![at] = t]
<1>1. at \in 0 .. m - 1
  BY PlaceInRing
<1>2. ASSUME NEW j \in 1 .. m - 1, j < n + 1
      PROVE  (n - j) % m \in 0 .. m - 1 /\ (n - j) % m # at
  <2>1. n - j \in Nat /\ j <= n
    BY <1>2
  <2>2. (n - j) % m \in 0 .. m - 1
    BY <2>1, PlaceInRing
  <2> QED BY <2>1, <2>2, OtherPlace
<1>3. n + 1 - 1 - 0 = n /\ \A j \in 1 .. m - 1 : n + 1 - 1 - j = n - j /\ n - 1 - (j - 1) = n - j
  OBVIOUS
<1> HIDE DEF at
<1>4. new \in [0 .. m - 1 -> S] /\ new[at] = t /\ \A i \in 0 .. m - 1 : i # at => new[i] = rg[i]
  BY <1>1
<1> HIDE DEF new
<1>5. Older(new, n + 1, m, 0) = t
  BY <1>3, <1>4 DEF Older, at
<1>6. ASSUME NEW j \in 1 .. m - 1, j < n + 1
      PROVE  Older(new, n + 1, m, j) = Older(rg, n, m, j - 1)
  <2>1. Older(new, n + 1, m, j) = new[(n - j) % m] /\ Older(rg, n, m, j - 1) = rg[(n - j) % m]
    BY <1>3 DEF Older
  <2>2. new[(n - j) % m] = rg[(n - j) % m]
    BY <1>2, <1>4, <1>6
  <2> QED BY <2>1, <2>2
<1>7. \A i \in 0 .. m - 1 : new[i] \in {rg[i], t}
  BY <1>4
<1>8. Moved(S, rg, n, m, t, new)
  BY <1>4, <1>5, <1>6, <1>7 DEF Moved
<1> QED BY <1>8 DEF new, at

\* What is read of a ring is a token.
LEMMA RingRead ==
    ASSUME NEW m \in Nat \ {0}, NEW n \in Nat, NEW S, NEW rg \in [0 .. m - 1 -> S],
           NEW j \in Nat, j < n
    PROVE  Older(rg, n, m, j) \in S
<1>1. n - 1 - j \in Nat
  OBVIOUS
<1>2. (n - 1 - j) % m \in 0 .. m - 1
  BY <1>1, PlaceInRing
<1> QED BY <1>2 DEF Older

\* The next token of the run, or the same again, keeps the trail.
LEMMA TrailGrows ==
    ASSUME NEW m \in Nat \ {0}, NEW n \in Nat, NEW rg \in [0 .. m - 1 -> Places],
           NEW p \in Places, NEW q \in Places, Trail(rg, n, m, p),
           q.msg = p.msg, q.run = p.run, q.tok \in {p.tok, p.tok + 1}
    PROVE  Trail([rg EXCEPT ![n % m] = q], n + 1, m, q)
<1> DEFINE new == [rg EXCEPT ![n % m] = q]
           R(j) == Older(rg, n, m, j)
           N(j) == Older(new, n + 1, m, j)
<1>1. /\ N(0) = q
      /\ \A j \in 1 .. m - 1 : j < n + 1 => N(j) = R(j - 1)
  <2>1. Moved(Places, rg, n, m, q, new)
    BY RingMoves
  <2> QED BY <2>1 DEF Moved
<1>2. \A j \in Nat : j < n => R(j) \in Places
  BY RingRead
<1>3. ASSUME NEW j \in 0 .. m - 1, j < n, R(j).msg = p.msg
      PROVE  /\ R(j).run = p.run /\ R(j).tok <= p.tok /\ p.tok - R(j).tok <= j
             /\ \A i \in 0 .. j :
                   R(i).msg = p.msg /\ R(j).tok <= R(i).tok /\ R(i).tok - R(j).tok <= j - i
  BY <1>3 DEF Trail, Follows
<1> SUFFICES ASSUME NEW j \in 0 .. m - 1, j < n + 1, N(j).msg = q.msg
             PROVE  /\ N(j).run = q.run /\ N(j).tok <= q.tok /\ q.tok - N(j).tok <= j
                    /\ j = 0 => N(j) = q
                    /\ \A i \in 0 .. j :
                          N(i).msg = q.msg /\ N(j).tok <= N(i).tok /\ N(i).tok - N(j).tok <= j - i
  BY DEF Trail, Follows
<1>4. p.tok \in Nat /\ q.tok \in Nat
  BY DEF Places
<1> HIDE DEF R, N
<1>5. CASE j = 0
  <2>1. \A i \in 0 .. j : i = 0
    BY <1>5
  <2> QED BY <1>1, <1>4, <1>5, <2>1
<1>6. CASE j # 0
  <2> DEFINE k == j - 1
  <2>1. j \in 1 .. m - 1 /\ k \in 0 .. m - 1 /\ k < n /\ k \in Nat /\ j = k + 1
    BY <1>6
  <2>2. N(j) = R(k)
    BY <1>1, <2>1
  <2> HIDE DEF k
  <2>3. /\ R(k).run = p.run /\ R(k).tok <= p.tok /\ p.tok - R(k).tok <= k
        /\ \A i \in 0 .. k :
              R(i).msg = p.msg /\ R(k).tok <= R(i).tok /\ R(i).tok - R(k).tok <= k - i
    BY <1>3, <2>1, <2>2
  <2>4. R(k).tok \in Nat
    BY <1>2, <2>1 DEF Places
  <2>5. /\ N(j).run = q.run /\ N(j).tok <= q.tok /\ q.tok - N(j).tok <= j
    <3> DEFINE a == R(k).tok
               b == p.tok
               c == q.tok
    <3>1. a \in Nat /\ b \in Nat /\ c \in {b, b + 1} /\ a <= b /\ b - a <= k /\ k \in Nat
      BY <1>4, <2>1, <2>3, <2>4
    <3> HIDE DEF a, b, c
    <3>2. a <= c /\ c - a <= k + 1
      BY <3>1
    <3> QED BY <2>1, <2>2, <2>3, <3>2 DEF a, c
  <2>6. ASSUME NEW i \in 0 .. j
        PROVE  N(i).msg = q.msg /\ N(j).tok <= N(i).tok /\ N(i).tok - N(j).tok <= j - i
    <3>1. CASE i = 0
      BY <1>1, <2>1, <2>5, <3>1
    <3>2. CASE i # 0
      <4> DEFINE h == i - 1
      <4>1. i \in 1 .. m - 1 /\ h \in 0 .. k /\ i < n + 1 /\ h \in Nat /\ h < n /\ j - i = k - h
        BY <2>1, <3>2
      <4>2. N(i) = R(h)
        BY <1>1, <4>1
      <4> HIDE DEF h
      <4>3. R(h).msg = p.msg /\ R(k).tok <= R(h).tok /\ R(h).tok - R(k).tok <= k - h
        BY <2>3, <4>1
      <4> QED BY <2>2, <4>1, <4>2, <4>3
    <3> QED BY <3>1, <3>2
  <2> QED BY <1>6, <2>5, <2>6
<1> QED BY <1>5, <1>6

\* Where nothing of the message is in the ring, there is nothing to follow.
LEMMA NoTrail ==
    ASSUME NEW m \in Nat \ {0}, NEW n \in Nat, NEW rg \in [0 .. m - 1 -> Places], NEW p \in Places,
           \A i \in 0 .. m - 1 : rg[i].msg < p.msg
    PROVE  Trail(rg, n, m, p)
<1> SUFFICES ASSUME NEW j \in 0 .. m - 1, j < n
             PROVE  Older(rg, n, m, j).msg # p.msg
  BY DEF Trail
<1>1. n - 1 - j \in Nat
  OBVIOUS
<1> DEFINE i == (n - 1 - j) % m
<1>2. i \in 0 .. m - 1
  BY <1>1, PlaceInRing
<1> HIDE DEF i
<1>3. rg[i].msg \in Nat /\ p.msg \in Nat /\ rg[i].msg < p.msg
  BY <1>2 DEF Places
<1> QED BY <1>3 DEF Older, i

\* Nor where no token is counted.
LEMMA NothingFollows ==
    ASSUME NEW m \in Nat \ {0}, NEW rg, NEW p PROVE Trail(rg, 0, m, p)
<1>1. \A j \in 0 .. m - 1 : ~(j < 0)
  OBVIOUS
<1> QED BY <1>1 DEF Trail

-----------------------------------------------------------------------------
(* The steps *)

\* The first message begins with an empty ring.
LEMMA StreamStarts ==
    ASSUME T!Init PROVE StreamInv
<1> DEFINE m == topt.multi_token_count
<1>1. /\ topt \in [multi_token_count : Nat \ {0}, markup : BOOLEAN, subnets : BOOLEAN]
  BY InputAssumption DEF T!Init, T!TokenStreamAssumption
<1>2. m \in Nat \ {0} /\ topt.markup \in BOOLEAN
  BY <1>1
<1>3. TokenTypes
  BY <1>2 DEF T!Init, TokenTypes, Places, T!Beginning
<1>4. /\ ring \in [0 .. m - 1 -> Places] /\ \A i \in 0 .. m - 1 : ring[i].msg = 0
      /\ place \in Places /\ place.msg = 1 /\ tok_count = 0 /\ init_token = 1
  BY DEF T!Init, Places, T!NoToken, T!Beginning
<1>5. RingHolds
  <2> HIDE DEF m
  <2>1. Trail(ring, tok_count, m, place)
    BY <1>2, <1>4, NothingFollows
  <2>2. \A i \in 0 .. m - 1 : ring[i].msg <= place.msg
    BY <1>4
  <2>3. m > 1 => init_token <= m
    BY <1>2, <1>4
  <2> QED BY <1>4, <2>1, <2>2, <2>3 DEF RingHolds, m
<1>6. HeaderTagged /\ T!SavedIsOwn
  BY DEF T!Init, HeaderTagged, T!SavedIsOwn
<1> QED BY <1>3, <1>5, <1>6 DEF StreamInv

\* A step that leaves the ring alone, or takes the tokens out of it, keeps it.
LEMMA RingKept ==
    ASSUME StreamInv, topt' = topt, ring' = ring, init_token' = init_token,
           place'.msg = place.msg, tpc \in {"lexer_init", "call", "parse"},
           tok_count' = 0 \/ (tok_count' = tok_count /\ place' = place)
    PROVE  RingHolds'
<1> DEFINE m == topt.multi_token_count
<1> SUFFICES ASSUME m > 1
             PROVE  /\ ring \in [0 .. m - 1 -> Places] /\ init_token <= m
                    /\ \A i \in 0 .. m - 1 : ring[i].msg <= place.msg
                    /\ Trail(ring, tok_count', m, place')
  BY DEF RingHolds
<1>1. /\ ring \in [0 .. m - 1 -> Places] /\ init_token <= m
      /\ \A i \in 0 .. m - 1 : ring[i].msg <= place.msg
      /\ Trail(ring, tok_count, m, place)
  BY DEF StreamInv, RingHolds
<1>2. m \in Nat \ {0}
  BY DEF StreamInv, TokenTypes
<1> HIDE DEF m
<1>3. Trail(ring, tok_count', m, place')
  <2>1. CASE tok_count' = 0
    BY <1>2, <2>1, NothingFollows
  <2>2. CASE tok_count' = tok_count /\ place' = place
    BY <1>1, <2>2
  <2> QED BY <2>1, <2>2
<1> QED BY <1>1, <1>3

\* One that puts the next token into it, or the same again.
LEMMA RingGrows ==
    ASSUME StreamInv, tpc = "parse", T!AddToArray(place'), topt' = topt, place' \in Places,
           place'.msg = place.msg, place'.run = place.run, place'.tok \in {place.tok, place.tok + 1}
    PROVE  /\ RingHolds' /\ tok_count' \in Nat /\ init_token' \in Nat \ {0}
<1> DEFINE m == topt.multi_token_count
           p == place
           q == place'
           new == [ring EXCEPT ![tok_count % m] = q]
<1>1. m \in Nat \ {0} /\ tok_count \in Nat /\ init_token \in Nat \ {0} /\ p \in Places
  BY DEF StreamInv, TokenTypes
<1>2. CASE m > 1
  <2>1. ring' = new /\ tok_count' = tok_count + 1 /\ init_token' = 1
    BY <1>2 DEF T!AddToArray, T!Wrap
  <2>2. /\ ring \in [0 .. m - 1 -> Places]
        /\ \A i \in 0 .. m - 1 : ring[i].msg <= p.msg
        /\ Trail(ring, tok_count, m, p)
    BY <1>2 DEF StreamInv, RingHolds
  <2>3. Moved(Places, ring, tok_count, m, q, new)
    <3> HIDE DEF m, q
    <3> QED BY <1>1, <2>2, RingMoves DEF q
  <2>4. Trail(new, tok_count + 1, m, q)
    <3>1. q \in Places /\ q.msg = p.msg /\ q.run = p.run /\ q.tok \in {p.tok, p.tok + 1}
      OBVIOUS
    <3> HIDE DEF m, p, q
    <3> QED BY <1>1, <2>2, <3>1, TrailGrows
  <2>5. /\ new \in [0 .. m - 1 -> Places] /\ \A i \in 0 .. m - 1 : new[i].msg <= q.msg
    <3>1. q.msg = p.msg /\ p.msg \in Nat
      BY <1>1 DEF Places
    <3> HIDE DEF m, p, q, new
    <3>2. \A i \in 0 .. m - 1 : new[i] = ring[i] \/ new[i] = q
      BY <2>3 DEF Moved
    <3> QED BY <2>2, <2>3, <3>1, <3>2 DEF Moved
  <2>6. 1 <= m
    BY <1>1
  <2> HIDE DEF m, p, q, new
  <2>7. RingHolds'
    BY <2>1, <2>4, <2>5, <2>6 DEF RingHolds, m, q
  <2> QED BY <1>1, <2>1, <2>7
<1>3. CASE ~(m > 1)
  BY <1>1, <1>3 DEF T!AddToArray, RingHolds
<1> QED BY <1>2, <1>3

\* Steps in which nothing is given but the tag and the run may change.
LEMMA SameMessage ==
    ASSUME StreamInv, RingHolds', tpc \in {"call", "parse"}, tpc' \in {"call", "parse"},
           topt' = topt, tok_count' \in Nat, init_token' \in Nat \ {0},
           place' \in Places, place'.msg = place.msg, saved' = saved,
           theader' \in BOOLEAN, parent' \in {"none", "multipart", "message"},
           HeaderTagged'
    PROVE  StreamInv'
<1>1. TokenTypes'
  BY DEF StreamInv, TokenTypes
<1>2. T!SavedIsOwn'
  BY DEF StreamInv, T!SavedIsOwn
<1> QED BY <1>1, <1>2 DEF StreamInv

\* set_tag, of a header line and of the first one.
TagIsSet ==
    /\ tok_count' = 0 \/ tok_count' = tok_count
    /\ ~topt.markup => token_prefix' = token_prefix /\ tok_count' = tok_count
    /\ topt.markup /\ parent' # "message" =>
        /\ token_prefix' # None
        /\ token_prefix' # token_prefix /\ token_prefix # None => tok_count' = 0
    /\ topt.markup /\ parent' = "message" => token_prefix' = None /\ tok_count' = 0

LEMMA SetTagSets ==
    ASSUME NEW tag \in Tags, T!SetTag(tag)
    PROVE  TagIsSet
<1>1. "mime" # None /\ tag # None
  BY InputAssumption DEF T!TokenStreamAssumption
<1>2. CASE ~topt.markup
  BY <1>2 DEF T!SetTag, TagIsSet
<1>3. CASE topt.markup /\ parent' = "message"
  BY <1>3 DEF T!SetTag, T!ClrTag, TagIsSet
<1>4. CASE topt.markup /\ parent' # "message"
  <2>1. /\ token_prefix' = "mime" \/ token_prefix' = tag
        /\ tok_count' = IF token_prefix \notin {None, token_prefix'} THEN 0 ELSE tok_count
    BY <1>4 DEF T!SetTag
  <2> QED BY <1>1, <1>4, <2>1 DEF TagIsSet
<1> QED BY <1>2, <1>3, <1>4

\* A line that begins another run takes the tokens of the one before away.
LEMMA LinesKeep ==
    ASSUME StreamInv,
           \/ \E tag \in Tags \ {"mime"} : T!HeaderLine(tag)
           \/ T!EndOfHeader \/ T!EndOfLine \/ T!NextPart
    PROVE  StreamInv'
<1> DEFINE further == [place EXCEPT !.run = @ + 1]
<1>1. /\ further \in Places /\ further.msg = place.msg /\ place \in Places
      /\ tok_count \in Nat /\ init_token \in Nat \ {0} /\ topt.markup \in BOOLEAN
  BY DEF StreamInv, TokenTypes, Places
<1> HIDE DEF further
<1>2. ASSUME NEW tag \in Tags, T!HeaderLine(tag) PROVE StreamInv'
  <2>1. /\ tpc = "parse" /\ tpc' = "parse" /\ theader /\ theader' = theader /\ parent' = parent
        /\ T!SetTag(tag) /\ topt' = topt /\ ring' = ring /\ init_token' = init_token
        /\ saved' = saved
        /\ IF token_prefix' # token_prefix \/ (topt.markup /\ token_prefix' = None)
              THEN place' = further ELSE place' = place
    BY <1>2 DEF T!HeaderLine, T!InALine, T!mime, T!NextRun, further
  <2>2. parent \in {"none", "multipart", "message"} /\ theader \in BOOLEAN
    BY DEF StreamInv, TokenTypes
  <2>3. topt.markup /\ parent # "message" => token_prefix # None
    BY <2>1 DEF StreamInv, HeaderTagged
  <2>4. /\ tok_count' = 0 \/ (tok_count' = tok_count /\ place' = place)
        /\ tok_count' \in Nat
        /\ (topt.markup /\ parent # "message" => token_prefix' # None)
    <3>1. TagIsSet
      BY <2>1, SetTagSets
    <3>2. CASE ~topt.markup
      BY <1>1, <2>1, <3>1, <3>2 DEF TagIsSet
    <3>3. CASE topt.markup /\ parent = "message"
      BY <2>1, <3>1, <3>3 DEF TagIsSet
    <3>4. CASE topt.markup /\ parent # "message"
      BY <1>1, <2>1, <2>3, <3>1, <3>4 DEF TagIsSet
    <3> QED BY <3>2, <3>3, <3>4
  <2>5. place' \in Places /\ place'.msg = place.msg
    BY <1>1, <2>1
  <2>6. RingHolds'
    BY <2>1, <2>4, <2>5, RingKept
  <2>7. HeaderTagged'
    BY <2>1, <2>4 DEF HeaderTagged
  <2> QED BY <1>1, <2>1, <2>2, <2>4, <2>5, <2>6, <2>7, SameMessage
<1>3. ASSUME T!EndOfHeader \/ T!EndOfLine \/ T!NextPart PROVE StreamInv'
  <2>1. /\ tpc = "parse" /\ tpc' = "parse" /\ tok_count' = 0 /\ place' = further
        /\ topt' = topt /\ ring' = ring /\ init_token' = init_token /\ saved' = saved
    BY <1>3 DEF T!EndOfHeader, T!EndOfLine, T!NextPart, T!InALine, T!ClrTag, T!Retagged,
                T!NextRun, further
  <2>2. RingHolds'
    BY <1>1, <2>1, RingKept
  <2>3. /\ theader' \in BOOLEAN /\ parent' \in {"none", "multipart", "message"}
    BY <1>3 DEF T!EndOfHeader, T!EndOfLine, T!NextPart, T!InALine, T!mime, StreamInv, TokenTypes
  <2>4. {"head", "mime"} \subseteq Tags /\ None \notin Tags
    BY InputAssumption DEF T!TokenStreamAssumption
  <2>5. HeaderTagged'
    <3>1. CASE T!EndOfHeader
      BY <2>1, <3>1 DEF T!EndOfHeader, T!mime, HeaderTagged
    <3>2. CASE T!EndOfLine
      BY <3>2 DEF T!EndOfLine, HeaderTagged
    <3>3. CASE T!NextPart
      BY <2>1, <2>4, <3>3 DEF T!NextPart, T!Retagged, HeaderTagged
    <3> QED BY <1>3, <3>1, <3>2, <3>3
  <2>6. 0 \in Nat
    OBVIOUS
  <2> QED BY <1>1, <2>1, <2>2, <2>3, <2>5, <2>6, SameMessage
<1> QED BY <1>2, <1>3

\* get_token: a token is put in, or a combination given.
LEMMA TokensKeep ==
    ASSUME StreamInv,
           \/ T!Call \/ T!BuildToken \/ T!NextSubnet \/ T!NoMoreSubnets
           \/ \E c \in {"word", "address"} : T!NewToken(c)
    PROVE  StreamInv'
<1>1. /\ place \in Places /\ tok_count \in Nat /\ init_token \in Nat \ {0}
      /\ theader \in BOOLEAN /\ parent \in {"none", "multipart", "message"}
      /\ topt.multi_token_count \in Nat \ {0}
  BY DEF StreamInv, TokenTypes
<1>2. CASE T!Call \/ T!NoMoreSubnets
  <2>1. /\ tpc \in {"call", "parse"} /\ tpc' \in {"call", "parse"}
        /\ topt' = topt /\ ring' = ring /\ init_token' = init_token /\ saved' = saved
        /\ tok_count' = tok_count /\ place' = place /\ theader' = theader /\ parent' = parent
        /\ token_prefix' = token_prefix
    BY <1>2 DEF T!Call, T!NoMoreSubnets, T!statics, T!mime
  <2>2. RingHolds'
    BY <2>1, RingKept
  <2>3. HeaderTagged'
    BY <2>1 DEF StreamInv, HeaderTagged
  <2> QED BY <1>1, <2>1, <2>2, <2>3, SameMessage
<1>3. CASE T!BuildToken
  <2>1. /\ tpc = "call" /\ tpc' = "call" /\ init_token' = init_token + 1
        /\ topt' = topt /\ ring' = ring /\ saved' = saved
        /\ tok_count' = tok_count /\ place' = place /\ theader' = theader /\ parent' = parent
        /\ token_prefix' = token_prefix /\ ~(topt.multi_token_count <= init_token)
    BY <1>3 DEF T!BuildToken, T!IsSingle, T!mime
  <2>2. init_token' \in Nat \ {0} /\ init_token' <= topt.multi_token_count
    BY <1>1, <2>1
  <2>3. RingHolds'
    BY <2>1, <2>2 DEF StreamInv, RingHolds
  <2>4. HeaderTagged'
    BY <2>1 DEF StreamInv, HeaderTagged
  <2> QED BY <1>1, <2>1, <2>2, <2>3, <2>4, SameMessage
<1>4. CASE T!NextSubnet \/ \E c \in {"word", "address"} : T!NewToken(c)
  <2>1. /\ tpc = "parse" /\ tpc' = "call" /\ T!AddToArray(place')
        /\ topt' = topt /\ saved' = saved /\ theader' = theader /\ parent' = parent
        /\ token_prefix' = token_prefix
        /\ place' = place \/ place' = [place EXCEPT !.tok = @ + 1]
    <3>1. CASE T!NextSubnet
      BY <3>1 DEF T!NextSubnet, T!AddToArray, T!mime
    <3>2. CASE \E c \in {"word", "address"} : T!NewToken(c)
      BY <3>2 DEF T!NewToken, T!mime
    <3> QED BY <1>4, <3>1, <3>2
  <2>2. /\ place' \in Places /\ place'.msg = place.msg /\ place'.run = place.run
        /\ place'.tok \in {place.tok, place.tok + 1}
    BY <1>1, <2>1 DEF Places
  <2>3. RingHolds' /\ tok_count' \in Nat /\ init_token' \in Nat \ {0}
    BY <2>1, <2>2, RingGrows
  <2>4. HeaderTagged'
    BY <2>1 DEF StreamInv, HeaderTagged
  <2> QED BY <1>1, <2>1, <2>2, <2>3, <2>4, SameMessage
<1> QED BY <1>2, <1>3, <1>4

\* What is kept for the log line is of this message.
LEMMA SaveIdKeeps ==
    ASSUME StreamInv, NEW k \in SavedKinds, T!SaveId(k)
    PROVE  StreamInv'
<1>1. /\ tpc = "parse" /\ tpc' = tpc /\ saved' = [saved EXCEPT ![k] = place.msg]
      /\ topt' = topt /\ ring' = ring /\ init_token' = init_token
      /\ tok_count' = tok_count /\ place' = place /\ theader' = theader /\ parent' = parent
      /\ token_prefix' = token_prefix
  BY DEF T!SaveId, T!InALine, T!mime
<1>2. RingHolds'
  BY <1>1, RingKept
<1>3. HeaderTagged'
  BY <1>1 DEF StreamInv, HeaderTagged
<1>4. saved \in [SavedKinds -> Nat] /\ place.msg \in Nat
  BY DEF StreamInv, TokenTypes, Places
<1>5. TokenTypes'
  BY <1>1, <1>4 DEF StreamInv, TokenTypes
<1>6. T!SavedIsOwn'
  BY <1>1, <1>4 DEF StreamInv, T!SavedIsOwn
<1> QED BY <1>2, <1>3, <1>5, <1>6 DEF StreamInv

\* A message begins and ends: what is in the ring is of another.
LEMMA MessagesKeep ==
    ASSUME StreamInv, T!LexerInit \/ T!EndOfMessage \/ T!MsgCountLine
    PROVE  StreamInv'
<1> DEFINE m == topt.multi_token_count
<1>1. /\ place \in Places /\ place.msg \in Nat \ {0}
      /\ tok_count \in Nat /\ init_token \in Nat \ {0}
      /\ theader \in BOOLEAN /\ parent \in {"none", "multipart", "message"}
      /\ m \in Nat \ {0} /\ topt.markup \in BOOLEAN /\ saved \in [SavedKinds -> Nat]
  BY DEF StreamInv, TokenTypes, Places
<1>2. CASE T!LexerInit
  <2>1. /\ tpc = "lexer_init" /\ tpc' = "call" /\ parent' = "none" /\ theader' = TRUE
        /\ saved' = [k \in SavedKinds |-> 0] /\ T!SetTag("head") /\ topt' = topt
        /\ ring' = ring /\ init_token' = init_token /\ place' = place
    BY <1>2 DEF T!LexerInit, T!token_init, T!token_clear
  <2>2. "head" \in Tags
    BY InputAssumption DEF T!TokenStreamAssumption
  <2>3. /\ tok_count' = 0 \/ tok_count' = tok_count
        /\ (topt.markup /\ parent' # "message" => token_prefix' # None)
    <3>1. TagIsSet
      BY <2>1, <2>2, SetTagSets
    <3> QED BY <3>1 DEF TagIsSet
  <2>4. RingHolds'
    BY <2>1, <2>3, RingKept
  <2>5. HeaderTagged'
    BY <2>1, <2>3 DEF HeaderTagged
  <2>6. TokenTypes'
    BY <1>1, <2>1, <2>3 DEF StreamInv, TokenTypes
  <2>7. T!SavedIsOwn'
    BY <2>1 DEF T!SavedIsOwn
  <2> QED BY <2>4, <2>5, <2>6, <2>7 DEF StreamInv
<1>3. CASE T!EndOfMessage
  <2> DEFINE next == T!Beginning(place.msg + 1)
             new == [ring EXCEPT ![tok_count % m] = T!NoToken]
  <2>1. /\ tpc \in {"parse", "counts"} /\ tpc' \in {"lexer_init", "end"}
        /\ T!AddToArray(T!NoToken) /\ topt' = topt /\ theader' = theader /\ parent' = parent
        /\ saved' = saved
        /\ tpc' = "lexer_init" => place' = next
        /\ tpc' = "end" => place' = place
    BY <1>3 DEF T!EndOfMessage, T!mime
  <2>2. /\ next \in Places /\ next.msg = place.msg + 1 /\ T!NoToken \in Places /\ T!NoToken.msg = 0
    BY <1>1 DEF T!Beginning, Places, T!NoToken
  <2>3. /\ tok_count' \in Nat /\ init_token' \in Nat \ {0}
    BY <1>1, <2>1 DEF T!AddToArray
  <2>4. TokenTypes'
    <3> HIDE DEF next
    <3> QED BY <1>1, <2>1, <2>2, <2>3 DEF StreamInv, TokenTypes
  <2>5. HeaderTagged' /\ T!SavedIsOwn'
    BY <2>1 DEF HeaderTagged, T!SavedIsOwn
  <2>6. CASE m > 1
    <3>1. ring' = new /\ tok_count' = tok_count + 1 /\ init_token' = 1
      BY <2>1, <2>6 DEF T!AddToArray, T!Wrap
    <3>2. /\ ring \in [0 .. m - 1 -> Places] /\ \A i \in 0 .. m - 1 : ring[i].msg <= place.msg
      BY <2>1, <2>6 DEF StreamInv, RingHolds
    <3>3. Moved(Places, ring, tok_count, m, T!NoToken, new)
      <4> HIDE DEF m
      <4> QED BY <1>1, <2>2, <3>2, RingMoves
    <3> HIDE DEF new, m, next
    <3>4. /\ new \in [0 .. m - 1 -> Places]
          /\ \A i \in 0 .. m - 1 : new[i] = ring[i] \/ new[i] = T!NoToken
      BY <3>3 DEF Moved
    <3>5. \A i \in 0 .. m - 1 : new[i].msg <= place.msg /\ new[i].msg < next.msg
      <4> SUFFICES ASSUME NEW i \in 0 .. m - 1
                   PROVE  new[i].msg <= place.msg /\ new[i].msg < next.msg
        OBVIOUS
      <4>1. new[i].msg \in Nat /\ new[i].msg <= place.msg
        <5>1. CASE new[i] = ring[i]
          BY <3>2, <5>1 DEF Places
        <5>2. CASE new[i] = T!NoToken
          BY <1>1, <2>2, <5>2
        <5> QED BY <3>4, <5>1, <5>2
      <4> QED BY <1>1, <2>2, <4>1
    <3>6. Trail(new, tok_count + 1, m, next)
      BY <1>1, <2>2, <3>4, <3>5, NoTrail
    <3>7. tpc' = "lexer_init" => \A i \in 0 .. m - 1 : new[i].msg <= next.msg
      <4> SUFFICES ASSUME NEW i \in 0 .. m - 1 PROVE new[i].msg <= next.msg
        OBVIOUS
      <4>1. new[i].msg \in Nat /\ new[i].msg < next.msg
        BY <3>4, <3>5 DEF Places
      <4> QED BY <1>1, <2>2, <4>1
    <3>8. 1 <= m
      BY <1>1
    <3>9. RingHolds'
      BY <2>1, <3>1, <3>4, <3>6, <3>7, <3>8 DEF RingHolds, m
    <3> QED BY <2>4, <2>5, <3>9 DEF StreamInv
  <2>7. CASE ~(m > 1)
    <3>1. RingHolds'
      BY <2>1, <2>7 DEF RingHolds
    <3> QED BY <2>4, <2>5, <3>1 DEF StreamInv
  <2> QED BY <2>6, <2>7
<1>4. CASE T!MsgCountLine
  <2>1. /\ tpc' = "counts" /\ topt' = [topt EXCEPT !.multi_token_count = 1, !.markup = FALSE]
        /\ theader' = theader /\ parent' = parent /\ saved' = saved /\ place' = place
        /\ tok_count' = tok_count /\ init_token' = init_token
    BY <1>4 DEF T!MsgCountLine, T!mime
  <2>2. topt'.multi_token_count = 1 /\ topt'.markup = FALSE
    BY <2>1
  <2>3. TokenTypes'
    BY <1>1, <2>1, <2>2 DEF StreamInv, TokenTypes
  <2>4. RingHolds'
    BY <2>2 DEF RingHolds
  <2>5. HeaderTagged' /\ T!SavedIsOwn'
    BY <2>1 DEF HeaderTagged, T!SavedIsOwn
  <2> QED BY <2>3, <2>4, <2>5 DEF StreamInv
<1> QED BY <1>2, <1>3, <1>4

\* What is given is the newest of the ring, and what is of the message among it a run.
LEMMA GivenARun ==
    ASSUME StreamInv PROVE T!CombinesARun
<1> DEFINE m == topt.multi_token_count
           n == tok_count
           c == init_token
           R(j) == Older(ring, n, m, j)
<1> SUFFICES ASSUME T!Own # {} PROVE T!CombinesARun
  BY DEF T!CombinesARun
<1>1. /\ tpc = "call" /\ n >= c /\ m > 1
      /\ T!Given = [i \in 1 .. c |-> ring[T!Wrap(n - 1 - (c - i))]]
  BY DEF T!Own, T!Given, T!Combined
<1>2. n \in Nat /\ c \in Nat \ {0} /\ m \in Nat \ {0} /\ place \in Places
  BY DEF StreamInv, TokenTypes
<1>3. /\ c <= m /\ ring \in [0 .. m - 1 -> Places]
      /\ Trail(ring, n, m, place)
  BY <1>1 DEF StreamInv, RingHolds
<1>4. \A i \in 1 .. c : T!Given[i] = R(c - i)
  BY <1>1 DEF Older, T!Wrap
<1>5. T!Own = {i \in 1 .. c : R(c - i).msg = place.msg}
  BY <1>1, <1>4 DEF T!Own
<1>6. DOMAIN T!Given = 1 .. c
  BY <1>1
<1>7. Len(T!Given) = c
  <2>1. T!Given \in Seq(Places)
    <3>1. \A i \in 1 .. c : T!Given[i] \in Places
      <4> HIDE DEF n, c, m
      <4>1. \A i \in 1 .. c : c - i \in Nat /\ c - i < n
        BY <1>1, <1>2
      <4> QED BY <1>2, <1>3, <1>4, <4>1, RingRead
    <3>2. T!Given \in [1 .. c -> Places]
      BY <1>1, <3>1
    <3> HIDE DEF c
    <3> QED BY <1>2, <3>2, SeqDef
  <2> HIDE DEF c
  <2> QED BY <1>2, <1>6, <2>1, LenProperties
<1> HIDE DEF n, c, m, R
<1>8. ASSUME NEW j \in T!Own
      PROVE  /\ j \in 1 .. c /\ R(c - j).run = place.run
             /\ c - j = 0 => R(c - j) = place
             /\ \A i \in 0 .. c - j :
                   /\ R(i).msg = place.msg /\ R(c - j).tok <= R(i).tok
                   /\ R(i).tok - R(c - j).tok <= (c - j) - i
  <2>1. j \in 1 .. c /\ R(c - j).msg = place.msg
    BY <1>5
  <2>2. c - j \in 0 .. m - 1 /\ c - j < n
    BY <1>1, <1>2, <1>3, <2>1
  <2>3. Follows(ring, n, m, place, c - j)
    BY <1>3, <2>1, <2>2 DEF Trail, R
  <2> QED BY <2>1, <2>3 DEF Follows, R
<1>9. T!Given[Len(T!Given)] = place
  <2>1. PICK j \in T!Own : TRUE
    OBVIOUS
  <2>2. j \in 1 .. c /\ R(0).msg = place.msg
    <3>1. j \in 1 .. c /\ \A i \in 0 .. c - j : R(i).msg = place.msg
      BY <1>8
    <3>2. 0 \in 0 .. c - j
      BY <1>2, <3>1
    <3> QED BY <3>1, <3>2
  <2>3. c \in 1 .. c /\ c - c = 0
    BY <1>2
  <2>4. c \in T!Own
    BY <1>5, <2>2, <2>3
  <2> QED BY <1>4, <1>7, <1>8, <2>3, <2>4
<1>10. ASSUME NEW i \in T!Own, NEW j \in T!Own, i < j
       PROVE  /\ T!Given[i].run = T!Given[j].run
              /\ T!Given[i].tok <= T!Given[j].tok
              /\ T!Given[j].tok - T!Given[i].tok <= j - i
  <2>1. i \in 1 .. c /\ j \in 1 .. c
    BY <1>8
  <2>2. c - j \in 0 .. c - i /\ (c - i) - (c - j) = j - i
    BY <1>2, <1>10, <2>1
  <2>3. R(c - i).tok <= R(c - j).tok /\ R(c - j).tok - R(c - i).tok <= (c - i) - (c - j)
    BY <1>8, <2>2
  <2> QED BY <1>4, <1>8, <2>1, <2>2, <2>3
<1>11. ASSUME NEW i \in DOMAIN T!Given \ T!Own, NEW j \in T!Own
       PROVE  i < j
  <2> SUFFICES ASSUME ~(i < j) PROVE FALSE
    OBVIOUS
  <2>1. i \in 1 .. c /\ j \in 1 .. c /\ R(c - i).msg # place.msg
    BY <1>5, <1>6, <1>8
  <2>2. c - i \in 0 .. c - j
    BY <1>2, <2>1
  <2> QED BY <1>8, <2>1, <2>2
<1> QED BY <1>9, <1>10, <1>11 DEF T!CombinesARun

\* Tokens are combined with their neighbours only, in any sequence of messages, lines
\* and tokens, and what is logged of a message is its own (get_token, set_tag,
\* token_clear, token.c).
THEOREM NeighboursAreCombined == InputSpec => []CombinesARun
<1>1. InputInit => StreamInv
  BY StreamStarts DEF InputInit
<1>2. StreamInv /\ [InputNext]_allVars => StreamInv'
  <2> SUFFICES ASSUME StreamInv, [InputNext]_allVars PROVE StreamInv'
    OBVIOUS
  <2>1. CASE T!Next
    BY <2>1, LinesKeep, TokensKeep, SaveIdKeeps, MessagesKeep DEF T!Next
  <2>2. CASE UNCHANGED tokenVars
    <3>1. TokenTypes' /\ HeaderTagged' /\ T!SavedIsOwn'
      BY <2>2 DEF tokenVars, StreamInv, TokenTypes, HeaderTagged, T!SavedIsOwn
    <3>2. RingHolds'
      BY <2>2 DEF tokenVars, StreamInv, RingHolds
    <3> QED BY <3>1, <3>2 DEF StreamInv
  <2> QED BY <2>1, <2>2 DEF InputNext, Text, Dir, Parts, Tokens, Decode, Scan, allVars
<1>3. StreamInv => CombinesARun
  BY GivenARun DEF CombinesARun, StreamInv
<1> QED BY <1>1, <1>2, <1>3, PTL DEF InputSpec
=============================================================================
