------------------------------- MODULE Format -------------------------------
(***************************************************************************)
(* What bogofilter says of a message: the formats of header_format,        *)
(* terse_format, log_header_format and log_update_format are turned into   *)
(* lines of at most Size bytes (format.c), and syslog gets the lines       *)
(* (passthrough.c).                                                        *)
(*                                                                         *)
(* A format is a sequence of characters, of which "x" is any that stands   *)
(* for itself, "5" any digit but 0 and 1, "h" the directives for a text    *)
(* (A, h, I, l, Q, u, v), "r" those without a precision (r, w, m), "e" and *)
(* "f" also g.  A text is known by a name and has a Length.                *)
(***************************************************************************)
EXTENDS Integers, Sequences, SequencesExt, FiniteSets

CONSTANTS
    Jobs,       \* mode, logflag, options, format, register_format, messages
    Size,       \* of the buffers of the lines
    Length,     \* of texts and tags
    None

FormatAssumption == Size \in Nat \ {0} /\ \A t \in DOMAIN Length : Length[t] \in Nat

VARIABLES
    pc, job,
    o,              \* tags, formats, and the format of the lines
    run_type, n,    \* the number of the message
    calls,          \* the lines that are to be made of it
    m,              \* the variables of convert_format_to_string, and what it has put
    msg_register,   \* the message whose registration waits for syslog, or 0
    log             \* of syslog: what a line tells

vars == <<pc, job, o, run_type, n, calls, m, msg_register, log>>

SIZ == 20           \* of the buffer for a number
DateLength == 20    \* of an ISO 8601 time
Digit == [c \in {"0", "1", "5"} |-> CASE c = "0" -> 0 [] c = "1" -> 1 [] c = "5" -> 5]
Statuses == <<"RC_SPAM", "RC_HAM", "RC_UNSURE">>

\* from, to: the characters of the format that a piece stands for; shows: the text, or
\* whether it is the distance from 1.
Start == [state |-> "S_DEFAULT", at |-> 1, from |-> 1, min |-> 0, prec |-> 0, flags |-> {},
          delta |-> FALSE, out |-> <<>>]

Init == /\ job \in Jobs
        /\ pc = "options" /\ n = 0 /\ calls = <<>> /\ m = Start /\ msg_register = 0 /\ log = <<>>
        /\ o = [tags |-> <<"Spam", "Ham", "Unsure">>, formats |-> <<6, 6, 6>>,
                format |-> job.format, done |-> 0]
        /\ run_type = {job.mode}

-----------------------------------------------------------------------------
(* The options                                                             *)

\* set_spamicity_fields: what is not named keeps its value, what is too much is dropped.
Fields(fields, val) == [i \in 1 .. 3 |-> IF i <= Len(val) THEN val[i] ELSE fields[i]]

\* set_terse_mode_format: its tags are those that the option spamicity_tags has changed.
TerseFormat(mode) == IF mode = 1 THEN <<"%", "1", ".", "1", "c", "x", "%", "-", "5", ".", "5", "f">>
                     ELSE <<"%", "0", ".", "1", "5", "f">>

SetOption ==
    /\ pc = "options" /\ o.done < Len(job.options)
    /\ LET opt == job.options[o.done + 1] IN
       IF opt.name = "T" /\ opt.digits[1] \notin {1, 2}
       THEN /\ pc' = "exit" /\ UNCHANGED o
       ELSE /\ o' = [CASE opt.name = "spamicity_tags" -> [o EXCEPT !.tags = Fields(@, opt.tags)]
                       [] opt.name = "spamicity_formats" -> [o EXCEPT !.formats = Fields(@, opt.digits)]
                       [] opt.name = "T" -> [o EXCEPT !.format = TerseFormat(opt.digits[1])]
                     EXCEPT !.done = @ + 1]
            /\ UNCHANGED pc
    /\ UNCHANGED <<job, run_type, n, calls, m, msg_register, log>>

OptionsSet == /\ pc = "options" /\ o.done = Len(job.options) /\ pc' = "more"
              /\ UNCHANGED <<job, o, run_type, n, calls, m, msg_register, log>>

-----------------------------------------------------------------------------
(* convert_format_to_string                                                *)

Message == job.messages[n]
Status == CHOOSE i \in 1 .. 3 : Statuses[i] = Message.status
Line == IF Head(calls) = "update" THEN job.register_format ELSE o.format
Filled == FoldLeft(LAMBDA sum, p : sum + p.len, 0, m.out)
Room == Size - Filled
Char == Line[m.at]

\* The loop goes on; after it the line is closed with a NUL at Filled.
At(state) == pc = "format" /\ Room > 0 /\ m.at <= Len(Line) /\ m.state = state

Step(next) == m' = next /\ UNCHANGED <<pc, job, o, run_type, n, calls, msg_register, log>>
Stop(with) == pc' = with /\ UNCHANGED <<job, o, run_type, n, calls, m, msg_register, log>>

Piece(what, len, shows) ==
    [from |-> m.from, to |-> m.at, what |-> what, len |-> len, shows |-> shows,
     prec |-> IF "F_PREC" \in m.flags THEN m.prec ELSE -1, zero |-> "F_ZERO" \in m.flags]
Put(piece) == [m EXCEPT !.out = Append(@, piece), !.at = @ + 1, !.from = m.at + 1]

\* A directive that was put: the next one begins without its flags.
Reset(next) == [next EXCEPT !.state = "S_DEFAULT", !.min = 0, !.prec = 0, !.flags = {}]

Default ==
    /\ At("S_DEFAULT")
    /\ IF Char = "%" THEN Step([m EXCEPT !.state = "S_FLAGS", !.at = @ + 1])
       ELSE Step(Put(Piece("text", 1, None)))

\* The first digits of a minimum are passed over here, and so are those that follow.
Flags ==
    /\ At("S_FLAGS")
    /\ Step(CASE Char \in {"1", "5", "-"} -> [m EXCEPT !.at = @ + 1]
              [] Char = "0" -> [m EXCEPT !.flags = @ \cup {"F_ZERO"}, !.at = @ + 1]
              [] Char = "#" ->
                   [m EXCEPT !.flags = IF Message.status = "RC_SPAM" THEN @ \cup {"F_DELTA"} ELSE @,
                             !.at = @ + 1]
              [] OTHER -> [m EXCEPT !.state = "S_MIN"])

Minimum ==
    /\ At("S_MIN")
    /\ Step(IF Char \in DOMAIN Digit THEN [m EXCEPT !.min = 10 * @ + Digit[Char], !.at = @ + 1]
            ELSE [m EXCEPT !.state = "S_DOT"])

Dot == /\ At("S_DOT")
       /\ Step(IF Char = "." THEN [m EXCEPT !.state = "S_PREC", !.at = @ + 1]
               ELSE [m EXCEPT !.state = "S_CONV"])

Precision ==
    /\ At("S_PREC")
    /\ Step(IF Char \in DOMAIN Digit
            THEN [m EXCEPT !.prec = 10 * @ + Digit[Char], !.flags = @ \cup {"F_PREC"}, !.at = @ + 1]
            ELSE [m EXCEPT !.state = "S_CONV"])

Least(x, y) == IF x < y THEN x ELSE y

\* A number is cut to its buffer.  The delta is that of what was turned before, if any.
NumberLength(p) == Least(SIZ - 1, IF m.min > p THEN m.min ELSE p)
format_float(c) ==
    LET p == IF "F_PREC" \in m.flags THEN m.prec ELSE IF c = "f" THEN 6 ELSE 2
        shows == IF c = "o" THEN "cutoff"
                 ELSE IF m.delta \/ ("F_DELTA" \in m.flags /\ Message.near) THEN "delta"
                 ELSE "spamicity"
    IN Piece(c, NumberLength(IF c = "f" THEN p + 2 ELSE p + 6), shows)

format_string(c, text) ==
    LET len == Length[text] IN
    Piece(c, IF "F_PREC" \in m.flags THEN Least(m.prec, len) ELSE len, text)

\* For a spam "d" turns the spamicity around, and it stays so.
Delta == IF Char = "d" /\ Message.status = "RC_SPAM" THEN ~m.delta ELSE m.delta
format_spamicity(c) ==
    Piece(c, Least(SIZ - 1, o.formats[Status] + 2), IF Delta THEN "delta" ELSE "spamicity")

Converted ==
    CASE Char = "c" -> format_string("c", o.tags[Status])
      [] Char = "h" -> format_string("h", IF Message.text = None THEN "UNKNOWN" ELSE Message.text)
      [] Char = "r" -> [Piece("r", Length[Message.registered], Message.registered)
                        EXCEPT !.prec = -1, !.zero = FALSE]
      [] Char \in {"d", "p"} -> format_spamicity(Char)
      [] Char \in {"e", "f", "o"} -> format_float(Char)
      [] Char = "%" -> Piece("text", 1, None)

\* A date that does not fit is left out; anything else ends the program.
Conversion ==
    /\ At("S_CONV")
    /\ CASE Char = "D" ->
              Step(Reset(Put(Piece("D", IF DateLength <= Room - 2 THEN DateLength ELSE 0, None))))
         [] Char \in {"c", "h", "r", "d", "p", "e", "f", "o", "%"} ->
              IF Char # "%" /\ Converted.len + 1 >= Room THEN Stop("abort")
              ELSE Step([Reset(Put(Converted)) EXCEPT !.delta = Delta])
         [] OTHER -> Stop("exit")

\* bogofilter with -s or -n (and without -p) classifies nothing.
Registers == job.mode \in {"REG_SPAM", "REG_GOOD"}
After == IF Registers THEN "done" ELSE "more"

\* The line is done, and is where its caller wants it.
LineDone ==
    /\ pc = "format" /\ (Room <= 0 \/ m.at > Len(Line))
    /\ m' = Start /\ calls' = Tail(calls)
    /\ msg_register' = IF Head(calls) = "update" THEN n ELSE msg_register
    /\ pc' = IF Head(calls) = "log" THEN "log" ELSE IF Len(calls) > 1 THEN "format" ELSE After
    /\ UNCHANGED <<job, o, run_type, n, log>>

-----------------------------------------------------------------------------
(* bogofilter, register_words and write_log_message                        *)

\* A message that is updated with is registered before its lines are made; run_type tells
\* from then on that a message was registered.
NextMessage ==
    /\ pc = "more" /\ n < Len(job.messages)
    /\ LET msg == job.messages[n + 1]
           update == job.mode = "RUN_UPDATE" /\ msg.status # "RC_UNSURE" /\ msg.sure
           lines == (IF update THEN <<"update">> ELSE <<>>)
                    \o (IF Registers THEN <<>>
                        ELSE IF job.logflag THEN <<"header", "log">> ELSE <<"header">>)
       IN /\ run_type' = run_type \cup (IF ~update THEN {}
                                       ELSE {IF msg.status = "RC_SPAM" THEN "REG_SPAM" ELSE "REG_GOOD"})
          /\ calls' = lines /\ pc' = IF lines = <<>> THEN "more" ELSE "format"
    /\ n' = n + 1
    /\ UNCHANGED <<job, o, m, msg_register, log>>

\* With -s or -n all messages are registered in the end.
EndOfInput ==
    /\ pc = "more" /\ n = Len(job.messages)
    /\ IF Registers /\ n > 0
       THEN pc' = "format" /\ calls' = IF job.logflag THEN <<"update", "log">> ELSE <<"update">>
       ELSE pc' = "done" /\ UNCHANGED calls
    /\ UNCHANGED <<job, o, run_type, n, m, msg_register, log>>

\* bogofilter: what is said of the message, "update" of its registration.
WriteLogMessage ==
    /\ pc = "log"
    /\ LET alone == Message.status = "RC_UNSURE" \/ msg_register = 0
           classified == CASE run_type = {"RUN_NORMAL"} -> [bogofilter |-> n, register |-> 0]
                           [] run_type = {"RUN_UPDATE"} ->
                                [bogofilter |-> n, register |-> IF alone THEN 0 ELSE msg_register]
                           [] OTHER -> [bogofilter |-> 0, register |-> msg_register]
       IN /\ log' = Append(log, classified)
          /\ msg_register' = IF classified.register # 0 \/ classified.bogofilter = 0 THEN 0
                             ELSE msg_register
    /\ pc' = After
    /\ UNCHANGED <<job, o, run_type, n, calls, m>>

Next == \/ SetOption \/ OptionsSet
        \/ Default \/ Flags \/ Minimum \/ Dot \/ Precision \/ Conversion \/ LineDone
        \/ NextMessage \/ EndOfInput \/ WriteLogMessage

Spec == Init /\ [][Next]_vars
-----------------------------------------------------------------------------
(* Properties                                                              *)

TypeOK == /\ pc \in {"options", "more", "format", "log", "done", "abort", "exit"}
          /\ n \in 0 .. Len(job.messages) /\ msg_register \in 0 .. n
          /\ m.at \in 1 .. Len(job.format) + Len(job.register_format) + 20

Number(digits) == FoldLeft(LAMBDA x, c : 10 * x + Digit[c], 0, digits)

\* What a directive asks for: the digits after its point are its precision.
Asked(piece) ==
    LET inner == SubSeq(Line, piece.from + 1, piece.to - 1)
        dots == {i \in DOMAIN inner : inner[i] = "."}
        dot == IF dots = {} THEN Len(inner) + 1 ELSE CHOOSE i \in dots : \A k \in dots : i <= k
    IN [prec |-> IF dot >= Len(inner) THEN -1 ELSE Number(SubSeq(inner, dot + 1, Len(inner))),
        zero |-> \E i \in 1 .. dot - 1 : inner[i] = "0"]

\* A line tells all of its format so far, in order, within the buffer, and every directive
\* as it is there: with its own precision and none of an earlier one.
LineTold ==
    pc = "format" =>
        /\ Filled <= Size
        /\ \A i \in DOMAIN m.out :
              LET p == m.out[i] IN
              /\ p.from = (IF i = 1 THEN 1 ELSE m.out[i - 1].to + 1)
              /\ p.what \notin {"text", "D", "r"} =>
                    /\ Line[p.from] = "%" /\ Line[p.to] = p.what
                    /\ p.prec = Asked(p).prec /\ p.zero = Asked(p).zero
        /\ m.state = "S_DEFAULT" => m.from = m.at

\* The tag of a class is the one that the options have named last.
TagsShown ==
    LET named(i) == {k \in DOMAIN job.options :
                        /\ job.options[k].name = "spamicity_tags"
                        /\ Len(job.options[k].tags) >= i}
        tag(i) == IF named(i) = {} THEN <<"Spam", "Ham", "Unsure">>[i]
                  ELSE job.options[CHOOSE k \in named(i) : \A l \in named(i) : l <= k].tags[i]
    IN pc = "format" => \A i \in DOMAIN m.out : m.out[i].what = "c" => m.out[i].shows = tag(Status)

Updates(i) == job.messages[i].sure /\ job.messages[i].status # "RC_UNSURE"

\* syslog gets every registration once: in an update that of each message, else one.
RegistrationsLogged ==
    job.logflag /\ pc \in {"more", "done"} =>
        \A i \in 1 .. n :
            Cardinality({k \in DOMAIN log : log[k].register = i})
            = IF (job.mode = "RUN_UPDATE" /\ Updates(i)) \/ (Registers /\ pc = "done" /\ i = n)
              THEN 1 ELSE 0

FormatSound == LineTold /\ TagsShown /\ RegistrationsLogged

\* An update logs what every message was classified as.  It fails from the first message
\* on that is registered: run_type is no longer RUN_UPDATE then (register.c:70), so that
\* passthrough.c:271 is never reached and messages that are not registered log a line of
\* nothing.
ClassificationsLogged ==
    job.logflag /\ ~Registers /\ pc \in {"more", "done"} =>
        \A i \in 1 .. n : \E k \in DOMAIN log : log[k].bogofilter = i

\* The NUL fits in the buffer.  It fails for a format with as many characters that stand
\* for themselves as the buffer has (format.c:412).
TerminatorFits == pc = "format" /\ (Room <= 0 \/ m.at > Len(Line)) => Filled < Size

\* Only d shows the distance from 1.  It fails for what comes after a d (format.c:330).
SpamicityShown ==
    pc = "format" => \A i \in DOMAIN m.out : m.out[i].what = "p" => m.out[i].shows = "spamicity"

\* A directive has a minimal length, as "%-8.6g" of -T has.  It fails: the digits are passed
\* over with the flags (format.c:270).
WidthsCount ==
    /\ pc = "format" /\ m.state = "S_CONV"
    /\ \E i \in m.from .. m.at : Line[i] = "5" /\ \A k \in m.from .. i : Line[k] # "."
    => m.min > 0
=============================================================================
