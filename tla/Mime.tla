-------------------------------- MODULE Mime --------------------------------
(***************************************************************************)
(* The parts of a mail (mime.c, the header rules of lexer_v3.l, the end of *)
(* a header in token.c): a stack of entities, the last of which says how   *)
(* the next line is to be decoded.  A line that may be a boundary is       *)
(* looked at when it is read and again when the lexer has matched it.      *)
(*                                                                         *)
(* Encoded words are joined over blanks and line ends: when a header ends  *)
(* in one, the scanner reads past the empty line, to the first line with   *)
(* something on it, before it matches the empty line.  That line begins    *)
(* with no encoded word here (the scanner would take the empty line for a  *)
(* blank between the two).                                                 *)
(*                                                                         *)
(* The lines come from a writer that keeps to RFC 2046; what it means by   *)
(* them is in `part'.                                                      *)
(***************************************************************************)
EXTENDS Naturals, Sequences, SequencesExt

CONSTANTS
    Boundary,   \* boundary strings, sequences of characters
    MaxDepth,   \* bound on the entities inside each other
    None

MimeAssumption ==
    /\ MaxDepth \in Nat \ {0}
    /\ Boundary \subseteq Seq(STRING) \ {<<>>} /\ None \notin Boundary

MimeTypes == {"text", "multipart", "message", "application"}
Encodings == {"7bit", "base64"}

VARIABLES
    stack,      \* the entities from mime_stack_top to msg_state
    msg_header, \* the lexer is in a header
    ahead,      \* the scanner has read the empty line and is not to match it yet
    part,       \* the writer: the entities the next line is in
    where       \* the writer: what the next line belongs to

vars == <<stack, msg_header, ahead, part, where>>

\* mime_init
Entity == [mime_type |-> "text", mime_encoding |-> "7bit", boundary |-> None,
           dont_decode |-> FALSE]

msg_state == Last(stack)
IsContainer(e) == e.mime_type \in {"multipart", "message"}

\* mime_reset
Init == /\ stack = <<Entity>> /\ msg_header = TRUE /\ ahead = FALSE
        /\ part = <<Entity>> /\ where = "header"

-----------------------------------------------------------------------------
(* Boundaries                                                              *)

\* A line behind its two dashes may be the boundary b, or b and two more
\* characters.
Matches(b, line) == /\ b # None
                    /\ Len(line) \in {Len(b), Len(b) + 2}
                    /\ SubSeq(line, 1, Len(b)) = b

IsFinal(b, line) == /\ Len(line) >= 3 /\ Len(line) = Len(b) + 2
                    /\ SubSeq(line, Len(b) + 1, Len(line)) = <<"-", "-">>

\* get_boundary_props: the containers the line may be a boundary of.
Candidates(s, line) == {d \in DOMAIN s : IsContainer(s[d]) /\ Matches(s[d].boundary, line)}

Depth(s, line) ==
    CHOOSE d \in Candidates(s, line) : \A e \in Candidates(s, line) : e <= d

\* The line of a boundary cannot be taken for that of another (RFC 2046, 5.1.2).
BoundariesApart ==
    \A b, c \in Boundary :
        b # c => ~Matches(b, c) /\ ~Matches(b, c \o <<"-", "-">>)

\* Mutant: an ended part is not taken from the stack.
GotBoundaryKeeping(s, line) ==
    IF Candidates(s, line) = {} THEN s
    ELSE IF IsFinal(s[Depth(s, line)].boundary, line) THEN s
    ELSE Append(s, Entity)

\* got_mime_boundary: the entities below the container end; the next part
\* begins unless it was the last.
GotBoundary(s, line) ==
    IF Candidates(s, line) = {} THEN s
    ELSE LET d == Depth(s, line)
             kept == SubSeq(s, 1, d)
         IN IF IsFinal(s[d].boundary, line) THEN kept ELSE Append(kept, Entity)

-----------------------------------------------------------------------------
(* The end of a header                                                     *)

\* EOH in token.c: the header of the message in a message part follows at once, in
\* an entity of its own.
HeaderEnded(s) == IF Last(s).mime_type = "message" THEN Append(s, Entity) ELSE s

\* The rule for the empty line, and EOH.
EndOfHeader ==
    IF ~msg_header THEN UNCHANGED <<stack, msg_header>>
    ELSE /\ stack' = HeaderEnded(stack)
         /\ msg_header' = (msg_state.mime_type = "message")

\* Where the line that is read next is matched: behind the empty line, if that has
\* been read only.
Entered == IF ahead THEN HeaderEnded(stack) ELSE stack
InHeader == IF ahead THEN msg_state.mime_type = "message" ELSE msg_header
Current == Last(Entered)

\* yy_get_new_line, and the rule for a line that begins with two dashes; an empty
\* line that was read before is matched between the two.
SeeBoundary(line) ==
    LET read == GotBoundary(stack, line)
        matched == IF ahead THEN HeaderEnded(read) ELSE read
    IN /\ stack' = GotBoundary(matched, line)
       /\ msg_header' = (Candidates(matched, line) # {}
                          \/ IF ahead THEN Last(read).mime_type = "message" ELSE msg_header)
       /\ ahead' = FALSE

-----------------------------------------------------------------------------
(* The lines of the writer, each with what the program does.               *)

ThePart == Last(part)
SetLast(s, e) == Append(Front(s), e)

\* What mime_type makes of a type, and mime_boundary_set of a boundary; the last
\* Content-Type wins, but no other type takes mime_dont_decode back.
Typed(e, t, b) == [e EXCEPT !.mime_type = t,
                            !.boundary = IF b = None THEN e.boundary ELSE b,
                            !.dont_decode = e.dont_decode \/ t = "application"]

\* A header of the entity: Content-Type, once, with the boundary if there is one.
ContentType(t, b) ==
    /\ where = "header" /\ ThePart.mime_type = "text"
    /\ t # "text" /\ (t = "message" => Len(part) < MaxDepth)
    /\ IF t = "multipart" THEN b \in Boundary /\ \A i \in DOMAIN part : part[i].boundary # b
       ELSE b = None
    /\ part' = SetLast(part, [ThePart EXCEPT !.mime_type = t, !.boundary = b,
                                             !.dont_decode = t = "application"])
    /\ stack' = IF InHeader THEN SetLast(Entered, Typed(Current, t, b)) ELSE Entered
    /\ msg_header' = InHeader /\ ahead' = FALSE /\ where' = where

\* Content-Transfer-Encoding; a container has none.
TransferEncoding(e) ==
    /\ where = "header" /\ ~IsContainer(ThePart)
    /\ part' = SetLast(part, [ThePart EXCEPT !.mime_encoding = e])
    /\ stack' = IF InHeader THEN SetLast(Entered, [Current EXCEPT !.mime_encoding = e])
                ELSE Entered
    /\ msg_header' = InHeader /\ ahead' = FALSE /\ where' = where

\* The empty line behind a header, the last line of which ends in an encoded word (or
\* in the word before a queue id) or not.  The message in a message part has a header.
EmptyLine(word) ==
    /\ where = "header" /\ ~ahead
    /\ ahead' = (word /\ msg_header)
    /\ IF ahead' THEN UNCHANGED <<stack, msg_header>> ELSE EndOfHeader
    /\ IF ThePart.mime_type = "message"
          THEN part' = Append(part, Entity) /\ where' = "header"
          ELSE /\ part' = part
               /\ where' = IF ThePart.mime_type = "multipart" THEN "preamble" ELSE "body"

\* Multipart entities that are not closed; a part that follows ends the ones
\* inside.
OpenParts == {d \in DOMAIN part : part[d].mime_type = "multipart" /\ part[d].boundary # None}

NextPart(d) ==
    /\ where # "header" /\ d \in OpenParts /\ d < MaxDepth
    /\ SeeBoundary(part[d].boundary)
    /\ part' = Append(SubSeq(part, 1, d), Entity)
    /\ where' = "header"

\* The last boundary closes the entity: the writer does not use it again.
LastPart(d) ==
    /\ where # "header" /\ d \in OpenParts
    /\ SeeBoundary(part[d].boundary \o <<"-", "-">>)
    /\ part' = SetLast(SubSeq(part, 1, d), [part[d] EXCEPT !.boundary = None])
    /\ where' = "epilogue"

\* An empty line in a body, a preamble or an epilogue; the scanner reads on if it has
\* read the one before.
EmptyBodyLine == /\ where # "header"
                 /\ IF ahead THEN UNCHANGED <<stack, msg_header>> ELSE EndOfHeader
                 /\ UNCHANGED <<ahead, part, where>>

\* A line of text, with which the scanner stops reading ahead.
TextLine == /\ where # "header" /\ ahead
            /\ stack' = Entered /\ msg_header' = InHeader /\ ahead' = FALSE
            /\ UNCHANGED <<part, where>>

\* lexer_init starts the next mail anew.
NextMail == /\ where # "header"
            /\ stack' = <<Entity>> /\ msg_header' = TRUE /\ ahead' = FALSE
            /\ part' = <<Entity>> /\ where' = "header"

Next == \/ \E t \in MimeTypes, b \in Boundary \cup {None} : ContentType(t, b)
        \/ \E e \in Encodings : TransferEncoding(e)
        \/ \E word \in BOOLEAN : EmptyLine(word)
        \/ EmptyBodyLine \/ TextLine \/ NextMail
        \/ \E d \in 1 .. MaxDepth : NextPart(d) \/ LastPart(d)

Spec == Init /\ [][Next]_vars

-----------------------------------------------------------------------------
(* Properties                                                              *)

Entities == [mime_type : MimeTypes, mime_encoding : Encodings,
             boundary : Boundary \cup {None}, dont_decode : BOOLEAN]

\* Every variable keeps its type.
TypeOK == /\ stack \in Seq(Entities) /\ stack # <<>>
          /\ msg_header \in BOOLEAN /\ ahead \in BOOLEAN
          /\ part \in Seq(Entities) /\ Len(part) <= MaxDepth
          /\ where \in {"header", "preamble", "body", "epilogue"}

Declared(e) == [e EXCEPT !.boundary = None]

ReadAsDeclared ==
    where \in {"header", "body", "preamble"} =>
        /\ Declared(msg_state) = Declared(ThePart)
        /\ msg_header = (where = "header")
        /\ Len(stack) = Len(part)

\* Every line is read with the type and the encoding its own part declares, as a
\* header line exactly in a header, and inside as many entities as it is, but for the
\* line that is read while the empty line before it is not matched; what is matched
\* then leaves the entities as they should be (got_mime_boundary, mime.c:352,
\* mime_add_child, token.c:228, get_decoded_line, lexer.c:199).
DecodedAsDeclared == ~ahead => ReadAsDeclared

\* Does not hold: the first line of a body is read as one of the header, not decoded,
\* if the header ends in an encoded word (lexer_v3.l:196, against the warning at lexer_v3.l:265).
FirstLineDecoded == ReadAsDeclared

\* Does not hold: what follows the last boundary of a multipart is read as a
\* header.
EpilogueIsBody == where = "epilogue" => ~msg_header
=============================================================================
