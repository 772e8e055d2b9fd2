------------------------------- MODULE Maildir -------------------------------
(***************************************************************************)
(* Directories as message sources (dir_next_mail, bogoreader.c): the new   *)
(* and cur of a maildir, one after the other, or an MH folder, read while  *)
(* other programs deliver, move, rename and delete mail in them.           *)
(*                                                                         *)
(* readdir gives a name that has been there since opendir exactly once;    *)
(* one that came or went meanwhile may be given or not.  A directory that  *)
(* cannot be opened or read ends the program.                              *)
(***************************************************************************)
EXTENDS Naturals, Sequences

CONSTANTS
    MailId,     \* files: mails, and others that are no mails
    Contents,   \* what they may be: a subset of [MailId -> FileKinds]
    Other       \* what other programs do: a subset of MuaKinds

\* A private name begins with a dot or, in an MH folder, with no digit; a barred
\* file cannot be opened or is no regular file.
FileKinds == {"mail", "private", "barred"}
MuaKinds == {"deliver", "move", "rename", "delete"}
MaildirAssumption == Contents \subseteq [MailId -> FileKinds] /\ Other \subseteq MuaKinds

VARIABLES
    type,       \* MS_MAILDIR or MS_MH
    kind,       \* what each file is
    dirs,       \* the names in each directory: a file and whether it has a new name
    pc,
    subs,       \* directories left to read: maildir_sub
    sub,        \* the one reader_dir reads
    listed,     \* names readdir may give, of those here at opendir or since
    steady,     \* names that have been in it since opendir
    entry,      \* dirent
    known,      \* history: mails that have been there
    first,      \* history: mails that were there at the start and still are
    renamed,    \* history: mails renamed in a directory while it was read
    got         \* history: how often each mail was read

readerVars == <<pc, subs, sub, listed, steady, entry, got>>
otherVars == <<dirs, known, first, renamed>>
vars == <<type, kind, otherVars, readerVars>>

Flags == {0, 1}
Name == MailId \X Flags
Directory == {"new", "cur", "folder"}
\* Mutant: cur is read before new.
SubsCurFirst(t) == IF t = "maildir" THEN <<"cur", "new">> ELSE <<"folder">>

\* maildir_subs
Subs(t) == IF t = "maildir" THEN <<"new", "cur">> ELSE <<"folder">>
MailsIn(ds) == {m \in MailId : \E d \in Directory, f \in Flags : <<m, f>> \in ds[d]}

Init == /\ type \in {"maildir", "mh"} /\ kind \in Contents
        /\ \E at \in [MailId -> Directory \cup {"outside"}] :
             /\ \A m \in MailId : at[m] = "outside" \/ \E i \in DOMAIN Subs(type) :
                                                          at[m] = Subs(type)[i]
             /\ dirs = [d \in Directory |-> {<<m, 0>> : m \in {x \in MailId : at[x] = d}}]
        /\ pc = "next" /\ subs = Subs(type) /\ sub = "none"
        /\ listed = {} /\ steady = {} /\ entry = <<>>
        /\ first = MailsIn(dirs) /\ known = first /\ renamed = {}
        /\ got = [m \in MailId |-> 0]

-----------------------------------------------------------------------------
(* dir_next_mail                                                           *)

OpenDir == /\ pc = "next" /\ sub = "none" /\ subs # <<>>
           /\ sub' = Head(subs) /\ subs' = Tail(subs)
           /\ listed' = dirs[sub'] /\ steady' = dirs[sub']
           /\ UNCHANGED <<type, kind, otherVars, pc, entry, got>>

\* A private name is skipped.
ReadDir == /\ pc = "next" /\ sub # "none"
           /\ \E e \in listed :
                /\ listed' = listed \ {e} /\ steady' = steady \ {e}
                /\ IF kind[e[1]] = "private" THEN UNCHANGED <<pc, entry>>
                   ELSE pc' = "open" /\ entry' = e
           /\ UNCHANGED <<type, kind, otherVars, subs, sub, got>>

\* A name that is gone by now is passed over, and one that is barred.
Opened == entry \in dirs[sub] /\ kind[entry[1]] = "mail"

Fopen == /\ pc = "open"
         /\ got' = IF Opened THEN [got EXCEPT ![entry[1]] = @ + 1] ELSE got
         /\ pc' = "next" /\ entry' = <<>>
         /\ UNCHANGED <<type, kind, otherVars, subs, sub, listed, steady>>

\* opendir fails, and readdir is given NULL (an error, or a crash), or readdir
\* fails: exit(EX_ERROR).
ReadFails == /\ pc = "next" /\ (sub # "none" \/ subs # <<>>)
             /\ pc' = "exited"
             /\ UNCHANGED <<type, kind, otherVars, subs, sub, listed, steady, entry, got>>

EndOfDir == /\ pc = "next" /\ sub # "none" /\ steady = {}
            /\ sub' = "none" /\ listed' = {}
            /\ UNCHANGED <<type, kind, otherVars, pc, subs, steady, entry, got>>

NoMoreDirs == /\ pc = "next" /\ sub = "none" /\ subs = <<>>
              /\ pc' = "done"
              /\ UNCHANGED <<type, kind, otherVars, subs, sub, listed, steady, entry, got>>

-----------------------------------------------------------------------------
(* Other programs: each renames, adds or removes one name.                 *)

\* A reader that is in the directory may still be given an old name; it may
\* be given the new one.
Renamed(from, old, to, new) ==
    /\ dirs' = [dirs EXCEPT ![from] = @ \ old, ![to] = @ \cup new]
    /\ listed' = IF sub = to THEN listed \cup new ELSE listed
    /\ steady' = IF sub = from THEN steady \ old ELSE steady
    /\ UNCHANGED <<type, kind, pc, subs, sub, entry, got>>

Where == Subs(type)

Deliver == /\ "deliver" \in Other
           /\ \E m \in MailId \ known :
                /\ Renamed(Where[1], {}, Where[1], {<<m, 0>>})
                /\ known' = known \cup {m}
           /\ UNCHANGED <<first, renamed>>

Move == /\ "move" \in Other /\ type = "maildir"
        /\ \E n \in dirs["new"] : Renamed("new", {n}, "cur", {n})
        /\ UNCHANGED <<known, first, renamed>>

\* Flags are part of the name in cur, and an MH folder is packed by new numbers;
\* each mail gets one new name (bound).
Kept == IF type = "maildir" THEN "cur" ELSE "folder"

Rename == /\ "rename" \in Other
          /\ \E m \in MailId :
               /\ <<m, 0>> \in dirs[Kept]
               /\ Renamed(Kept, {<<m, 0>>}, Kept, {<<m, 1>>})
               /\ renamed' = IF sub = Kept THEN renamed \cup {m} ELSE renamed
          /\ UNCHANGED <<known, first>>

Delete == /\ "delete" \in Other
          /\ \E i \in DOMAIN Where : \E n \in dirs[Where[i]] :
               /\ Renamed(Where[i], {n}, Where[i], {})
               /\ first' = first \ {n[1]}
          /\ UNCHANGED <<known, renamed>>

Next == \/ OpenDir \/ ReadDir \/ Fopen \/ EndOfDir \/ NoMoreDirs \/ ReadFails
        \/ pc \notin {"done", "exited"} /\ (Deliver \/ Move \/ Rename \/ Delete)

Spec == Init /\ [][Next]_vars

-----------------------------------------------------------------------------
(* Properties                                                              *)

\* Every variable keeps its type.
TypeOK == /\ type \in {"maildir", "mh"} /\ pc \in {"next", "open", "done", "exited"}
          /\ kind \in [MailId -> FileKinds] /\ renamed \subseteq MailId
          /\ dirs \in [Directory -> SUBSET Name]
          /\ sub \in Directory \cup {"none"}
          /\ steady \subseteq listed /\ listed \subseteq Name
          /\ pc = "open" => entry \in Name
          /\ got \in [MailId -> Nat] /\ first \subseteq known

\* When the program has read the directories, a mail that was there at the
\* start has been read, also when a mail program moved it from new to cur in
\* between (the order of maildir_subs, bogoreader.c:155, and the continue for a
\* name that cannot be opened, 412-418).  Excepted are deleted mails, and those
\* that got a new name in cur, or in an MH folder, while that was being read.
OnlyRenamedAreMissed ==
    pc = "done" => \A m \in first : kind[m] = "mail" /\ m \notin renamed => got[m] > 0

\* Does not hold: a mail that is only flagged while cur is read is not under its
\* old name when it is opened, where "the file may have been changed by another
\* MUA" (bogoreader.c:415), and need not be given under the new one.
NoMailMissed == pc = "done" => \A m \in first : kind[m] = "mail" => got[m] > 0

\* Does not hold: a mail read in new and then moved is read again in cur.
ReadOnce == \A m \in MailId : got[m] <= 1
=============================================================================
