----------------------------- MODULE QdbmUpgrade -----------------------------
(***************************************************************************)
(* bogoQDBMupgrade: a list of QDBM is copied from a hash to a B+ tree, and *)
(* the tree takes the place of the hash, of which a backup is kept.  It    *)
(* may be killed and started again, and an old bogofilter may register     *)
(* while it runs.                                                          *)
(***************************************************************************)
EXTENDS Naturals, Sequences

CONSTANTS
    Word,
    Name,           \* of files
    Commands,       \* db, temp: names; backup: a name or "none"
    Disks,          \* what is there before: names and files
    MaxFiles        \* that are ever made

NoFile == 0           \* no file of this name
Upgrading == {"copying", "closing", "backup", "linking", "renaming"}

File == [format : {"hash", "tree"}, words : SUBSET Word, whole : BOOLEAN]
HashFile == [format : {"hash"}, words : SUBSET Word, whole : {TRUE}]

\* The list to upgrade is there.
UpgradeAssumption ==
    /\ Commands \subseteq [db : Name, temp : Name, backup : Name \cup {"none"}]
    /\ \A d \in Disks :
        /\ d.files \in Seq(HashFile)
        /\ d.names \in [Name -> 0 .. Len(d.files)]
        /\ \A c \in Commands : d.names[c.db] # NoFile

VARIABLES
    cmd, names,     \* names: of each name the file, or NoFile
    files,          \* of each file: format, words, whole
    pc,
    left,           \* the keys that are not copied yet
    had,            \* the words of the list, as everybody has been told
    upgraded        \* a run has ended well

vars == <<cmd, names, files, pc, left, had, upgraded>>

Format(f) == files[f].format
Words(f) == files[f].words
Content(n) == IF names[n] = NoFile THEN {} ELSE Words(names[n])
Removed(n) == [names EXCEPT ![n] = NoFile]

Init == /\ cmd \in Commands
        /\ \E d \in Disks : names = d.names /\ files = d.files
        /\ pc = "off" /\ left = {} /\ had = Content(cmd.db) /\ upgraded = FALSE

-----------------------------------------------------------------------------
(* main, from the opening of the two lists *)

CanStart == /\ names[cmd.db] # NoFile /\ Format(names[cmd.db]) = "hash"
            /\ cmd.temp # cmd.db

\* Whatever had the name of the temporary file is removed first.
Start ==
    /\ pc = "off" /\ CanStart
    /\ Len(files) < MaxFiles
    /\ names' = [names EXCEPT ![cmd.temp] = Len(files) + 1]
    /\ files' = Append(files, [format |-> "tree", words |-> {}, whole |-> FALSE])
    /\ pc' = "copying" /\ left' = Words(names[cmd.db])
    /\ UNCHANGED <<cmd, had, upgraded>>

CopyKey ==
    /\ pc = "copying"
    /\ \E w \in left : /\ left' = left \ {w}
                       /\ files' = [files EXCEPT ![names[cmd.temp]].words = @ \cup {w}]
    /\ UNCHANGED <<cmd, names, pc, had, upgraded>>

\* A key that cannot be read or written, or an error of the lists: barf.
Fails ==
    /\ pc \in {"copying", "closing"} /\ pc' = "off" /\ names' = Removed(cmd.temp)
    /\ UNCHANGED <<cmd, files, left, had, upgraded>>

\* The old list is closed, and with that unlocked, before the new one.
CloseOld == /\ pc = "copying" /\ left = {} /\ pc' = "closing"
            /\ UNCHANGED <<cmd, names, files, left, had, upgraded>>

Done == pc' = "off" /\ upgraded' = TRUE

CloseNew ==
    /\ pc = "closing"
    /\ files' = [files EXCEPT ![names[cmd.temp]].whole = TRUE]
    /\ IF cmd.backup = "none" THEN Done ELSE pc' = "backup" /\ UNCHANGED upgraded
    /\ UNCHANGED <<cmd, names, left, had>>

RemoveBackup == /\ pc = "backup" /\ pc' = "linking" /\ names' = Removed(cmd.backup)
                /\ UNCHANGED <<cmd, files, left, had, upgraded>>

\* Mutant: the list is moved to its backup.
LinkBackupMoves ==
    /\ pc = "linking" /\ pc' = "renaming"
    /\ names' = [Removed(cmd.db) EXCEPT ![cmd.backup] = names[cmd.db]]
    /\ UNCHANGED <<cmd, files, left, had, upgraded>>

\* The list gets a second name, "taking care the file is always present".
LinkBackup ==
    /\ pc = "linking" /\ names[cmd.db] # NoFile /\ pc' = "renaming"
    /\ names' = [names EXCEPT ![cmd.backup] = names[cmd.db]]
    /\ UNCHANGED <<cmd, files, left, had, upgraded>>

\* link or rename fails, for instance because it is another file system.
LinkFails == /\ pc \in {"linking", "renaming"} /\ pc' = "off"
             /\ UNCHANGED <<cmd, names, files, left, had, upgraded>>

\* rename does nothing with two names of one file.
Rename ==
    /\ pc = "renaming" /\ names[cmd.temp] # NoFile
    /\ names' = IF names[cmd.temp] = names[cmd.db] THEN names
                ELSE [Removed(cmd.temp) EXCEPT ![cmd.db] = names[cmd.temp]]
    /\ Done /\ UNCHANGED <<cmd, files, left, had>>

Crash == /\ pc \in Upgrading /\ pc' = "off"
         /\ UNCHANGED <<cmd, names, files, left, had, upgraded>>

\* An old bogofilter registers: it finds the list unlocked, and it knows hashes only.
Registers(w) ==
    /\ pc # "copying" /\ names[cmd.db] # NoFile /\ Format(names[cmd.db]) = "hash"
    /\ files' = [files EXCEPT ![names[cmd.db]].words = @ \cup {w}]
    /\ had' = had \cup {w}
    /\ UNCHANGED <<cmd, names, pc, left, upgraded>>

Rests == pc = "off" /\ UNCHANGED vars

Next == \/ Start \/ CopyKey \/ Fails \/ CloseOld \/ CloseNew
        \/ RemoveBackup \/ LinkBackup \/ LinkFails \/ Rename
        \/ Crash \/ Rests \/ \E w \in Word : Registers(w)

Spec == Init /\ [][Next]_vars

-----------------------------------------------------------------------------
(* Properties *)

TypeOK == /\ cmd \in Commands /\ pc \in {"off"} \cup Upgrading
          /\ files \in Seq(File)
          /\ names \in [Name -> 0 .. Len(files)]
          /\ left \subseteq Word /\ had \subseteq Word /\ upgraded \in BOOLEAN

NamesApart == cmd.backup # "none" => /\ cmd.db # cmd.temp
                                    /\ cmd.backup \notin {cmd.db, cmd.temp}

\* The list is there at every moment, in one of the formats, and whole; only what an old
\* bogofilter registers meanwhile may be missing from it (the backup has that).
AlwaysAList ==
    NamesApart => /\ names[cmd.db] # NoFile /\ files[names[cmd.db]].whole
                  /\ had \subseteq Content(cmd.db) \cup
                                   (IF cmd.backup = "none" THEN {} ELSE Content(cmd.backup))

\* A list that has taken the place of the old one has the old one beside it.
OldOneKept ==
    NamesApart /\ cmd.backup # "none" /\ upgraded =>
        names[cmd.backup] # NoFile /\ Format(names[cmd.backup]) = "hash"
        /\ Content(cmd.db) \subseteq Content(cmd.backup)

\* Nothing that was registered is missing from the list.  It fails: the old list is
\* unlocked before the new one has its name (bogoQDBMupgrade.c:144).
NothingMissed == names[cmd.db] # NoFile => had \subseteq Content(cmd.db)

\* The list is there whatever names are given.  It fails where the backup has the name
\* of the list: only the temporary file is compared (bogoQDBMupgrade.c:86, :157).
ListAlwaysThere == names[cmd.db] # NoFile

\* Success means a tree.  It fails where the backup has the name of the temporary file.
UpgradedIsTree ==
    upgraded /\ cmd.backup # "none" => Format(names[cmd.db]) = "tree"
=============================================================================
