------------------------------ MODULE MCStorage ------------------------------
(***************************************************************************)
(* Four parts of what is between the programs and a wordlist on disk, of   *)
(* which a behaviour has one: the LMDB store (LmdbStore: two processes,    *)
(* two words; p1 makes up to two changes in a transaction, p2 one; a new   *)
(* value takes a page, and so may a commit), the layer above all stores    *)
(* (Datastore), the choice of a mode for Berkeley DB (TransactionMode),    *)
(* and the upgrade of a list of QDBM (QdbmUpgrade).                        *)
(***************************************************************************)
EXTENDS LmdbStore, TLC
CONSTANTS
    p1, p2, w1, w2, v1,
    Order, MsgCount, Version, Encoding, Long, Counts, Dates, Files, LayerOps,   \* of Datastore
    Lists, Dir(_), Home, Uses, Disks,                                   \* of TransactionMode
    UpgradeWord, Name, Commands, Hashes, MaxFiles                       \* of QdbmUpgrade

VARIABLES
    part,
    backend, dconf, dfile, ddisk, dview, dmeant, dasked, dpc, dmode, danswer, dops,
    use, build, mdisk, mpc, job, eTransaction, at, retry, envs, opened, alone, result,
    cmd, names, files, upc, left, had, upgraded

lmdbVars == vars
layerVars == <<backend, dconf, dfile, ddisk, dview, dmeant, dasked, dpc, dmode, danswer, dops>>
modeVars == <<use, build, mdisk, mpc, job, eTransaction, at, retry, envs, opened, alone, result>>
upgradeVars == <<cmd, names, files, upc, left, had, upgraded>>
allVars == <<part, lmdbVars, layerVars, modeVars, upgradeVars>>

-----------------------------------------------------------------------------
(* LmdbStore *)

MCProc == {p1, p2}
MCWord == {w1, w2}
MCValue == {v1}
MCCost == {<<"set", 1>>, <<"delete", 0>>, <<"commit", 0>>, <<"commit", 1>>}
MCMaxOps == p1 :> 2 @@ p2 :> 1

-----------------------------------------------------------------------------
(* Datastore *)

\* Lists of this machine and of another, with one, two and three numbers to a value.
MCKeys == <<"v", "e", "m", "w">>
MCCells(o, ns) == [i \in DOMAIN ns |-> [n |-> ns[i], order |-> o]]
MCContent(o, m, w) ==
    ("v" :> MCCells(o, <<1, 0>>)) @@ ("e" :> MCCells(o, <<1, 0>>)) @@ ("m" :> MCCells(o, m))
    @@ ("w" :> IF w = <<>> THEN Absent ELSE MCCells(o, w))
MCFiles == {[order |-> o, content |-> MCContent(o, c[1], c[2])] :
              o \in {"host", "other"}, c \in {<<<<1>>, <<>>>>, <<<<1, 2>>, <<1>>>>, <<<<1, 2, 1>>, <<2, 1, 2>>>>}}

MCLong == {"w"}
MCCounts == {1}
MCDates == {0, 1}

Layer == INSTANCE Datastore WITH
  MaxOps <- LayerOps, conf <- dconf, file <- dfile, disk <- ddisk, view <- dview,
  meant <- dmeant, asked <- dasked, pc <- dpc, mode <- dmode, answer <- danswer, ops <- dops

ASSUME LayerAssumption == Layer!DatastoreAssumption

-----------------------------------------------------------------------------
(* TransactionMode: two processes.  Lists a and b are in bogohome, c is    *)
(* not.  There is one list or several of them, options or none, and a      *)
(* probe that may fail.                                                    *)

MCLists == {"a", "b", "c"}
MCDir(l) == IF l = "c" THEN "site" ELSE "home"
Job(program, lists, access, command) ==
    [program |-> program, lists |-> lists, access |-> access, command |-> command]
Filter(lists) == {Job("bogofilter", lists, a, "none") : a \in {"read", "write"}}
Util(lists) == {Job("bogoutil", lists, "read", c) : c \in {"recover", "remove", "purgelogs", "verify"}}
Use(jobs, givens, faults) ==
    [jobs |-> jobs, givens |-> givens, forced |-> "none", faults |-> faults]
MCUses == {Use(Filter(<<"a">>) \cup Util(<<"a">>), {"default"}, FALSE),
           Use(Filter(<<"a">>), {"default", "enabled"}, FALSE),
           Use(Filter(<<"a", "b">>) \cup Filter(<<"b", "a">>), {"default"}, FALSE),
           Use(Filter(<<"a", "c">>) \cup Filter(<<"c">>), {"default", "disabled"}, FALSE),
           Use(Filter(<<"a", "c">>) \cup Filter(<<"c">>), {"default"}, TRUE),
           Use(Filter(<<"a", "c">>) \cup Util(<<"c">>), {"default"}, FALSE)}
DiskOf(regions, logs, made) == [regions |-> regions, logs |-> logs, made |-> made]
Made(m) == [l \in {"a", "b", "c"} |-> IF l \in DOMAIN m THEN m[l] ELSE "absent"]
MCDisks == {DiskOf({}, {}, Made(<<>>)),
            DiskOf({}, {}, Made("a" :> "disabled" @@ "c" :> "disabled")),
            DiskOf({"home"}, {"home"}, Made("a" :> "enabled")),
            DiskOf({}, {"home"}, Made("a" :> "enabled")),
            DiskOf({"site"}, {"site"}, Made("a" :> "disabled" @@ "c" :> "enabled"))}

Mode == INSTANCE TransactionMode WITH disk <- mdisk, pc <- mpc

ASSUME ModesAssumption == Mode!ModeAssumption

-----------------------------------------------------------------------------
(* QdbmUpgrade: with and without a backup, which may have the name of      *)
(* another file of the command.                                            *)

UpgradeTo(temp, backup) == [db |-> "db", temp |-> temp, backup |-> backup]
HashOf(words) == [format |-> "hash", words |-> words, whole |-> TRUE]
MCUpgrades == {UpgradeTo("temp", "none"), UpgradeTo("temp", "old"), UpgradeTo("temp", "db"),
               UpgradeTo("old", "old")}
MCHashes == {[names |-> ("db" :> 1 @@ "temp" :> 0 @@ "old" :> 0), files |-> <<HashOf({"u", "v"})>>],
             [names |-> ("db" :> 1 @@ "temp" :> 0 @@ "old" :> 2),
              files |-> <<HashOf({"u"}), HashOf({"u"})>>]}

MCUpgradeWord == {"u", "v", "w"}
MCName == {"db", "temp", "old"}

Upgrade == INSTANCE QdbmUpgrade WITH Word <- UpgradeWord, Disks <- Hashes, pc <- upc

ASSUME UpgradesAssumption == Upgrade!UpgradeAssumption

-----------------------------------------------------------------------------
(* The run: a part that is not taken stands still. *)

LayerInit ==
    IF part = "layer" THEN Layer!Init
    ELSE /\ backend = "none" /\ dconf = "none" /\ dfile = "none" /\ ddisk = "none"
         /\ dview = "none" /\ dmeant = "none" /\ dasked = "none" /\ dpc = "none"
         /\ dmode = "none" /\ danswer = "none" /\ dops = 0

ModeInit ==
    IF part = "mode" THEN Mode!Init
    ELSE /\ use = "none" /\ build = "none" /\ mdisk = "none" /\ mpc = "none" /\ job = "none"
         /\ eTransaction = "none" /\ at = 0 /\ retry = FALSE /\ envs = {} /\ opened = "none"
         /\ alone = "none" /\ result = "none"

UpgradeInit ==
    IF part = "upgrade" THEN Upgrade!Init
    ELSE /\ cmd = "none" /\ names = "none" /\ files = "none" /\ upc = "none" /\ left = {}
         /\ had = {} /\ upgraded = FALSE

StorageInit == /\ part \in {"lmdb", "layer", "mode", "upgrade"}
               /\ Init /\ LayerInit /\ ModeInit /\ UpgradeInit

StorageNext ==
    /\ UNCHANGED part
    /\ \/ part = "lmdb" /\ Next /\ UNCHANGED <<layerVars, modeVars, upgradeVars>>
       \/ part = "layer" /\ Layer!Next /\ UNCHANGED <<lmdbVars, modeVars, upgradeVars>>
       \/ part = "mode" /\ Mode!Next /\ UNCHANGED <<lmdbVars, layerVars, upgradeVars>>
       \/ part = "upgrade" /\ Upgrade!Next /\ UNCHANGED <<lmdbVars, layerVars, modeVars>>

StorageSpec == StorageInit /\ [][StorageNext]_allVars

-----------------------------------------------------------------------------
(* Properties of the parts; those of LmdbStore are                         *)
(* PromiseUnlessRewritten and LimitUnlessRewritten.                        *)

\* The layer above the stores (datastore.c): what is read is what was written last, a
\* walk that says it went well is whole, a file has one byte order, and a deadlock
\* leaves what was committed (Datastore).
LayerSound == part = "layer" => /\ Layer!ReadsMeant /\ Layer!WalkWhole
                                /\ Layer!OneByteOrder /\ Layer!RetryRestores

\* Without options, processes that use a list use it in the mode it was made in, a list
\* is verified while nobody has it open, and a bogofilter has one environment
\* (TransactionMode).
ModesSound == part = "mode" => Mode!OneMode /\ Mode!VerifiedAlone /\ Mode!OneEnvironment

\* A list that is upgraded is there at every moment, and what it was is kept
\* (QdbmUpgrade).
UpgradeSound == part = "upgrade" => Upgrade!AlwaysAList /\ Upgrade!OldOneKept

\* The counterexamples: see the comments in the modules.
CountsTravel == part = "layer" => Layer!CountsTravel
WalkTold == part = "layer" => Layer!WalkTold
EmptyListWalked == part = "layer" => Layer!EmptyListWalked
OnlyAtCreation == part = "mode" => Mode!OnlyAtCreation
EachAsMade == part = "mode" => Mode!EachAsMade
TraditionalMayBeApart == part = "mode" => Mode!TraditionalMayBeApart
NoAssertion == part = "mode" => Mode!NoAssertion
NothingMissed == part = "upgrade" => Upgrade!NothingMissed
ListAlwaysThere == part = "upgrade" => Upgrade!ListAlwaysThere
UpgradedIsTree == part = "upgrade" => Upgrade!UpgradedIsTree
=============================================================================
