------------------------------ MODULE MCStores ------------------------------
(***************************************************************************)
(* The backends of which a build has one (configure --with-database): the  *)
(* initial state chooses it, and only the chosen component takes steps.    *)
(* LMDB and what is above the stores have a run of their own (MCStorage).  *)
(***************************************************************************)
EXTENDS SqliteStore
CONSTANTS p1, p2, p3, w1, w2, v1,
          HandleProc, Version     \* of HandleStore
VARIABLES store,
          backend, file, list, opener, hpc, hcreated, hview, hasked

MCProc == {p1, p2, p3}
MCHandleProc == {p1, p2}
MCWord == {w1, w2}
MCValue == {v1}

Handle == INSTANCE HandleStore WITH
  Proc <- HandleProc, disk <- list, pc <- hpc, created <- hcreated, view <- hview, asked <- hasked

ASSUME VersionAssumption == Handle!HandleAssumption

sqliteVars == <<table, disk, locks, pc, created, asked, saw>>
handleVars == <<backend, file, list, opener, hpc, hcreated, hview, hasked>>
allVars == <<store, sqliteVars, handleVars>>

StoresInit == /\ store \in {"sqlite", "handle"}
              /\ Init /\ Handle!Init
              /\ store # "handle" => backend = "tc"

StoresNext ==
  /\ \/ store = "sqlite" /\ Next /\ UNCHANGED handleVars
     \/ store = "handle" /\ Handle!Next /\ UNCHANGED sqliteVars
  /\ UNCHANGED store

StoresSpec == StoresInit /\ [][StoresNext]_allVars /\ (store = "sqlite" => Fairness)

\* What datastore.h promises is kept by every store with transactions
\* (SqliteStore, HandleStore).
StoresKeepThePromise == KeepsThePromise /\ Handle!KeepsThePromise

\* An SQLite transaction reads the list as it is when it commits, and the table is made
\* by one process (SqliteStore).
SqliteSound == NotOvertaken /\ OneCreator

\* The counterexamples: see the comments in HandleStore.
HandleVersionFirst == Handle!VersionFirst
HandleVersionOnce == Handle!VersionOnce
HandleWholeWithoutTxn == Handle!WholeWithoutTxn
=============================================================================
