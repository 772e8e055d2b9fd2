# A verification project for bogofilter

bogofilter classifies mail as spam or good with word lists that it keeps in a
database. This directory holds TLA+ models of its programs: of the processes that
share a database, their transactions, retries, crashes and recovery; of the six
database backends; of the way of a message from its source to the tokens and back
to the output; and of the counts, scores and parameters that are computed from
the tokens. The models are translated from the C code in `src/bogofilter/src`;
file names below are relative to it.

## 1. Inventory

| component | code | state it keeps | operations | what makes it correct |
|---|---|---|---|---|
| crash detector | `db_lock.c`, `datastore_db_trans.c` (`dbx_init`, `dbx_recover`, `dbx_cleanup_lite`, `dbe_recover_open`) | cells of `lockfile-p` and their fcntl locks, the lock on `lockfile-d`, the state of the environment | scan for zombies, claim a cell, open, recover, alarm, close, bogoutil commands | a crash is never forgotten, recovery is alone, live processes are not taken for dead ones |
| choice of a mode | `datastore_db.c` (`dsm_init`, `probe_txn`), `datastore_db_trad.c`, `datastore_db_trans.c` | `eTransaction`, files of the environment, locks | probe, open, verify, commands on an environment | processes on one list use the same mode, and so the same locks |
| wordlist access | `datastore_db.c` (`db_open`, `db_lock`), `wordlists.c` | file and lock of each list, handles, environments, encoding and version keys | create or find, lock, begin, read, write, commit, abort, close | one writer or many readers, all lists of a run together, a new list gets its version and encoding |
| store interface | `datastore.c` over the stores | byte order, handle, transaction | open, read, write, delete, walk, counts, version, encoding | what is read is what was written last, in every byte order |
| LMDB store | `datastore_lmdb.c` | transaction, cache of its writes, size of the map | put, delete, get, grow and replay, commit, abort | growing the map in the middle of a transaction changes nothing |
| SQLite store | `datastore_sqlite.c` | statements, transaction | open and create, get, put, delete, begin, commit | a transaction is applied to what it has read; a commit ends |
| other stores | `datastore_tc.c`, `datastore_kc.c`, `datastore_qdbm.c` | one handle | get, put, delete, transactions | all of a transaction or nothing |
| QDBM upgrade | `bogoQDBMupgrade.c` | names of files | copy, back up, rename | there is a list at every moment |
| registration | `register.c` | counts of tokens and of messages | read, change, write each token; retry after an abort | every registration once, whole, or not at all |
| main program | `bogofilter.c`, `bogomain.c`, `bf_exit.c`, `sighandler.c` | words so far, message count, the die flag | read, classify, update, register | every message is counted once |
| token lookup | `score.c` (`lookup`), `wordlists_base.c`, `wordlists.c` | lists in order of precedence, counts of each token | insert a list, look up, start over | a lookup does not depend on aborted attempts |
| token table | `wordhash.c`, `listsort.c` | hash chains and iteration list | insert, search, merge, sort, iterate | each token once, counts add up, iteration visits all |
| score | `score.c`, `prob.c`, `rstats.c` | tokens in use, products, statistics | choose, multiply, print | a score is that of the tokens that say most |
| statistics | `robx.c`, `bogohist.c`, `bogoutil.c` | sums over a walk | `-w -p -H -r -R` | they are those of the whole list |
| token transactions of bogoutil | `transaction.c` | queue of pending writes and deletes | read, write, delete, commit, rollback | reads see the own writes, commit equals the writes in order |
| maintenance | `maint.c` | thresholds, the list under iteration | discard, replace non-ascii, change encoding, upgrade | no count is lost or doubled, special keys survive |
| load and dump | `bogoutil.c` | the lines of a dump | dump, load | a dump loads to the same list |
| message sources | `bogoreader.c`, `fgetsl.c`, `buff.c` | mail store, open file, position, statics of the readers | next store, next message, next line, close | every message of every source once, none missed |
| mail structure | `mime.c`, rules of `lexer_v3.l` | stack of MIME entities | push, pop, boundary match | every line is decoded as its part declares |
| decoding | `base64.c`, `qp.c`, `uudecode.c`, `lexer.c`, `iconvert.c`, `convert_unicode.c` | buffers | decode in place, convert, hand to the scanner | nothing is written before it is read, the text is whole |
| tokens | `token.c`, `lexer_v3.l`, `collect.c` | tag, ring of the last tokens, pending subnets, ids | next token, tags, multi-word tokens | combinations are of one run of tokens of one message |
| output | `passthrough.c`, `format.c`, `textblock.c` | saved lines of a message, formats | save, rewrite header, write, log | the message is passed on unchanged but for its header; lines fit |
| configuration | `bogoconfig.c`, `configfile.c`, `paths.c`, the arguments of the programs | options, list of word lists, directories | parse, read files, find directories | the last source that has a say wins; one thing is done |
| tuning | `bogotune.c`, `tunelist.c` | training table, message lists, grid, results | read, divide, scan, choose, recommend | scored with what it was trained with; a choice that is good all around |

How they interact: the main program opens the word lists (wordlist access), for
each message collects tokens (message sources, mail structure, decoding, tokens)
in a token table, looks them up and scores them, registers them (registration),
and writes the message (output). Lookup and registration go through
`datastore.c` to one of the stores; the transactional Berkeley DB store opens its
environment under the crash detector. bogoutil uses maintenance, load and dump
through token transactions on the same stores; bogotune reads messages and word
lists and writes nothing but its advice. The processes share nothing but the
files: the database, `lockfile-p` and `lockfile-d`, and mail directories. There
are no threads; the only callbacks are the SIGALRM handler of the crash detector,
the handler that sets `fDie`, and `ds_foreach` hooks.

Hard behaviours: two processes between any two system calls; a crash between
them; locks that are tried and not awaited; transactions aborted by the store and
started over; a database map that fills up in mid-transaction; a decision that
each process makes for itself; values read before a wait and used after it;
structures that are walked while they change; statics that outlive the message or
the file they are about; buffers that fill up in the middle of a line.

## 2. Modules

| module | extends | models | checked by |
|---|---|---|---|
| `CrashDetector` | | `db_lock.c`, `dbx_init`, `dbx_recover`, `dbx_cleanup_lite`, `dbe_recover_open` | `crash`, `crash_live`, `crash_lockless` |
| `CrashDetectorProofs` | `CrashDetector` | | |
| `TokenCounts` | | what `register_words` does to a pair of counts, and what a job is | through its users |
| `SerialRegistration` | `TokenCounts` | abstract: a registration happens at one instant | `register`, as a property |
| `Registration` | `TokenCounts` | `register_words`, `db_open` and its lock, transactions, crashes | `register` |
| `RegistrationProofs` | `Registration` | | |
| `EnvironmentList` | | word lists in several directories on one `db_lock.c` | `commands` |
| `Configuration` | | options of bogofilter and bogoutil from four sources | `commands` |
| `Arguments` | | arguments of bogoutil, bogotune, bogolexer; paths of the lists | `commands` |
| `MessageLoop` | `TokenCounts` | the loop over the messages of one process | `commands`, `loop_update` |
| `TransactionQueue` | | the queue of `transaction.c` as operators | through its users |
| `DirectStore` | `TransactionQueue` | abstract: writes are read at once | `commands`, as a property |
| `TokenTransaction` | `TransactionQueue` | `transaction.c` | `commands` |
| `Maintenance` | `TransactionQueue` | `maint.c` on the queue | `commands`, `maint_chain` |
| `LoadDump` | | bogoutil `-d`, `-l` | `commands` |
| `Lookup` | | `init_wordlist` and `lookup` with its aborts | `scoring`, `lookup_recount` |
| `LookupProofs` | `Lookup`, `Tuning`, `SumProofs` | about `Lookup` and `Tuning` | |
| `WordHash` | | `wordhash.c`, `listsort.c` | `scoring` |
| `Score` | | `score.c`, `rstats.c` | `scoring` |
| `Statistics` | | `robx.c`, `bogohist.c`, bogoutil `-w -p` | `scoring` |
| `Format` | | `format.c`, the log lines of `passthrough.c` | `scoring` |
| `Tuning` | | how bogotune reads and divides its messages | `scoring` |
| `ParameterScan` | | the scans of bogotune and its advice | `scoring` |
| `AtomicStore` | | abstract: what `datastore.h` promises of transactions | `storage`, `stores`, as a property |
| `LmdbStore` | | `datastore_lmdb.c` | `storage` |
| `Datastore` | | `datastore.c` over the answers of every store | `storage` |
| `TransactionMode` | | how Berkeley DB is used with or without transactions | `storage` |
| `QdbmUpgrade` | | `bogoQDBMupgrade.c` | `storage` |
| `SqliteStore` | | `datastore_sqlite.c` | `stores` |
| `HandleStore` | | `datastore_tc.c`, `datastore_kc.c`, `datastore_qdbm.c` | `stores` |
| `StoreProofs` | `MCStores` | about `SqliteStore` and `HandleStore` | |
| `StorageProofs` | `MCStorage` | about `LmdbStore`, `Datastore`, `TransactionMode`, `QdbmUpgrade` | |
| `MailText` | | the readers of `bogoreader.c`, and a mail from its file to the output of `-p` | `input` |
| `Maildir` | | maildir and MH directories | `input` |
| `Mime` | | `mime.c` and the header rules of `lexer_v3.l` | `input` |
| `Decoding` | | `base64.c`, `qp.c`, `uudecode.c` | `input` |
| `DecodedLine` | | `lexer.c`, `iconvert.c`: what the scanner gets, and `text_decode` as a function of a token | `input` |
| `TokenStream` | | `get_token` and its tags | `input` |
| `CommandsProofs` | `MCCommands`, `SumProofs` | about `TokenTransaction`, `EnvironmentList`, `MessageLoop`, `Maintenance`, `LoadDump`, `Configuration` | |
| `InputProofs` | `MCInput` | about `MailText`, `Maildir`, `Mime`, `TokenStream` | |
| `SumProofs` | | lemmas: sums over finite sets | |
| `MCCommands`, `MCScoring`, `MCStorage`, `MCStores`, `MCInput` | one of their components, and INSTANCE of the others | several components in one run | |

A composite run takes one component in each behaviour: its variable `component`
(`part`, `store`) is chosen in the initial state and never changes, the variables
of the others stand still. The components do not interact there; sharing a run
keeps what is asked of a group of programs together.

The composition proper is by assumption and guarantee. `CrashDetector` shows that
recovery is alone and that a crash is never forgotten; `Registration` relies on
that (a crash is followed by a rollback before anybody else reads) and shows
that concurrent registrations are serial; `MessageLoop` and `Maintenance` rely
on *that* and give a process the list to itself. `LmdbStore`, `SqliteStore` and
`HandleStore` show the promise of `AtomicStore`, which `Datastore` takes for one
process. `Mime` decides how a line is decoded, `Decoding` how that is done,
`DecodedLine` how the scanner gets it, `TokenStream` what becomes of what the
scanner finds, `WordHash` how that is collected, `Lookup` what is known of it, and
`Score` what follows. The first assumption is not met in full: a process may open
the environment unrecovered for a moment (`OpenedWhole`), and the crash of a
bogoutil command is not noticed (`CrashDetected`); what Berkeley DB does then is
outside of the models. `EnvironmentList` is `CrashDetector` with coarser steps and
more directories. `SerialRegistration` and `MessageLoop` apply the same operators
of `TokenCounts`; `TokenTransaction` and `Maintenance` those of `TransactionQueue`.

What is left for later, most important first:

1. `Registration` over several lists: the retry of `open_wordlists` when one of
   several lists is busy, with the locks of every list.
2. A store without transactions below `TokenTransaction`: a crash in the middle of
   `ta_flush`.
3. Degeneration of tokens (`wordhash_degen`), several conversions in one run of
   `bogoutil -m`.
4. Theorems: the options that win (`CommandLineWins`, a part of `OptionsSound`), the mail that
   is written (`MailWritten`).

## 3. What each module says

### CrashDetector

One process slot is one run of bogofilter or bogoutil after another. `cell` and
`celllock` are `lockfile-p`: its bytes and their fcntl locks; `glock` is the lock
on `lockfile-d`; `lockpos` is the static variable of `db_lock.c`; `pc` is the
place in `dbx_init`, `dbx_recover`, `check_zombies`, `set_lock` and `clear_lock`.
`torn` is what Berkeley DB asks of its users: when a process dies with the
environment open, the environment needs recovery. One step is one system call
that another process can observe.

| actions | code |
|---|---|
| `ReadCell`, `TestCell` | `check_zombies`, `check_celllock` |
| `Start`, `InitClean`, `InitZombie` | `dbx_init` up to its `needs_recovery` |
| `LoopClean`, `LoopZombie`, `LockExclusive`, `RecheckClean`, `RecheckZombie` | the loop of `dbx_recover` and the test after it |
| `RunRecovery`, `ClearLockfile`, `CloseRecovered` | recovery, `clear_lockfile`, `dbx_cleanup_lite` |
| `LockShared`, `SetLockRead`, `SetLockTry`, `SetLockMark`, `SetLockFreshZombie`, `SetLockFull` | the shared lock of `dbx_init` (`db_try_glock`), `set_lock` |
| `OpenEnv`, `Alarm`, `AlarmClean`, `AlarmZombie` | the open, the SIGALRM handler |
| `CloseEnv`, `ClearCell`, `ReleaseCell` | `dbx_cleanup`, `clear_lock`, `close_lockfile` |
| `UtilStart`, `UtilLock`, `UtilRecover`, `UtilClose` | `dbe_recover_open` and the commands of bogoutil |
| `Crash` | kill -9, or a power failure of one process |

Abstractions. The alarm rings in `running` only, because the code between
arming it and the end of the open takes far less than its 30 seconds. The
registration of the handler and `locked = 1` are one step with the write of
the mark. Processes that start find `lockfile-p` with `NCells` cells: the race of two
processes that create it is not modelled. `F_SETLKW` is granted to any process
that could have it, so a process may be passed over for ever: nothing is
claimed about waiting for a lock.

### Registration

`db` holds the counts as every process reads them: the environment has no lock
manager, so a write is seen at once and only the fcntl lock on the file keeps
others out. `undo` is the log. `tries` is `retrycount`. A job is the
arguments of `register_words`; a process that classifies has a job without
counts to change, and reads the same keys.

| actions | code |
|---|---|
| `OpenExisting`, `OpenMissing`, `Create`, `TryLock` | `db_open`, `db_lock` |
| `WriteMeta` | `ds_open`: version and encoding |
| `Begin`, `GiveUp` | `begin_wordlist` and the retry loop of `register_words` |
| `ReadKey`, `WriteKey`, `AbortRetry` | `ds_read`, `ds_write`, `DS_ABORT_RETRY` |
| `Commit`, `CommitFails`, `Close`, `Terminated` | `close_wordlists`, `bogomain` |
| `Crash` | a crash, and the recovery `CrashDetector` shows to follow |

Abstractions. The two retry loops of a busy lock (in `db_open` and in
`open_wordlists`) are one return to `open`. `EEXIST` is followed by one more
attempt in the code; the file is never deleted, so the second attempt finds it.
Version and encoding are written in one step, in the transaction of their own
that `ds_open` gives them. The result of `bfpath_check_mode` is ignored by the
code and left out.

### EnvironmentList

`envs` is `envlisthead`, `lockfd`, `lockpos`, `locked` and `globalfd` are the
static variables that all environments of a process share. A scan is one step,
and so is all of `dbx_init` once its lock is granted. That a list is busy is a
free choice (`ListBusy`). `clear_lock` with a `lockpos` behind the table writes
behind its end, where nobody looks: that write is left out.

### TransactionMode

A `Use` is what a site does: the commands that run, the option they may have, whether
the probe can fail. `disk` has the files of the environment in each directory and the
mode each list was made in. `Decide` is `dsm_init` with `probe_txn`, `CheckPath` the
restriction to one directory, the opens and their locks follow in `at`. A process
waits where the code waits and gives up where it gives up; the locks of the two
modes are on different files, which is why it matters that all agree.

### The stores

`AtomicStore` is the promise of `datastore.h`: between begin and commit the values a
process sets reach the store together or not at all. `LmdbStore` is `datastore_lmdb.c`:
the map and its size, the transaction with its cache, a full map at any operation, growth
by this process or seen from another one, the replay, kills. The cache is a stack of chunks,
and the replay plays them from its bottom one entry a step (`InOrder`, `PlayEntry`), so that it may
fail or be killed at each. `asked` is a history variable, what the caller has asked for. `db_delete`
caches the key it finds behind the pointer of `MDB_SET_KEY` after `mdb_cursor_del`
(`datastore_lmdb.c:910`, `:916`, `:929`). At the first change of a transaction that pointer is into the old copy of
the page, and the key is the one asked for; later it is into the page that was changed, and
may be any word of `Garbage`, which is every word in the run. The history `keys` says of each cache whether it has such a
key ("rewritten") and whether it was replayed with one ("replayed"). What the library
does (one writer, a snapshot for readers, which operation needs a page) is external. `SqliteStore`
has the locks of the library (shared, reserved, pending, exclusive) as its documentation
gives them and the code's answer to each result. `HandleStore` is three stores that lock
the whole file.

`Datastore` is one process above any of six stores. A value is a sequence of numbers in
a byte order, as the file has it: one number in old lists, two or three otherwise.
`meant` is what a reader of `datastore.h` would expect the list to hold. A walk visits
the keys in the order of the store (`Order`). What a store
answers where it may fail (`Foreach`, deadlocks) is a choice among the answers its code
has.

`QdbmUpgrade` has names and files (two names may be links to one file), so that `link`,
`rename` and `remove` mean what they mean, and a bogofilter of the old format that may
register at any moment.

### Configuration and Arguments

An option is a name and a value, and one stands for all that the code treats alike;
`todo` is what remains of the command line or the file that is read. In `Configuration`
the pass over the command line (`first`), the two files, the second pass (`last`) and
`validate_args` follow each other as in `process_parameters`. `Arguments` is the same for
bogoutil, bogotune and bogolexer, which read the files after their command line and
share the option table, and it has `paths.c` for the file of a list: a path is a sequence
of names, `dirs` and `files` are the file system.

### MessageLoop

`w` and `words` are the two hash tables of `bogofilter.c`, `count` is
`words->count`, which is not the number of its tokens (see below), `disk` is
the list as committed, `db` as the process sees it. `history` is what really
happened: one entry for each message registered. A mode is a combination of
`-s -n -S -N -u -p -l` that `validate_args` accepts. The classifier may give any
answer, the signal may come between any two messages.

### Lookup, WordHash, Score, Statistics, Format

`Lookup`: `init_wordlist` inserts a configuration line in the ordered `word_lists`
(`InitWordlist`); `ReadList` is one round of the loop of `lookup` on one list;
`Aborted` is `DS_ABORT_RETRY`, the only moment at which another process can
write to a list, so `content` may change there. The spam and the good count
take the same way through the code and are one number.

`WordHash`: nodes are numbered as `nmalloc` hands them out; `link` holds the
`iter_next` of all nodes while `listsort` changes them, one comparison in a step.

`Score`: a probability is an integer, 0 for even odds; the logarithms of the two
products are sums. That is enough for what is asked: which tokens are used, whether
the exponent that is split off is added again, what is printed. The chi-square function
between the products and the score is monotonous and left out: `spamicity` is the
difference of the logarithms.

`Statistics`: a walk over a list, which may fail anywhere; sums are integers, scaled.
`Format`: a format is a sequence of characters by class, a line a sequence of items with
their length, so that the end of the buffer is met in the middle of each kind of item.

### TokenTransaction, Maintenance, LoadDump

`TransactionQueue` has the queue: a read takes the last item for its key, a
flush applies the first. `TokenTransaction` adds the calls of bogoutil, and
implements `DirectStore`. `asked` remembers the last call, so that a write that
is lost is not a stutter. `Maintenance` walks through the list in the order of
its keys (`Walk`: one call of `maintain_hook`), appends what it decides to the
queue, and flushes it. The conversions are functions between the tokens of the
instance, with their real collisions (two letters become the same `?`; a token
of latin-1 becomes one that is there in utf-8 already). The walk does not see
its own writes, because they are queued; the traditional store could show them
only during the flush, when the walk is over. Two options at once that both replace a
token (`-n` with `--unicode`: the second one deletes a token the first has deleted, the
flush fails and bogoutil ends with EX_ERROR), and a crash in the flush of a store
without transactions are left out.

`LoadDump`: `text` is the pipe between `bogoutil -d` and `bogoutil -l`; either may fail
at any line, and the one that loads cannot tell.

### Tuning and ParameterScan

`Tuning` is what becomes of the messages: read (mails and message count files), converted
to pointers to counts in the training table, divided, turned into copies of the counts.
`ParameterScan` is what follows when they are scored: the target, the coarse and the fine
grid with the arithmetic of their ranges, the scan, the choice, the cutoffs. What the
messages score with given parameters is a free choice of `Scores`. A score is a level, and the
numbers of the source lie between them.

### MailText, Maildir, Mime

A line is its kind (a separator of a format, a header line that matters, a blank line, text)
and whether its newline is there. `MailText` has the four readers and the statics they
share, the lexer's `yy_get_new_line`, which drops an old `X-Bogosity`, the text
block, and `write_message`. `Maildir` has two directories that other programs change between any two
calls of `readdir`: they deliver, move from new to cur, delete, and give new names (flags in cur, numbers in an MH folder).
Private names are skipped, files that cannot be opened passed over, and a directory that cannot be opened or read
ends the program (`ReadFails`). In `Mime` the lines come from a writer that keeps to RFC 2046;
`part` is what it means by them, `stack` what `mime.c` makes of them. The patterns for an encoded word and for a
queue id go on over line ends (`lexer_v3.l:196`, `:262`): a header that ends in an encoded word makes the scanner read
past the empty line before it matches it. `ahead` is that state; the line behind is read in it, as a header line (`TextLine`),
a boundary is looked at before the header has ended and again after it (`SeeBoundary`).

### Decoding, DecodedLine, TokenStream

`Decoding` decodes a line in place, one quartet, escape or triple in a step: `s` and `d` are the
two pointers. `DecodedLine` has characters by class and a buffer of the scanner that is
eight characters long; `TextDecode` is `text_decode`, a function of the items of a token, which
`WordsJoined` compares with what the text should be. In `TokenStream` a token is
named for the place where it was found, so that a combination says what it is made of; the lexer
may find any token, any header line, the end of a header and a boundary.

## 4. The runs

| run | instance | states | question and answer |
|---|---|---|---|
| `crash` | 3 processes, 2 cells, symmetric | 1.6 million | Is a crash ever forgotten, a live process left without its cell, recovery disturbed? No. |
| `crash_live` | 2 processes, 2 cells | 74 thousand | Is a torn environment left, and an orphan cell cleared? Yes, under `Fairness`. |
| `register` | a `-s`, a `-Sn` and a classifying process, 2 tokens, counts modulo 4, 2 attempts | 277 thousand | Is every interleaving a serial one, with clean reads? Does everyone end? Yes. |
| `commands` | seven components, see below | 521 thousand | Is one directory safe, does the right option win, is every message counted once, no count lost by maintenance, queue or dump? Yes. |
| `scoring` | seven components | 2.1 million | Are counts the sums of the lists asked, tables whole, the right tokens used, lines within their buffer, bogotune's choice sound? Yes. |
| `storage` | LMDB, the store interface, the mode, the QDBM upgrade | 693 thousand | Does LMDB implement `AtomicStore` and give up at its limit only, but for replays with a rewritten key; is what is read what was written; one mode for all; always a list? Yes. |
| `stores` | SQLite with 3 processes, the others with 2 | 56 thousand | Do they implement `AtomicStore`, and does an SQLite commit end? Yes. |
| `input` | six components and a function | 295 thousand | Does every line get to its mail, its decoder, the scanner, the right tokens, and the output? Yes, but for mails that are renamed under the reader and for the line behind a header that ends in an encoded word. |
| `crash_lockless`, `loop_update`, `lookup_recount`, `maint_chain` | as above | | the disagreements of section 6 |

Why these bounds are enough to see the interesting cases:

- `crash`: two cells and three processes give a full table (`SetLockFull`), a zombie next to a
  live process, and a recovery raced by a start and by a second recovery.
- `register`: two attempts and an abort at any key give a partial write that is rolled back and
  done again; counts modulo 4 wrap and clamp at zero.
- `commands`: three processes over two directories with two cells each; sequences of two or three
  options with one or two in each of three files, in families of options that touch each other
  (`MCCommands`); every mode with up to three messages, which gives a classified spam, a good and
  an unsure one (no count reaches 16, so wrapping is left to `register`); a queue of three items,
  two for one key with another between them; nine keys in maintenance, with every collision of the
  conversions; dumps of seven keys into a new list and an old one, cut at every line.
- `scoring`: three lists give an ignore list before, between and after regular lists; tables of up
  to four tokens in two bins give chains and two rounds of merging; two messages of up to four
  tokens at, above and below even odds with every kind of limit; formats of three directives,
  and ones that end at the last bytes of the buffer; grids with a middle in two directions and
  with an edge only; up to ten messages of each kind, around the least bogotune asks for.
- `storage`, `stores`: transactions of one and two changes on two words; a map of one to three
  units, where each operation and the commit may be the one that fills it; the environment's files
  and the modes of three lists in combinations that earlier runs leave; two
  backups and names that collide.
- `input`: files of up to four lines of every kind, in one to three stores, the last line with or without
  its newline; directories of a mail and another file, which is a mail, a private name or one that cannot be opened; four levels of parts with boundaries that end inside each other;
  lines of three octets of the values that matter; texts longer than two buffers;
  two encoded words; two messages of three tokens on three lines with up to three combined.

Deadlock is checked where a system must not stop (`crash`, `crash_live`, `storage`, `stores`); the other
instances end when all their processes have ended.

Symmetry is used in `crash` only, which has no liveness property: processes are
interchangeable, cells are not (`set_lock` takes the first one that is free).

Fairness. `CrashDetector!Fairness`: a process that runs takes its next step
(the scheduler of the system), its alarm comes again as long as the environment
is open (the handler arms it again), new processes are started (mail keeps
arriving), and crashes and commands of the administrator come to an end, which
is what "eventually repaired" presupposes. `Registration!FairSpec`: weak
fairness of each process; a process that finds the list locked opens it again
and may lose the race each time, but only as long as another process makes
progress, and those are finite in number. `SqliteStore!Fairness`: a process that has
taken a lock goes on to the end of its transaction; a statement told to wait is
tried again and again. `TextEnds`: a single process that runs. Strong fairness of a
lock is not assumed and not needed.

Every property of a passing run has a mutant in `PROJECT.json`: a change to one
modelled function that the property finds. Mutants stand in the modules next to
what they change, marked `Mutant:`. A property of a composite run may be the
conjunction of several of its components'; the comments name them.

Each module has a type invariant `TypeOK`. Those of the modules with proofs are proved; the others
hold by running their module with it, and are left out of the configurations, where
they would say nothing that the other invariants do not.

## 5. The proofs

`tlapm` proves what follows for every value of the constants, from the
assumptions that the modules name.

**`CrashDetectorProofs`** (any number of processes and of cells, from
`NCellsAssumption` and `NoProcAssumption`): `TypeCorrect`, `LiveCells`,
`RecoveryExclusion`, `CrashIsRemembered`, `FreshZombies`. None of the
invariants is inductive alone. `IInv == TypeInv /\ LockInv /\ TableInv` is:
`LockInv` says who holds which lock at which place of the code (a process that
owns a cell holds its fcntl lock and the shared lock on `lockfile-d`, the
commands of bogoutil hold the exclusive one, and an exclusive lock is alone);
`TableInv` says that the cell of a live process is marked, that nobody can have
crashed in the environment between the recovery and the clearing of the table
(otherwise `clear_lockfile` would erase the trace), and that a torn environment
has an orphan cell. `TableInv`, and with it all theorems but the types and
`FreshZombies`, holds *until* a recovery has run without the exclusive lock
(`lockless`, a history variable): `dbx_recover` has a path to that, see section
6, and the properties name it.

**`RegistrationProofs`** (any number of processes, tokens, attempts, any job,
any width of counts, from the assumptions of `TokenCounts` and
`Registration`): `RegistrationTypeCorrect`; and, for a list that is not near
its file size limit (`~NearLimit`), `CleanReads`, `FreshValues` and
`RegistrationIsSerial`. The invariant is `IInv == TypeInv /\ Locked /\ Logged
/\ NotStale`: whoever is past the lock has it and a write lock is alone;
`undo` is not empty only for a writer in its transaction, and the keys it has
logged are exactly those this attempt is through with, each of them now
`Updated` once from what was logged. From that a commit is exactly
`SerialRegistration!Register`, and a write, a rollback, a failed commit and a
crash leave `CommittedDb` as it is. Near the limit `db_open` takes a shared
lock and goes on writing; none of the three holds then, and `TypeOK` still
does.

**`CommandsProofs`** (for every value of the constants of `MCCommands` that its assumptions let
through). The components of `MCCommands` take no step together, so each has an invariant of its own over its
own variables, and what is proved of it holds of the whole.

- The queue: `QueueTypeCorrect`, and `TransactionImplementsDirectStore`, for any keys, values and queue length.
  A read takes the last item for its key and the flush applies the first; what makes them agree is that
  the set of places of a key has a greatest element (`LastExists`) and how that one moves when an item
  is appended or taken off.
- The environments: `CommandsOneDirectory` and `CommandsRecoverAlone`, for any processes, cells, directories and
  assignments of lists to them. `EnvTypes` and `EnvLocked` (the environments of a process are
  different ones, and it has the lock on each, those included that `globalfd` no longer names) hold for all;
  `OneCell`, that a process has at most one cell and knows which, and that an environment is torn just when
  its table has an orphan, only as long as every process keeps its lists in one directory. Section 6 has what happens otherwise.
- The loop over the messages: `CommandsMessages`, for any messages, words and any set of
  modes that `validate_args` lets through, as long as the counts have room (`RoomAssumption`). Where nothing is
  unregistered `LoopCounted` says at each place of the loop what a count is: of a token, the number of messages
  that were registered with it (`Times`, a cardinality over `history`), at once or, with `-s` or `-n` and without
  `-p`, in the table `words` until the one registration at the end; and that of the messages is never
  below it, however much `-u` adds to it. `LoopDisk` says that nothing reaches the list before the end.
- Maintenance: `CommandsMaintain` and `CommandsFlushSilently`, for any list, order, conversions and tasks.
  `MaintTypes` fixes what the walk has queued; `Deletions` that a queued deletion is of a key which
  is there when the flush comes to it (else the flush fails); `Added`, the hard part, that
  what is read for a key is the sum of the counts of all tokens that have become this key so far, itself included
  as long as the walk has not been to it. It is a sum over a set of keys, so it rests on `SumProofs`. The
  assumption `RegularTasks` (or the constant `AnyChain`, which takes it back) excludes the lists on which
  `maint_chain` finds counts lost.
- Dump and load: `CommandsMoveTheList`, for any keys, two lists, threshold, replacement and length limit. The lines
  written so far are those of different keys, each with its name (`LinesOf`); the transaction shows for every name
  the count from before and the sum over the keys whose lines were loaded so far (`LoadedSoFar`). The sum of a
  part is not more than that of the whole (`TotalOfPart`), so the addition in the width of a count is exact at
  every line if it is at the end (`Fits`). That `Replaced` is idempotent and leaves the keys that begin with "." alone is an
  assumption: what was replaced has a "?" in it, and "?" is ascii.
- The options: `CommandsDoOneThing`, for any command lines and files: the part `RunTypeFits` of `OptionsSound`. A file
  that is read may set a run type after the check that follows the command line, so `RunInv` is about every
  place: the run types chosen so far do not conflict (`RunFits`), after the first walk there is one, and once
  they are validated they go together.

**`SumProofs`**: the sum `MapThenSumSet` of a function over a finite set takes the elements in
the order `CHOOSE` gives. That the recursive function in its definition exists, and that the order does not matter
(`SumExists`, `SumWithout`), takes an induction on the size of the set, which the installed
provers can do as a minimal counterexample: `WFMin` of the library has no operator
as a parameter.

**`StorageProofs`, the LMDB store** (any processes, words, chunk size, address space, retries and bound on
the operations, from `LmdbAssumption`): `LmdbTypeCorrect`, `ReplayShowsTheSame`,
`LmdbImplementsAtomicStore`, `OnlyTheLimitMakesItFail`. The invariant `LmdbInv` says what a cache
is worth: played in the order its entries were made in, it makes `asked` of nothing
(`CacheIsAsked`), it makes of the committed list what the transaction shows (`ViewIsAsked`), and a
replay that has come to an entry shows what the entries before it make (`ViewIsMade`). "What entries
make" is not a fold over the cache, on which nothing could be proved here, but a statement about
the last entry for each word (`MadeOf`); the lemmas show how it grows by an entry at the end and by
a step of the replay. `LimitInv` adds the room: for a process that no other commit has overtaken the pages
of the cache, counted (`Pages`, a cardinality), on top of the committed ones fit into the map once it has
grown, and whatever the cache deletes is there when the replay comes to it. Then a replay
cannot fail, and the operation that found the map full finds room at the second try.
`Garbage` is any set of words in all four, so that a deletion may be cached as that of another word. What is not promised is
said in the properties, by the history `keys`: a transaction that was replayed with such a key is
excepted from what it shows (`ViewIsAsked`), its commit from the promise (`PromiseUnlessRewritten`), and
the failure of its replay from what only the limit may cause (`LimitUnlessRewritten`). `LmdbInv` carries the same distinction
(`CacheIsAsked` is about caches with intact keys), and needs no hypothesis: a rewritten key does no harm
until it is replayed. Without the exceptions both are false of the code (section 6).

**`StoreProofs`** (any processes, words and values, from `NoneAssumption` and
`HandleAssumption`): `StoresTypeCorrect`, `SqliteIsSound`, `StoresImplementAtomicStore`. For SQLite
`SqliteInv` adds to the types who may hold a lock where in the code (`TableInv`: whoever has
found no table keeps its lock until it has made it, so that nobody else does) and `ReadInv`: what a
transaction has read is still what is committed, as long as it has its SHARED lock. For the cabinets `HandleInv` says that a
handle shows what was asked for on top of the file, which holds because the lock on the file lets no
second handle change it. QDBM has no transactions; the mapping to `AtomicStore` has nothing of it, and
`WholeWithoutTxn` (section 6) says what it lacks.

**`LookupProofs`** (any configuration lines, lists, tokens and number of aborts, from the
assumptions of `Lookup`): `LookupInvariant`, `OrderIsKept`, `IgnoredHaveNoCounts`, `CountsAreSummed`. That an ignored token counts
nothing is not inductive: it needs that the lists before the cursor do not ignore the token that is looked up
(`NotIgnoredYet`), that the override carried from list to list is that of the list before (`AtList`), and
that the lists are in order (`ListsOrdered`), or the lookup could end in front of the ignore list. `SumInv` says what
the counts are at every moment: of the token that is looked up, the sum over the lists in front of the cursor; of one that
is done, the message counts are the sum over the lists it was looked up in, and its own that over all
lists unless one of them ignores it. The own counts are so only as long as no attempt was aborted (`lookup_recount`).

`MessagesTuned` (any words, messages, wordlist, limits and share of the training) is the half of `TuningSound` that is
about `Tuning`; its assumption gives the types of the input. `TuneInv` follows the messages of a class. A message
in the list is one of the mails that are not empty, with its own words (`InList`). When the class is divided, what is trained
on and what is to be scored are apart (`Apart`) and in the share that was asked for (`InRatio`, from which `EnoughOfBoth` follows by the
arithmetic of the rounding). The training table counts, for each word and class, the training messages that have
it (`TrainCounts`, a cardinality), and a message that is to be scored gets its counts when the table is complete (`ToScore`).

**`StorageProofs`, the others** (from `UpgradeAssumption`, `ModeAssumption` and `DatastoreAssumption`, which
say what the files, the jobs and the lists are, and nothing of their number):
`StorageInvariant`, `UpgradeKeepsTheList`, `ProcessesAgreeOnTheMode`, `LayerGivesWhatItGot`.

- `UpgradeInv`: until the tree has its name the list is the hash with all that was ever in it;
  the temporary file is another one and has nothing that the list has not; when it is to be renamed it is
  whole, and the backup is a second name of the hash; afterwards the hash is the backup.
- `ModeInv`: the log files in the directory of a list tell how it was made (`DiskInv`), a process that has decided
  has decided so and opens its lists so (`AgreeInv`), and nothing others have is in the way of a
  command that is alone (`AloneInv`). It is inductive because no step of a process that agrees with the files
  changes what they tell, and those who look at them while they change look again. `HomeInv` is the
  weaker fact that is left with options or several directories.
- `LayerInv`: the cells in the handle and in the file mean what was asked for and what was committed, and
  are in the byte order of the file (`Told`); it is kept by the conversions, which undo each other
  where the backend knows the byte order or the file is from this machine.

**`InputProofs`** (for every value of the constants of `MCInput` that its assumptions let through):

- `LinesReachTheirMails`, for any files one after the other, of any length, under the hypothesis `WholeFiles`: a newline
  is missing at the end of a file only, a separator has its own first byte, and a file that begins like a batch
  is read with `-M` and is whole (the mails of an rmail batch have the lines they announce, one of ANT ends
  with its dot), or has no separator in it. An ASSUME of `MCInput` has TLC check this of the files of the run; section 6
  has what happens to the others. `TextInv` says where the lines are: what was taken, the separator that is held back and
  what is not read make up the file, and a separator is held back by the reader in use only, whose next mail it
  begins (`SavedIsNext`). `SplitInv` says what the statics are worth: after n lines each is a function
  of the file and of n (`Remembers`), and it is one from which the reader can tell whether a mail begins at the next line
  (`SeparatesAtHeads`); the mails that have begun are those in front of n (`Begun`); and once the file is
  read, `bytesleft` and `dot_found` are what they were before it (`RemembersEnd`). That is what nothing in the code
  sees to: `open_mailstore` resets neither of them.
- `OnlyRenamedMailIsMissed`, for any files in a maildir or an MH directory, any that arrive while it is read, and whatever
  other programs do of what `MuaKinds` lists, without a hypothesis. It excepts the mails that got a new name in the directory
  while it was read (`renamed`), and `NoMailMissed`, without the exception, is false (section 6).
  `MaildirInv` says that a mail which was there at the start, is still there and was not renamed so, was given or is to come
  (`ToCome`): its directory is ahead, or it was there when the open one was opened, or it is the entry
  at hand. It is the order of new and cur that makes it inductive: a mail moves from what is read first to what is read last.
- `PartsAreDecodedAsDeclared`, for any depth of parts and any boundaries that are apart
  (`BoundariesApart`: no line of one boundary can be taken for that of another, which RFC 2046 asks of the
  writer, with what the code takes for a line of it). `MimeInv` relates the stack of `mime.c` to what the writer means:
  the same entities with the same declarations (`SameEntities`), but for the boundary of a multipart that is
  closed, and a boundary belongs to one entity, a multipart (`BoundaryOfOne`). It is about the entities
  as they are once the empty line is matched (`Entered`); while the scanner has read ahead of that the
  theorem says nothing of the line that is read, but the invariant shows that the stack is right again behind it.
- `NeighboursAreCombined`, for any number of tokens in a combination and any tokens the lexer finds, without a
  hypothesis. `RingHolds`: whatever the ring has left of earlier messages, the tokens in it that are of this
  message are the newest, of this run of tokens, and no further from each other than their places in the ring.

Assumptions. Each is about constants only, is named in the module that declares them, and holds in
the instance of a run, where TLC evaluates it. `Order \in Seq(Keys)` and `WordSeq \in Seq(Token)` say that an
iteration is finite, and, where it matters, that it comes to nothing twice; `None \notin Proc` and the like that a marker is not a value; the
rest gives types. `ModeAssumption` has one fact about files: before the first process, the
log files in a directory are those of lists made with transactions.

The parts of these invariants that TLC can evaluate were checked on the instances of the runs first.

Only model-checked:

- liveness (`TornEnvIsLeft`, `OrphanRecovered`, `EveryoneEnds`, `CommitsEnd`, `TextEnds`): liveness under
  fairness and `ENABLED` are out of the prover's reach;
- `TablesKeepAll`, `ScoreSound` and the half of `TuningSound` that is about `ParameterScan`: `MCScoring` reaches the
  RECURSIVE operators of `WordHash`, which the prover does not take at all; what `Score`, `Statistics`
  and `ParameterScan` compute are folds over sequences and sorted sequences, for which no induction theorem can
  be instantiated;
- `LinesDecoded`, `TextReachesScanner`, `MailWritten`: they compare what was done step by step with a function that is defined by
  recursion over the text (a decoded line, the stripped mail);
- `OptionsSound` but for `RunTypeFits`: it compares the options with what the concatenated and filtered sources
  (`FlattenSeq`, `SelectSeq`: recursion over data) say of them.

## 6. Where the code disagrees with what is said of it

Four disagreements are runs of the project, each with one property taken from
a comment or a document:

- `crash_lockless`, `RecoveryHoldsLock`: `dbx_recover` ("set exclusive/write lock
  for recovery") asks `needs_recovery` in its loop and again after it. When the
  first says no and the second says yes, it recovers without the lock.
- `loop_update`, `UpdateCountsMessages`: with `-u` the number of messages read so
  far, and not one, is added to `.MSG_COUNT` for each message.
- `lookup_recount`, `RestartsAllOver`: after an abort all tokens are looked up
  again on top of the counts that the first attempt has added ("start all over").
- `maint_chain`, `KeptAreCombined`: with `--unicode=no` counts are merged into a
  token that is then converted itself, with the counts it had at first, and the
  merged ones are lost. `commands` excludes the lists where that happens.

The modules state more properties that the code violates. Each stands at the end
of its module, behind the ones that hold, with a comment; no configuration checks
them. To see the counterexample, add the property to the configuration of the run that
has the module. A property of an instance needs a definition in the MC
module first, for example `NT == component = "token" => T!NoTagInAttached` in `MCInput`;
some have one there already. Where the third column says so, a constant is to be changed.

**Processes and crashes**

| property | module (run) | what happens |
|---|---|---|
| `NoVerdictWithoutCrash` | `CrashDetector` (`crash`) | `check_zombies` reads a cell before its owner clears it, and asks for its lock after the owner has dropped it: a clean exit counts as a crash. `db_lock.h:44` says "0 if no process has previously crashed". |
| `CrashDetected` | `CrashDetector` (`crash`) | a bogoutil command has the environment open without a cell; when it is killed nothing tells the next process. `README.db:234`: "will automatically detect when regular recovery is needed". |
| `OpenedWhole` | `CrashDetector` (`crash`) | a crash between the last `needs_recovery` and the open: the environment is opened unrecovered. `TornEnvIsLeft` shows that the alarm ends that. |
| `OwnCellKnown` | `EnvironmentList` (`commands`) | with lists in two directories the process takes its own first cell for that of a dead process. `NEWS.0:1020` lists "would consider its own process a zombie" as fixed. |
| `TraceMeansCrash` | `EnvironmentList` (`commands`) | after a normal exit with two directories one cell stays marked. `db_lock.c:20`: "1 without lock: process quit prematurely, recovery needed". |
| `CrashSeen` | `EnvironmentList` (`commands`) | a crash in the environment of the second directory is recorded in the table of the first. `db_lock.h:44`: "1 if a process has crashed previously". |
| `NewListHasMeta` | `Registration` (`register`) | the creator of the file loses the lock, opens again with `created` false, and nobody writes version and encoding. `datastore_db_private.h:35`: created is there "for datastore.c (to add .WORDLIST_VERSION)". |
| `SuccessIsDurable` | `Registration` (`register`) | `bogomain` does not look at the result of `close_wordlists(true)`. `bogofilter.xml:474`: "3 for I/O or other errors". |
| `NothingWrittenNearLimit` | `Registration` (`register`, `NearLimit = TRUE`) | near the limit only the lock becomes shared. `datastore_db.c:482`: "Cowardly refusing" to write "to avoid data base corruption". |

**Stores**

| property | module (run) | what happens |
|---|---|---|
| `OnlyAtCreation` | `TransactionMode` (`storage`) | `datastore_db_trans.c:759` says `--db-transaction` is "only effective at creation time"; with the option nothing is looked at (`datastore_db.c:123`), and the same list is used in both modes. |
| `EachAsMade` | `TransactionMode` (`storage`) | with lists in several directories the mode of the first is taken for all (`datastore_db.c:123`). |
| `TraditionalMayBeApart` | `TransactionMode` (`storage`) | lists without transactions are refused in several directories, because the mode is looked at before it is decided (`datastore_db.c:348`). |
| `NoAssertion` | `TransactionMode` (`storage`) | in a build for one mode the option for the other is kept, and the first operation runs into an assertion (`datastore_db.c:801`). |
| `CountsTravel` | `Datastore` (`storage`) | Tokyo Cabinet, Kyoto Cabinet and QDBM do not know the byte order of a file that was made elsewhere. |
| `WalkTold` | `Datastore` (`storage`) | all stores but SQLite and LMDB return success for a walk that its hook has ended (`datastore_db.c:1043`, `datastore_tc.c:369`, `datastore_kc.c:294`, `datastore_qdbm.c:305`). |
| `EmptyListWalked` | `Datastore` (`storage`) | a walk over an empty list fails with these three stores. |
| `KeepsThePromise` | `LmdbStore` (`storage`: a PROPERTY) | `db_delete` caches the key after `mdb_cursor_del`, from the page it has deleted from (`datastore_lmdb.c:929`): after another change in the same transaction a replay may delete another word, and the commit stores that. `datastore_lmdb.c:33`: the cache makes it "capable to replay all changes". |
| `OnlyTheLimitFails` | `LmdbStore` (`storage`: a PROPERTY) | for the same reason a replay may look for a word that is not there, and the program ends though the map has room. |
| `NothingMissed` | `QdbmUpgrade` (`storage`) | the old list is unlocked before the new one has its name (`bogoQDBMupgrade.c:144`): what is registered between is lost. |
| `ListAlwaysThere`, `UpgradedIsTree` | `QdbmUpgrade` (`storage`) | only the temporary file is compared with the list (`bogoQDBMupgrade.c:86`): a backup with the name of the list removes it, one with the name of the temporary file takes its place. |
| `VersionFirst`, `VersionOnce` | `HandleStore` (`stores`: `HandleVersionFirst`, `HandleVersionOnce`) | a list is loaded, or its creator killed, before it has its version; two processes that find no file both write it. |
| `WholeWithoutTxn` | `HandleStore` (`stores`: `HandleWholeWithoutTxn`) | QDBM has no transactions: an abort or an exit stores half of one. |

**Options and paths**

| property | module (run) | what happens |
|---|---|---|
| `CommandLineWins` without its guards | `Configuration` (`commands`) | bogoutil reads the files after its command line (`bogoutil.c:912`); the `user_config_file` of the site's file is read although the command line names another (`configfile.c:211`). |
| `EnvironmentBeforeFiles` | `Configuration` (`commands`) | `wordlists_base.c:114` gives the environment before the files; a directory from a file is not looked up again. |
| `CommandLineDecides` | `Arguments` (`commands`) | a command of bogoutil in a configuration file becomes the command, with a file name whose memory is free (`configfile.c:104`). |
| `FileServesAll` | `Arguments` (`commands`) | bogotune exits on options of `bogofilter.cf` that are in its table without a case, `charset_default` for one (`bogotune.c:1134`). |
| `DirectoryKnown`, `HomeIsADirectory` | `Arguments` (`commands`) | bogotune with the name of a file in the current directory has no directory for it (`paths.c:344`), and takes a file for bogohome (`bogotune.c:1859`), so that reading x ends it (`paths.c:316`). |
| `UnregistersFromAList` | `Arguments` (`commands`) | the answer of `bfpath_check_mode` is not used: tokens are unregistered from a list that is created for it (`wordlists.c:170`). |

**Messages and tokens**

| property | module (run) | what happens |
|---|---|---|
| `CountIsUnique` | `MessageLoop` (`commands`) | `wordhash_add` adds the counts of both tables and `wordhash_insert` counts the new tokens again. `register.c:35`: "use number of unique tokens". |
| `ReadOnce` | `Maildir` (`input`: `ReadOnce`) | a mail that is moved from new to cur is read twice. |
| `NoMailMissed` | `Maildir` (`input`: `NoMailMissed`) | a mail that gets a new name while its directory is read may not be given: a flag that is set in cur, or an MH folder that is packed. |
| `EpilogueIsBody` | `Mime` (`input`: `EpilogueIsBody`) | what follows the last boundary of a multipart is read as a header. |
| `FirstLineDecoded` | `Mime` (`input`: `FirstLineDecoded`) | when a header ends in an encoded word, the scanner has read the first line of the body before the header ends, and it is not decoded (`lexer_v3.l:196`, `lexer.c:207`). `lexer_v3.l:265` warns of just that: "Do NOT add header (<INITIAL>) rules that require characters beyond a LF". |
| `DecodedAsDeclared` | `Mime` (`input`, `Boundary <- MCNested`) | a boundary that another one begins with and is two longer is taken for its end. |
| `LinesKept` | `MailText` (`input`, `Cases <- MCBatchCases`) | an rmail batch read without `-M` keeps its separators as text. |
| `InputEnds` | `MailText` (`input`, `Cases <- MCCutCases`) | an rmail batch that is cut short in its second mail is read for ever. |
| `TagInHeader`, `StatusOnItsLine` | `MailText` (`input`, `Cases <- MCShortCases`) | a header that is cut short gets its tag behind the empty line, and the status in the middle of its last line. |
| `LineDecoded` | `Decoding` (`input`, `MoreTexts <- {<<>>}`) | a line that encodes nothing stays encoded (`lexer.c:219`). So does a uuencoded line of 37 octets whose encoding begins with "ND": with its count, "E", it is taken for the end line (`uudecode.c:31`). |
| `TextReachesScanner` | `DecodedLine` (`input`, `charset_known : {FALSE}`) | when iconv does not know the charset, the -2 that is returned to avoid "a message truncation" (`lexer.c:237`) ends the text. |
| `BufferKept` | `DecodedLine` (`input`, a `max_token_len` above twice `MAX_TOKEN_LEN`) | more is shifted than there is (`lexer.c:332`), which `buff_shift` asserts against. |
| `NoCarriageReturns` | `DecodedLine` (`input`) | behind a long token the count of the line is taken for that of the buffer, and the line end stays `\r\n` (`lexer.c:257`). |
| `WordsJoined` | `DecodedLine` (`input`, `default_known : {FALSE}`) | a word is copied over those in front of it (`iconvert.c:190`). |
| `MessagesApart` | `TokenStream` (`input`: `MessagesApart`) | a message is combined with the empty token that ended the one before, and with the last line of that one when it had no newline. |
| `OnlyAddressesAreTaggedSo` | `TokenStream` (`input`: the same) | what is combined with an address is tagged as an address. |
| `NoTagInAttached` | `TokenStream` (`input`) | `token.c:615`: "don't tag if inside message/rfc822", but the entity of an attached message is pushed after the tag of its header has been set (`token.c:228`). |
| `OptionsKept` | `TokenStream` (`input`) | after a message count file the mails bogotune reads have no tags and no combinations (`token.c:414`). |

**Counts and scores**

| property | module (run) | what happens |
|---|---|---|
| `PrecedenceEndsLookup` | `Lookup` (`scoring`) | the test that should end the lookup never holds in a list that is sorted upwards. `bogofilter-faq.html:966`: "Lists with higher precedence numbers will not be checked". |
| `SummaryIsOfMessage` | `Score` (`scoring`: the same) | without a token in use, N, P and Q of the table are those of an earlier message (`score.c:552`). |
| `MaxIsExact` | `Score` (`scoring`: the same) | tokens with the same deviation exceed `token_count_max`. `bogofilter.cf.example:276`: "coerce the number of tokens used to score a message". |
| `BogotuneKeepsLimits` | `Score` (`scoring`: the same) | bogotune's counts are not sorted, so the boundary is that of any token (`score.c:314`, `:381`). |
| `HistogramTrueAlways` | `Statistics` (`scoring`: the same) | a token without counts is taken off an interval it was not added to (`bogohist.c:83`, `:89`). |
| `HistogramNotCut` | `Statistics` (`scoring`: the same) | the result of the walk is looked at after the histogram is printed (`bogohist.c:157`). |
| `AllWordsShown` | `Statistics` (`scoring`: the same) | a last word without a newline is cut (`bogoutil.c:296`). |
| `ClassificationsLogged` | `Format` (`scoring`: the same) | after the first registration `-u` is no longer RUN_UPDATE (`register.c:70`), and what is logged is empty. |
| `TerminatorFits` | `Format` (`scoring`: the same) | the NUL of a line that fills the buffer is behind it (`format.c:412`). |
| `SpamicityShown`, `WidthsCount` | `Format` (`scoring`: the same) | what follows `%d` shows the distance from 1 too (`format.c:330`); a width is passed over (`format.c:270`). |
| `EncodingKept` | `Maintenance` (`commands`) | without `--unicode` the new encoding is E_UNKNOWN, differs from every encoding, and a raw list is converted. `NEWS.0:242`: "bogoutil uses "--unicode=yes/no" in maintenance mode to convert a wordlist". |
| `UpgradedOnce` | `Maintenance` (`commands`) | bogoutil never sets `wordlist_version`, so an upgraded list is upgraded again, over its `ip:` tokens. `maint.c:237`: "up-to-date - nothing to do". |
| `VersionKept` | `LoadDump` (`commands`) | the version is dumped and not loaded, and a list that is made by loading gets none. |
| `EncodingIsOne` | `LoadDump` (`commands`) | the encoding is added up like a count when a list is loaded into another. |
| `LargeCountsKept` | `LoadDump` (`commands`) | counts above INT_MAX are read as 0. |

**Tuning**

| property | module (run) | what happens |
|---|---|---|
| `MemoryListTrained` | `Tuning` (`scoring`: the same) | with `-D` and `-r` no message is trained on, and all are scored with counts of 0 (`bogotune.c:828`). |
| `SomethingToScore` | `Tuning` (`scoring`: the same) | without a list on disk nobody asks whether there are enough messages, and the first score of none is read (`bogotune.c:378`). |
| `NeighboursAreNear` | `ParameterScan` (`scoring`) | the values of x are in the order x, x-d, x+d, so the neighbours by place are not neighbours by value (`bogotune.c:241`); `bogotune.c:1654`: "trough must be surrounded on six sides". |
| `ChosenScannedAgain` | `ParameterScan` (`scoring`) | a fine grid that is moved to its lower limit misses the value the coarse scan chose (`bogotune.c:285`). |
| `NothingReadOutside` | `ParameterScan` (`scoring`: the same) | when no set is on target what is before the sorted results is taken for the best (`bogotune.c:1278`); with no ham above `SPAM_CUTOFF` the score before the first is recommended (`bogotune.c:1375`). |
| `ExpectedMissesTrue` | `ParameterScan` (`scoring`: the same) | when all spam is below the recommended cutoff, none of it is expected to be missed (`bogotune.c:1379`). |

Seen while reading, and stated nowhere: `-a` can discard
`.WORDLIST_VERSION` like any token of its age; in `lookup` a precedence below
zero changes which lists are asked (it is excluded, as `Documented`, from the
properties that speak of what the documentation describes); bogotune always prints ten
scores in its verification, also when it has fewer messages (`bogotune.c:1328`); the
comment in `bogotune.c:1843` says "directories from command line and config file are
already handled", but `bogofilter_dir` is not in its table; bogoutil computes
the longest combination of tokens before it reads the configuration files; a failing `--db-print-pagesize`
ends with success, unlike a failing `--db-print-leafpage-count`.

## 7. What is not modelled

- The patterns of the scanner (`lexer_v3.l`, a flex grammar). What the actions of its rules do to the
  state of the program is in `Mime`, `TokenStream` and `DecodedLine`; which token is found is a free choice.
- Floating point: the chi-square functions (`prob.c` and the vendored GSL), and what messages score with
  given parameters. They are functions of what the models have.
- A body whose first line begins with an encoded word, behind a header that ends in one: the scanner takes the empty line
  for the blank between the two, and the header does not end there. A message part whose message has no header line.
- bogotune on mails and message count files together: the last count file sets `msgs_good` and `msgs_bad`
  (`msgcounts.c:75`), and whether there is training depends on the last file (`bogotune.c:807`, `:828`).
- `bogoutil -m` with `-n` and `--unicode` together (section 3, Maintenance); no property covers it.
- Tables of characters (`charset.c`, `convert_charset.c`): data without state.
- Wording: help texts, debug output, the layout of what is printed.
- Degeneration of tokens (`wordhash_degen`), the page size and leaf pages of Berkeley DB, the user database (`find_home.c`),
  blocks of memory (`nmalloc`), signals other than SIGALRM and those of `sighandler.c`.
- Vendored getopt, portability functions (`strlcpy.c`, `memstr.c`, ...), scripts (`contrib`, `bf_*`, `bogoupgrade`).

`PROJECT.json` lists every component with its status, and every hazard with the
property that covers it or the reason why none does.
