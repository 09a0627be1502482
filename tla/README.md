# bb_csvimport in TLA+

The importer fetches decoded bee tags from a Cray over ssh, unpacks them, turns csv files into
sql files and has a PostgreSQL server execute them. It is one program of five sorts of processes
that meet only in directories: no queue, no socket, no shared memory. A file name is a message,
`remove` and `rename` are acknowledgements, and `mkdir` is a lock. What makes it correct is the
order in which files appear and disappear while processes crash, connections break and commands
on the Cray go on after their answer was lost. That is what these modules model.

## Inventory

| Part | Code | State | Operations |
|---|---|---|---|
| Main loop | `main.cpp:452-616` | `num`, `status`, `interrupted`, the observer list | read settings, fork everybody, list observers, count their tars, wait for room, fork `createArchive`, then `downloadArchive`, wait for each, signal `unzip.sh` |
| Cray access | `CrayAccess.cpp`, `lib.cpp:23-58` | on the Cray: tars, `.done` lists, `out<n>`, `bb_archive<n>.tgz`, `bb_done_archive<n>.tgz`, `completed_but_not_removed/` | `getObserversDirectories`, `getFilesCount`, `moveCompletedArchives`, `createArchive`, `downloadArchive` |
| Archive process | `unzip.sh` | `archive/`, `tmp/` | tidy at the start, unpack every `completed_` archive into `csv/`, stop at `bb_exit_unzip` |
| Parser processes | `main.cpp:109-348`, `FileIO.cpp` | a batch of csv files, `create_table`, open descriptors | list own files, parse, append to one sql file for each minute, remove the csv files |
| Database process | `main.cpp:350-441`, `DBAccess.cpp:102-123` | the connection, the scan of `sql/`, the file and line | connect, pick, execute line by line, remove or move to `error/` |
| File locks | `main.cpp:68-85` | directories `sql/d<name>` | `acquire`, `release` |
| csv decoding, keys | `main.cpp:109-218`, `lib.cpp:66-108` | the map from index to detection | skip, add a candidate, make up `id` and `candidateID` |
| SQL text | `DBAccess.cpp:28-100, 125-215` | none | create tables, insert detections, insert candidates |
| Settings | `config.cpp`, `config.txt` | a copy in every process | `Config::load` |
| Helpers | `lib.cpp`, `FileIO.cpp:98-118` | none | `split`, `exec`, `log`, counting and testing files |
| Not part of it | `include/`, `lib/`, `makefile`, `TableSplitType.h` | | vendored PostgreSQL headers and libraries, build, an unused enumeration |

How they interact:

```
 Cray  --createArchive/downloadArchive-->  archive/  --unzip.sh-->  csv/  --parsers-->  sql/  --DB-->  PostgreSQL
                                              |                                          |   \-->  error/
                                              +------ Main counts both and waits --------+
```

Hard behaviours: two writers and a reader of one sql file; a scan of a directory that changes;
csv files deleted after their rows were written elsewhere; lock directories that survive a crash;
a SIGCHLD handler that competes with `waitpid`; commands on the Cray that overlap their own
retry; `num` starting again at each start; bounds that make Main wait for processes that it
feeds; settings read while they are written. `PROJECT.json` lists them as hazards with the line where each bites.

What makes each part correct:

* parsers and database process: nothing is lost between `csv/` and the database; a sql file has
  one user at a time; no lock is left behind; nobody waits for ever; SIGINT ends all;
* Main, Cray and `unzip.sh`: a tar that is marked as done is in some archive or in `csv/`; none
  is unpacked twice; `archive/` stays bounded; every tar arrives; SIGINT ends both processes;
* settings: parsers agree on who owns a csv file, and Main follows the file;
* decoding: a detection is made of its own picture's lines, and keys are unique;
* the whole program: every row gets from the Cray to the database, once, although the processes
  wait for each other and the program is stopped and started again.

## Modules

| Module | What it is |
|---|---|
| `Handover` | The contract of a stage: items arrive in a source, an item is deleted only when all it yields is kept, and what is kept stays kept. |
| `Spool` | Parsers, database process, locks, and the server as far as the program depends on it. |
| `SpoolProofs` | Proofs about `Spool`. |
| `Unzip` | `archive/` and `unzip.sh`. |
| `Fetch` | Extends `Unzip` with Main, its children and the Cray. |
| `FetchProofs` | Proofs about `Fetch` and `Unzip`. |
| `Importer` | The whole program: extends `Fetch` and instantiates `Spool`; what they share is one. |
| `ImporterProofs` | Proofs about `Importer`, composed of those about its parts. |
| `Config` | Who has which settings. |
| `ConfigProofs` | Proofs about `Config`. |
| `Decoder` | `fileContentToDecoderData`: lines to detections, and their keys. |
| `DecoderProofs` | Proofs that `Decoder` groups lines as it should. |
| `DecoderKeyProofs` | Proofs that the keys it makes up are unique. |
| `MCSpool`, `MCFetch`, `MCImporter`, `MCConfig`, `MCDecoder` | Constants for TLC. |

Definitions whose names start a comment with "Mutant" are plausible errors in the definition that
follows; no specification uses them. `PROJECT.json` says which property each of them breaks, and
maps every other definition to its lines.

### Spool

Names follow the code: `acquire`, `release`, `create_table` is `createTable`, `fl` is `batch`.
An action is what one process does between two points where another process could see a
difference: `getCSVFilesList` is one step (a file that appears during the scan might as well have
appeared after it), `csv2sql` is one step for parsing and three for each sql file (lock, append,
unlock), `removeFilesLocal` is a step for each file, and the database process takes a step for
each statement. `readdir` returns what was in `sql/` at `opendir`, and may return what was made since
(`PickFile`). A sql file is the sequence of its statements; an INSERT names the csv files whose
rows it holds. `Kind` abstracts what a csv file says: at least one row, none, a field on which
`std::stoi` throws, or a row that the server refuses (a rotation that is nan, for one).

The server accepts a statement unless its table is missing, a key exists already, a candidate
lacks its detection, or a value cannot be stored. Rows of different csv files have different keys here; module `Decoder` is
about when that is so.

Faults are constants: `sigint`, `crash` (all processes at any point), `conn` and `reply` (the
connection breaks before or after a statement is executed), `fs` (`remove` or `rename` fails),
`fopen` (a sql file cannot be opened: `fclose(NULL)` ends the parser, and the database process
leaves the file for its next scan), `emfile`. A restart after a regular end counts as one of
`MaxFaults` but needs no member of `Faults`.

Left out: a crash in the middle of an append (the sql file would keep a part of a statement, and
its lock directory, so that nobody reads it); an `fputs` that writes a part on a full disk.

### Unzip and Fetch

`Unzip` holds the state and steps of `unzip.sh`, and `Fetch` adds its own variables and leaves
them unchanged in those steps. A file of `archive/` is a name with the set of tars that can be
unpacked from it. The remote command of `createArchive` is five steps, since a retry with another
number, or after a restart with the same number, can run between them. Main and its current child
are two processes; `cpc` is the child's program counter and `cexit` its exit status, which
`handle_sigchld` may take away in every one of the child's ends before Main reaches `waitpid`. Main
waits for nothing of `unzip.sh`: it may download, and even come to its end, before the glob of the
script's first loop or while that loop removes what it has seen.

Each csv file that `mv` takes to `csv/` is a step, since a parser may list `csv/` in between. A
fault is a pair of its kind and how often that kind happened, so that properties can say which
faults they survive. If `opendir` fails, `getFilesCount` counts -2 files, where `closedir(NULL)`
returns at all.

Undefined behaviour: `main` installs a signal mask that was never set (`main.cpp:461, 497`). If
SIGINT happens to be blocked by it, `Interrupt` never happens; if SIGCHLD is, no child is reaped
early. Both are behaviours of the model, since neither action is fair. That SIGINT arrives can
therefore not be promised; `ProgramStops` begins when Main has seen it.

### Importer

`Importer` is both halves with what they share made one: `delivered` of `Spool` is `unpacked` of
`Fetch`, so a step of `mv` is a step of both; `interrupted` is one variable, as one SIGINT reaches
the process group; `sql/` with its lock directories is what `Crowded` counts before Main asks for
more. `overwritten` is a history variable: no step depends on it. A start after a regular end is `StartAgain`, a step of both.

### Config

One setting for each case: read before the forks only (`parserProcessCount`), read by the
database process (`dbhost`), read by Main's loop (`tarFilesProArchive`, `maxLocalArchives`). An
editor writes config.txt anew, and Main may read it before the editor has come to the end: `text`
is what is there, `saved` what will be. `load` leaves alone what it finds no line for, and a line
that ends before its `=` makes a number 0, and a `dbhost` its own name, for which 0 stands as well.
Main's loop is cut down to where it reads the settings and where it waits for room in `archive/`
without doing so; before that it waits, as blindly, for room in `sql/`, which is left out, since the
database process makes that room whatever the settings are. Config.txt need not hold a
`parserProcessCount` at the first load: then no parser is forked, and `Shards` says that no csv file
has one.

### Decoder

The content of the files is revealed line by line: `getline` may return any of `Lines`. Integers
that the code shifts and combines with `|` are sets of bits, cut to the 64 bits of `id` and the 16
of `candidateID`, so that fields may overlap as they do in the code. `data` is the map from
`index` to a detection. The preconditions `FewTags`, `IdsFit` and `CandidateIdsFit` say what the
code relies on without checking it; `MAX_TAGS_PRO_IMAGE` is the code's own. `IdsFit` asks for dates
that are in the calendar, since `mktime` takes February 31 for March 3.

The numbers of a line are any that `std::stoi` returns. Tags and coordinates are cut to a `short`,
so that a large one becomes negative, and the upper bits of a negative one are all 1; of candidate
and grid only the low bits reach `candidateID`.

A name holds its local time, and `mktime` is the days since 1970 and the time zone, with the
`tm_isdst` of the moment of the import: `isdst` can change once while a batch is read
(`ClockChanges`). Two pictures an hour apart, of one camera and with one place, then get the same
`id`; `IdsUnique` says that no others do. Fields that are only copied are left out.

## Runs

| Run | Instance | Shows |
|---|---|---|
| `spool_live` | 2 parsers, 4 csv files of 2 minutes, one of which throws and one is refused, a table for each minute, SIGINT and a restart, or either twice, fair | every lock directory belongs to a process that will remove it, no statement is rejected, nothing is lost; import and SIGINT come to their end although processes wait for each other's locks and a parser may be dead |
| `spool_faults` | 2 parsers, 3 csv files of 2 minutes, one of which is empty, one table for all, any 2 of crash, conn, reply, fs, fopen | one user of a sql file at a time, even with stale locks; `Spool` implements `Handover` |
| `spool_one_table` | one table for all, no fault | **violation**: an INSERT without its table |
| `spool_leak` | batches of one file, one spare descriptor | **violation**: files removed unread |
| `fetch_faults` | 2 tars with a csv file each, 2 archives for each start, any 2 of SIGINT, restart, ssh, reply, remote, scp, tar, mv, fs, opendir, reaped; up to the names of the tars (`TarSymmetry`: nothing tells one from another, and no liveness is checked) | types; `archive/` stays bounded; `Fetch` implements `Handover` until scp, tar or mv stopped half way or the program was killed; no csv file is delivered twice until a restart or a lost exit status |
| `fetch_slow` | SIGINT at any point, fair | **violation**: a `bb_exit_unzip` written before the glob of `unzip.sh`'s first loop is tidied away |
| `fetch_scp` | one scp that ends early | **violation**: a truncated archive is taken for complete |
| `importer_live` | 2 tars with a csv file each, room for one archive and for no sql file, SIGINT at any point, fair | every row of a tar that is packed after `unzip.sh` has read the glob of its first loop gets to the database while Main waits for `archive/` and `sql/`; SIGINT ends Main, the parsers and the database process at any point, and `unzip.sh` if it comes after that glob |
| `importer_restart` | 2 tars with a csv file each, one of which the server refuses, one archive for each start and room for two; any 3 of SIGINT, one new start, a lost connection | nothing is imported twice; `Importer` implements `Handover` from the tars on the Cray to rows that are kept, until an archive of the last run is overwritten |
| `config_main` | 2 values, 4 contents of config.txt to begin with (1 or 2 parsers, room for 1 or 2 archives), 2 saves at any point, read at any point of a save | one owner for each csv file if the first load found a `parserProcessCount`, none if it read 0; Main's loop follows the file |
| `config_db` | 2 values, 1 save | **violation**: the database process does not follow |
| `decoder` | 4 pairs of pictures of up to 2 lines each, of 10 sorts, and a change of the clock at any point | grouping and unique keys |

What `importer_restart` excuses is a loss that the code has: SIGINT makes `unzip.sh` exit before
it unpacks what is left in `archive/`, the numbers begin again at 1, and with `maxLocalArchives` 2,
as in config.txt, the next start may rename a new archive onto an old one, or `unzip.sh` remove the
new one after it unpacked the old. No line of the repository promises otherwise, so it is no
finding; the history variable `overwritten` says from when on `HandsOverEndToEnd` ends.

The same holds for `unzip.sh`'s first loop. It removes what Main downloads, or a `bb_exit_unzip`
that Main writes, before its glob; `ProgramStops` and `EventuallyInDatabase` begin for `unzip.sh`
after that glob (`upc # "start"`), and `fetch_slow` shows what happens before it.

The violations are what the code does; `findings` in `PROJECT.json` quotes the line that says
otherwise.

Bounds. Two parsers and a database process are all the kinds of contenders for a lock, and the
csv files give a parser two files of different minutes and two parsers a common minute: the
orders that matter need no more. Two faults are enough for a fault while another is being dealt
with; `importer_restart` allows three, so that a SIGINT, the new start and a lost connection meet. `MaxNum` is the number of archives Main asks for in one start: with two, the second request
can overlap the first, whose answer was lost; with a restart, of which `MaxRestarts` allows one,
both starts use the same names. Fairness of the commands on the Cray is stated for as many as these
two bounds allow.
`MaxLocalCsvFiles` is 0 in the runs of `Importer`: any sql file or lock makes Main wait.
`MaxDeliveries` is 1 in `Spool`'s own runs: `unzip.sh` delivers again only after it was killed
between `mv` and `rm`; in `Importer` it is 3, which is never reached. `MaxFailures` bounds how
often `createArchive` fails in a row before Main reads the settings again. Deadlock is not
checked, since all of these systems stop when nothing more arrives, and `Config` where Main waits
with `maxLocalArchives` 0; the liveness properties say that they do not stop too early.

Fairness. Every process of the program and every command on the Cray is scheduled by an operating
system: weak fairness of each one's next step. `mkdir` in `acquire` is tried every second, so
weak fairness is enough only if nobody else takes the lock each time between two tries; the
liveness runs show it is enough, since each holder has finite work. Arrivals, faults, SIGINT and
saves are never fair; that an editor comes to the end of the file is.

## Proofs

All by TLAPS, for every value of the constants: any number of parsers, observers, tars, archives,
restarts and faults. Each inductive invariant was checked by TLC on the instances above, or with
more faults, before it was proved.

* `Handover`: `HandoverSafe`. Arrive, keep and discard each preserve that an item is still there
  or has all its outcomes kept.
* `SpoolProofs`
  * `SpoolTypeOK` goes action by action.
  * `SpoolMutualExclusion` needs `LockInv`: who is past `acquire` has its lock directory, and no
    two are; a stale directory only helps. It holds with every fault and any number of parsers.
  * `SpoolLocksHaveOwners` is inductive with types: whoever stops being an owner removes the
    directory in the same step, and a restart finds all processes stopped.
  * `SpoolHandsOver` is a step simulation: every action is a stutter, `Arrive`, `Keep` or `Discard`
    of `Handover`. It needs two facts beyond types and `LockInv`. `Executed`: the lines before
    `line` of the file being executed are in the database, so that removing the file gives up
    nothing. `Written`: the minutes of a batch that are no longer in `todo` have been written, so
    that when the parser removes a csv file its rows are kept. Both fail for a parser without
    descriptors, hence the assumption that `emfile` is not among the faults.
  * `SpoolNothingLost` follows from `SpoolHandsOver` and `HandoverSafe`.
  * `SpoolNoRowRejected`, with a table for each minute. `ImportInv` follows a row from its csv
    file to the database. `Batches` and `Unwritten`: none of the rows of a csv file that is
    still to be written is in `sql/` or the database. `SqlFiles`: a sql file
    has the detections of an INSERT before its candidates, and no row twice. `Unexecuted`: what
    the database process has yet to execute is not in the database. `Ready`: the first two lines of
    the file it executes have made its tables. `Rejected` is the property. With one table for all,
    a sql file does not always begin with its tables, and the property is false: that is the
    finding of `spool_one_table`. `StageInv` is all that together with types, `LockInv` and `Executed`.
* `FetchProofs`
  * `FetchTypeOK` needs `Counted` (a fault that happened for the n-th time happened for each
    time before), since `TypeOK` bounds the number of faults, and `ChildAtWork`, since a command
    takes its number from Main's.
  * `FetchBackpressure`. `ChildAtWork` ties where Main is to where its child is, so that there is
    one child at a time. `Room` counts: `archive/` and an archive that is `Underway` are within the
    bound. A stronger bound than the property is needed because Main counts before it forks.
  * `FetchHandsOver` is a step simulation like that of `Spool`. `Passed` says of each pair of
    steps that hand a tar on that the second deletes only what the first has kept: on the Cray,
    while downloading, and in `unzip.sh`. It rests on `Files` (what is in no file is in no
    `content`), `Visited` (`unzip.sh` works on names that are there) and `Numbers` (commands,
    remote files and archives have numbers at most `num`, each of one command): no archive takes
    the name of another. `Made`, a part of it, is that the command of an archive that Main's child has
    `Fetched` has made it, though it may go on if its answer was lost. `Numbers` is what a restart
    breaks.
  * `FetchUnpackedOnce` rests on `Once`. `Known`: what is in `archive/`, `tmp/` or `csv/` is on a
    `.done` list. `Apart`: two archives, `tmp/` and `csv/` have no csv file in common. `Marked` and
    `Fresh`: an archive on the Cray that Main may download is marked as done, and none of it is on
    the local side. Commands that outlive their answer may pack the same tars, but an archive
    whose command did not answer "ok" is never downloaded; with a lost exit status it may be.
    The step lemma `OncePartsStep` needs only that no other command can touch the archive that the
    child waits for (`Alone`). Without a restart that follows from `Numbers`; with one, see below.
* `ImporterProofs`
  * `ImporterFetches` and `ImporterImports`: every step of the program is a step of `Fetch` or
    leaves its variables alone, and the same for `Spool`; so every theorem about either holds of
    the program. A delivery of `unzip.sh` is a delivery of `Spool`, a restart one of both.
    `ImporterMutualExclusion` is the first consequence.
  * `ImporterHandsOver`. `FetchHandsOver` ends with a restart, so it cannot be used. `EndInv` has
    `Serial` (at most the last command is at work, and it has Main's number) and `Moved` (an archive
    on the Cray with Main's number is the one that Main's child has asked for) in place of
    `Numbers`; both survive a restart after a regular end. The second half of the way is
    `SpoolHandsOver`, through `ImporterImports` and `HandoverSafe`. The assumption `Reliable` leaves
    out `ssh` and `reply`, since TLC finds a loss when a command that has outlived its answer meets
    one with the same number after a restart; scp, tar and mv that stop half way, and crashes,
    for which the code has no remedy; and `emfile`.
  * `ImporterImportedOnce`, with a table for each minute. `StopInv`: as long as the program was only
    stopped and started again, `Serial` (of which `Alone` is a consequence), the parts of `Once` from
    `Fetch`, and `StageInv` from `Spool`. `StageStep` keeps the last in every step that delivers
    no csv file a second time and fails only as SIGINT or a regular start (`Undisturbed`), and
    `Once` says that what is delivered is new. `Tallied`:
    both halves count SIGINT and starts alike, so that `OnlyStopped`, once false, stays false.
* `ConfigProofs`: `ConfigShards`. Until Main's loop begins Main's own copy does not change, so all
  parsers have its `parserProcessCount` and there are as many as it says, none if it is 0; the
  database process, forked before them, has kept that number.
* `DecoderProofs`: `DecoderTypeOK`, and `DecoderGrouped`, which rests on `IndexSplits`: with tags
  below 400, `index` gives back file and tag by division and remainder. So an index is taken just
  when its file has a line of its tag (`TakenIndex`), and a detection that stands for its lines does
  so with one more at the end (`StandsLonger`); the lines are the numbers of a set and not a selection
  from a sequence, so that no induction is needed.
* `DecoderKeyProofs`: `DecoderIdsUnique` rests on `Keyed`: the id of a detection is that of one of
  its lines, read in winter time or in summer time, and in that of now as long as the clock has not
  changed. From equal ids follow equal fields, since fields that are narrow enough do not overlap
  (`FieldsTell`) and the bits of a number tell it (`BitsTell`, from the highest bit down, for the 31
  bits of an int). From equal hundredths of a second follows the same time, since `mktime` is
  injective on the calendar (`DaysTell`), or, if one was read in winter time and the other in summer
  time, that the pictures are an hour apart (`HourTells`); from equal places the same line.
  `DecoderCandidateIdsUnique` is the same for the fields of `candidateID`, with `Grouped`: two
  candidates are of two lines.

Assumptions are the named ones of the modules (`SpoolAssumption`, `UnzipAssumption`,
`TarAssumption`, `FetchAssumption`, `ImporterAssumption`, `ConfigAssumption`,
`DecoderAssumption`): types of the constants, at least one parser, positive settings, and that a
csv file is in one tar only, which the decoder on the Cray sees to. TLC evaluates them in every run.

Only model-checked: liveness (`EventuallyImported`, `StopsWhenInterrupted`, `MainFollows` and their
likes), since TLAPS has no rules for ENABLED. Every safety property that a passing run checks is a
theorem.

## Not modelled

* The PostgreSQL headers and libraries under `include/` and `lib/`: vendored, and no code of this
  program. They are 565 of the repository's files and nearly all of its lines.
* The wording of SQL statements and of the log, `split` and `currentDateTime`: formatting.
* `bin2dec`, `deleteFiles`, `clean_up_child_process`, `outputDecoderData` and `TableSplitType.h`:
  nothing calls them.
* Two instances of the program at once, and an append that stops half way on a full disk.
* Settings found by a substring of their line: with the names in config.txt, and the order in
  which `load` tests them, a line is found for its own name only.

## Plan

Done: all components of the inventory are modelled and composed in `Importer`, and all safety
properties are proved. What is left is that `ImporterHandsOver` could do with a weaker assumption
than `Reliable`: a connection that breaks is harmless until a restart.
