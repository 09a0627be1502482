------------------------------- MODULE Spool -------------------------------
(***************************************************************************)
(* The local half of the importer: the parser processes turn csv files     *)
(* into per-minute sql files, the database process executes those files,   *)
(* and both guard a sql file with a lock directory made by mkdir.          *)
(*                                                                         *)
(* The directories csv/, sql/ and error/ and the PostgreSQL server outlive *)
(* the processes; everything else is lost when they stop.                  *)
(***************************************************************************)
EXTENDS Integers, Sequences, FiniteSets

CONSTANTS
    ParserCount,   \* Config::parserProcessCount
    FilesPerTar,   \* csv files of one tar, 256 in getCSVFilesList
    TarFiles,      \* Config::tarFilesProArchive
    OneTable,      \* Config::oneTable
    Csv,           \* the csv files
    SecondOf,      \* the seconds in a csv file's name
    MinuteOf,      \* its timestamp up to the minute, which names its sql file
    YearOf,        \* the year of a minute
    Kind,          \* what a csv file holds, see Kinds
    Descriptors,   \* directory streams a parser can leave open and still open a file
    MaxDeliveries, \* bound: how often unzip.sh moves one csv file into csv/
    Faults,        \* the faults that can happen, see FaultKinds
    MaxFaults      \* bound: how many of them happen

\* "rows": at least one detection is kept.  "empty": every line is too short or has
\* negative coordinates.  "throws": std::stoi or std::stod rejects a field.  "refused": the
\* server refuses a candidate, because a rotation is nan or a number too large for its column.
Kinds == {"rows", "empty", "throws", "refused"}

\* "sigint": SIGINT reaches the process group.  "crash": every process is killed.
\* "conn": the server drops the connection.  "reply": it does so after it executed a
\* statement.  "fs": remove or rename fails.  "fopen": a sql file cannot be opened, by a parser
\* or by the database process.  "emfile": descriptors run out.
FaultKinds == {"sigint", "crash", "conn", "reply", "fs", "fopen", "emfile"}

Minutes == {MinuteOf[c] : c \in Csv}
Parsers == 0 .. ParserCount - 1

ASSUME SpoolAssumption ==
    /\ ParserCount \in Nat \ {0}
    /\ FilesPerTar \in Nat /\ TarFiles \in Nat
    /\ OneTable \in BOOLEAN
    /\ SecondOf \in [Csv -> Nat]
    /\ MinuteOf \in [Csv -> Nat \ {0}]
    /\ YearOf \in [Minutes -> Nat]
    /\ Kind \in [Csv -> Kinds]
    /\ Descriptors \in Nat /\ MaxDeliveries \in Nat /\ MaxFaults \in Nat
    /\ Faults \subseteq FaultKinds

Parts == {"t", "b"}                 \* the table of detections and its "b" table of candidates
Rec == Csv \X Parts                 \* the rows one csv file contributes to each of them
Line == [op : {"create"}, part : Parts, rows : {{}}]
            \cup [op : {"insert"}, part : Parts, rows : SUBSET Csv]

\* What a csv file is to leave behind: nothing if it is empty; a file that throws is never read.
HasRows(c) == Kind[c] \in {"rows", "refused"}
Yield == [c \in Csv |-> IF Kind[c] = "empty" THEN {} ELSE {c} \X Parts]

\* The records that the lines of a file insert.
RecsOf(lines) ==
    {r \in Rec : \E i \in DOMAIN lines : lines[i].part = r[2] /\ r[1] \in lines[i].rows}

VARIABLES
    delivered,   \* how often each csv file was moved into csv/
    csv,         \* the files in csv/
    sql,         \* the lines of each file in sql/; <<>> when there is none
    lockdir,     \* the minutes whose lock directory exists in sql/
    error,       \* the sql files moved to error/, one per "_1" more in the name
    ppc,         \* where each parser process is
    batch,       \* its fl, less the files it already removed
    todo,        \* the minutes csv2sql has not written yet
    createTable, \* its create_table
    leaked,      \* the directory streams it left open
    dpc,         \* where the database process is
    unread,      \* the names readdir has not returned yet
    file,        \* its name: the minute of the file it picked last, 0 before the first
    line,        \* the line it executes
    conn,        \* its connection
    db,          \* the records in the database
    tables,      \* the tables there
    interrupted, \* the processes have seen SIGINT
    faults       \* how many faults happened

pvars == <<ppc, batch, todo, createTable, leaked>>
dvars == <<dpc, unread, file, line, conn>>
fsvars == <<csv, sql, lockdir, error>>
server == <<db, tables>>
env == <<delivered, interrupted, faults>>
vars == <<fsvars, pvars, dvars, server, env>>

FsTypeOK ==
    /\ csv \subseteq Csv
    /\ sql \in [Minutes -> Seq(Line)]
    /\ lockdir \subseteq Minutes
    /\ error \in [Minutes -> Seq(Seq(Line))]

ParserTypeOK ==
    /\ ppc \in [Parsers -> {"list", "parse", "acquire", "write", "release", "remove",
                            "dead", "exited"}]
    /\ batch \in [Parsers -> SUBSET Csv]
    /\ todo \in [Parsers -> SUBSET Minutes]
    /\ createTable \in [Parsers -> BOOLEAN]
    /\ leaked \in [Parsers -> Nat]

DbTypeOK ==
    /\ dpc \in {"connect", "scan", "acquire", "exec", "reject", "release", "exited"}
    /\ unread \subseteq Minutes
    /\ file \in IF dpc \in {"acquire", "exec", "reject", "release"} THEN Minutes
             ELSE Minutes \cup {0}
    /\ line \in Nat \ {0}
    /\ conn \in {"up", "down"}

ServerTypeOK == db \subseteq Rec /\ tables \subseteq Nat \X Parts

EnvTypeOK ==
    /\ delivered \in [Csv -> 0 .. MaxDeliveries]
    /\ interrupted \in BOOLEAN
    /\ faults \in 0 .. MaxFaults

TypeOK == FsTypeOK /\ ParserTypeOK /\ DbTypeOK /\ ServerTypeOK /\ EnvTypeOK

Init ==
    /\ delivered = [c \in Csv |-> 0]
    /\ csv = {}
    /\ sql = [m \in Minutes |-> <<>>]
    /\ lockdir = {}
    /\ error = [m \in Minutes |-> <<>>]
    /\ ppc = [p \in Parsers |-> "list"]
    /\ batch = [p \in Parsers |-> {}]
    /\ todo = [p \in Parsers |-> {}]
    /\ createTable = [p \in Parsers |-> TRUE]
    /\ leaked = [p \in Parsers |-> 0]
    /\ dpc = "connect" /\ unread = {} /\ file = 0 /\ line = 1 /\ conn = "down"
    /\ db = {} /\ tables = {}
    /\ interrupted = FALSE
    /\ faults = 0

-----------------------------------------------------------------------------
(* Faults, the signal, and what the other processes do to these directories. *)

\* A step that goes wrong counts against MaxFaults.
Failing(kind) == kind \in Faults /\ faults < MaxFaults /\ faults' = faults + 1

\* unzip.sh moves an extracted csv file into csv/, again if it extracts the archive again.
Deliver(c) ==
    /\ delivered[c] < MaxDeliveries
    /\ delivered' = [delivered EXCEPT ![c] = @ + 1]
    /\ csv' = csv \cup {c}
    /\ UNCHANGED <<sql, lockdir, error, pvars, dvars, server, interrupted, faults>>

\* SIGINT from the terminal: signalHandler runs in every process of the group.
Interrupt ==
    /\ ~interrupted /\ Failing("sigint")
    /\ interrupted' = TRUE
    /\ UNCHANGED <<fsvars, pvars, dvars, server, delivered>>

ConnectionLost ==
    /\ conn = "up" /\ Failing("conn")
    /\ conn' = "down"
    /\ UNCHANGED <<fsvars, pvars, dpc, unread, file, line, server, delivered, interrupted>>

Stopped == dpc = "exited" /\ \A p \in Parsers : ppc[p] \in {"exited", "dead"}

\* The program is started again, after it was killed at any point or after it stopped.
\* It finds the directories as they were, the lock directories in sql/ included.
Restart ==
    /\ "crash" \in Faults \/ Stopped
    /\ faults < MaxFaults /\ faults' = faults + 1
    /\ ppc' = [p \in Parsers |-> "list"]
    /\ batch' = [p \in Parsers |-> {}]
    /\ todo' = [p \in Parsers |-> {}]
    /\ createTable' = [p \in Parsers |-> TRUE]
    /\ leaked' = [p \in Parsers |-> 0]
    /\ dpc' = "connect" /\ unread' = {} /\ file' = 0 /\ line' = 1 /\ conn' = "down"
    /\ interrupted' = FALSE
    /\ UNCHANGED <<fsvars, server, delivered>>

-----------------------------------------------------------------------------
(* The lock on a sql file: a directory "d" + its name. *)

\* Mutant: an existing directory is taken for a success.
MkdirIgnoresExisting(m) == TRUE

\* mkdir succeeds only if the directory does not exist; acquire tries until it does.
MkdirSucceeds(m) == m \notin lockdir

acquire(m) == MkdirSucceeds(m) /\ lockdir' = lockdir \cup {m}

\* Mutant: the lock directory stays.
releaseForgotten(m) == UNCHANGED lockdir

release(m) == lockdir' = lockdir \ {m}

-----------------------------------------------------------------------------
(* A parser process. *)

\* The parser that reads a csv file: each file has exactly one.
Owner(c) == SecondOf[c] % ParserCount

BatchLimit == (FilesPerTar * TarFiles) \div ParserCount

\* A parser can open a file, or the directory, while it has a descriptor left.
CanOpen(p) == "emfile" \in Faults => leaked[p] < Descriptors

\* getCSVFilesList.  With the limit reached and an entry still to come it returns without
\* closedir.  The entry may be "." or "..", so a list of all the files can leak too.
ListFiles(p) ==
    /\ ppc[p] = "list" /\ ~interrupted /\ CanOpen(p)
    /\ LET mine == {c \in csv : Owner(c) = p} IN
       \E fl \in (SUBSET mine) \ {{}}, early \in BOOLEAN :
         /\ Cardinality(fl) <= BatchLimit
         /\ early => Cardinality(fl) = BatchLimit
         /\ fl # mine => early
         /\ batch' = [batch EXCEPT ![p] = fl]
         /\ leaked' = [leaked EXCEPT ![p] = IF early THEN @ + 1 ELSE @]
    /\ ppc' = [ppc EXCEPT ![p] = "parse"]
    /\ UNCHANGED <<fsvars, todo, createTable, dvars, server, env>>

\* The csv files of the batch whose lines readFileIntoLines returns.
Opened(p) == IF CanOpen(p) THEN batch[p] ELSE {}

\* The files of the batch with detections for minute m, as splitVectorOnDateFormat maps them.
RowsFor(p, m) == {c \in Opened(p) : HasRows(c) /\ MinuteOf[c] = m}

\* Mutant: the exception is caught and the file skipped.
ThrowsNever(p) == FALSE

Throws(p) == \E c \in Opened(p) : Kind[c] = "throws"

\* fileContentToDecoderData and splitVectorOnDateFormat.  Nothing catches an exception
\* of std::stoi, so it ends the process.
Parse(p) ==
    /\ ppc[p] = "parse"
    /\ IF Throws(p)
       THEN /\ ppc' = [ppc EXCEPT ![p] = "dead"]
            /\ UNCHANGED todo
       ELSE /\ todo' = [todo EXCEPT ![p] = {m \in Minutes : RowsFor(p, m) # {}}]
            /\ ppc' = [ppc EXCEPT ![p] = IF todo'[p] = {} THEN "remove" ELSE "acquire"]
    /\ UNCHANGED <<fsvars, batch, createTable, leaked, dvars, server, env>>

\* The std::map of csv2sql is walked in the order of its keys.
Current(p, m) == m \in todo[p] /\ \A n \in todo[p] : m <= n

AcquireFile(p) ==
    /\ ppc[p] = "acquire"
    /\ \E m \in Minutes : Current(p, m) /\ acquire(m)
    /\ ppc' = [ppc EXCEPT ![p] = "write"]
    /\ UNCHANGED <<csv, sql, error, batch, todo, createTable, leaked, dvars, server, env>>

CreateLine(part) == [op |-> "create", part |-> part, rows |-> {}]
InsertLine(part, rows) == [op |-> "insert", part |-> part, rows |-> rows]

\* Mutant: minutely tables are created in the first batch too.
CreatesInFirstBatch(p, m) == createTable[p]

\* createDecoderDataTableQuery is written once per new file, or, with one table for all,
\* to each file of the parser's first batch.
Creates(p, m) == IF OneTable THEN createTable[p] ELSE sql[m] = <<>>

\* What csv2sql appends to the file of minute m.
Appended(p, m) ==
    (IF Creates(p, m) THEN <<CreateLine("t"), CreateLine("b")>> ELSE <<>>)
    \o <<InsertLine("t", RowsFor(p, m)), InsertLine("b", RowsFor(p, m))>>

\* fopen "a", fputs, fclose: no other process reads or writes the file meanwhile.
WriteFile(p) ==
    /\ ppc[p] = "write"
    /\ \E m \in Minutes : /\ Current(p, m)
                          /\ sql' = [sql EXCEPT ![m] = @ \o Appended(p, m)]
    /\ ppc' = [ppc EXCEPT ![p] = "release"]
    /\ UNCHANGED <<csv, lockdir, error, batch, todo, createTable, leaked, dvars, server, env>>

\* fopen returns NULL, and fclose(NULL) ends the process under its lock.
OpenFails(p) ==
    /\ ppc[p] = "write" /\ Failing("fopen")
    /\ ppc' = [ppc EXCEPT ![p] = "dead"]
    /\ UNCHANGED <<fsvars, batch, todo, createTable, leaked, dvars, server, delivered, interrupted>>

ReleaseFile(p) ==
    /\ ppc[p] = "release"
    /\ \E m \in Minutes : /\ Current(p, m)
                          /\ release(m)
                          /\ todo' = [todo EXCEPT ![p] = @ \ {m}]
    /\ ppc' = [ppc EXCEPT ![p] = IF todo'[p] = {} THEN "remove" ELSE "acquire"]
    /\ UNCHANGED <<csv, sql, error, batch, createTable, leaked, dvars, server, env>>

\* One step of removeFilesLocal.  A remove that fails is only printed.
RemoveFile(p) ==
    /\ ppc[p] = "remove"
    /\ \E c \in batch[p] :
         /\ \/ csv' = csv \ {c} /\ UNCHANGED faults
            \/ csv' = csv /\ c \in csv /\ Failing("fs")
         /\ batch' = [batch EXCEPT ![p] = @ \ {c}]
    /\ IF batch'[p] = {}
       THEN /\ ppc' = [ppc EXCEPT ![p] = "list"]
            /\ createTable' = [createTable EXCEPT ![p] = FALSE]
       ELSE UNCHANGED <<ppc, createTable>>
    /\ UNCHANGED <<sql, lockdir, error, todo, leaked, dvars, server, delivered, interrupted>>

\* Mutants: a parser stops only when it has no file left; it does not remove the files first.
StopsWhenIdle(p) == ppc[p] = "list" /\ interrupted /\ \A c \in csv : Owner(c) # p
StopsBeforeRemoving(p) == ppc[p] \in {"list", "remove"} /\ interrupted

Stops(p) == ppc[p] = "list" /\ interrupted

ParserExit(p) ==
    /\ Stops(p)
    /\ ppc' = [ppc EXCEPT ![p] = "exited"]
    /\ UNCHANGED <<fsvars, batch, todo, createTable, leaked, dvars, server, env>>

ParserStep(p) ==
    \/ ListFiles(p) \/ Parse(p) \/ AcquireFile(p) \/ WriteFile(p) \/ OpenFails(p)
    \/ ReleaseFile(p) \/ RemoveFile(p) \/ ParserExit(p)

-----------------------------------------------------------------------------
(* The database process and the server. *)

TableOf(m) == IF OneTable THEN YearOf[m] ELSE m

\* Mutant: directories are not skipped; -m stands for the lock directory of minute m.
EntriesWithDirs == {m \in Minutes : sql[m] # <<>>} \cup {-m : m \in lockdir}

\* The names of readdir for which stat says that they are files and not lock directories.
Entries == {m \in Minutes : sql[m] # <<>>}

\* connectDB and opendir.  A connection that cannot be made is tried again later.
Connect ==
    /\ dpc = "connect" /\ ~interrupted
    /\ conn' = "up"
    /\ unread' = Entries
    /\ dpc' = "scan"
    /\ UNCHANGED <<fsvars, pvars, file, line, server, env>>

\* readdir returns every file that was there at opendir, and any file made since then.
PickFile ==
    /\ dpc = "scan" /\ ~interrupted
    /\ \E m \in Entries : unread' = unread \ {m} /\ file' = m
    /\ dpc' = "acquire"
    /\ UNCHANGED <<fsvars, pvars, line, conn, server, env>>

DbAcquire ==
    /\ dpc = "acquire"
    /\ acquire(file)
    /\ line' = 1
    /\ dpc' = "exec"
    /\ UNCHANGED <<csv, sql, error, pvars, unread, file, conn, server, env>>

\* The file does not open: it stays where it is, for the next scan.
DbOpenFails ==
    /\ dpc = "acquire" /\ Failing("fopen")
    /\ acquire(file)
    /\ dpc' = "release"
    /\ UNCHANGED <<csv, sql, error, pvars, unread, file, line, conn, server, delivered, interrupted>>

\* What the server does with a statement: CREATE TABLE IF NOT EXISTS always succeeds, an
\* INSERT needs the table, no row with the same key and, for candidates, their detections and
\* values that it can store.
Accepts(stmt) ==
    stmt.op = "insert" =>
        /\ <<TableOf(file), stmt.part>> \in tables
        /\ \A c \in stmt.rows : <<c, stmt.part>> \notin db
        /\ stmt.part = "b" => \A c \in stmt.rows : <<c, "t">> \in db /\ Kind[c] # "refused"

Apply(stmt) ==
    IF stmt.op = "create"
    THEN tables' = tables \cup {<<TableOf(file), stmt.part>>} /\ UNCHANGED db
    ELSE db' = db \cup (stmt.rows \X {stmt.part}) /\ UNCHANGED tables

\* PQexec of the next line, and PGRES_COMMAND_OK.
ExecLine ==
    /\ dpc = "exec" /\ line <= Len(sql[file])
    /\ conn = "up" /\ Accepts(sql[file][line])
    /\ Apply(sql[file][line])
    /\ line' = line + 1
    /\ UNCHANGED <<fsvars, pvars, dpc, unread, file, conn, env>>

\* PQexec of the next line, and any other result.
ExecFails ==
    /\ dpc = "exec" /\ line <= Len(sql[file])
    /\ \/ /\ conn = "down" \/ ~Accepts(sql[file][line])
          /\ UNCHANGED <<server, conn, faults>>
       \/ /\ conn = "up" /\ Accepts(sql[file][line]) /\ Failing("reply")
          /\ Apply(sql[file][line])
          /\ conn' = "down"
    /\ dpc' = "reject"
    /\ UNCHANGED <<fsvars, pvars, unread, file, line, delivered, interrupted>>

\* moveFilesLocal: "_1" is added to the name until no file in error/ has it.
MoveToError(m) == error' = [error EXCEPT ![m] = Append(@, sql[m])]

RejectFile ==
    /\ dpc = "reject"
    /\ \/ /\ MoveToError(file)
          /\ sql' = [sql EXCEPT ![file] = <<>>]
          /\ UNCHANGED faults
       \/ UNCHANGED <<error, sql>> /\ Failing("fs")
    /\ dpc' = "release"
    /\ UNCHANGED <<csv, lockdir, pvars, unread, file, line, conn, server, delivered, interrupted>>

\* Mutant: the last line is taken for the end of the file.
AtEndEarly == line >= Len(sql[file])

AtEnd == line > Len(sql[file])

\* getline reports the end of the file, and remove takes it out of sql/.
FinishFile ==
    /\ dpc = "exec" /\ AtEnd
    /\ \/ sql' = [sql EXCEPT ![file] = <<>>] /\ UNCHANGED faults
       \/ UNCHANGED sql /\ Failing("fs")
    /\ dpc' = "release"
    /\ UNCHANGED <<csv, lockdir, error, pvars, unread, file, line, conn, server, delivered, interrupted>>

DbRelease ==
    /\ dpc = "release"
    /\ release(file)
    /\ line' = 1
    /\ dpc' = "scan"
    /\ UNCHANGED <<csv, sql, error, pvars, unread, file, conn, server, env>>

\* closedir and closeConn: the directory is read or SIGINT was seen.
EndScan ==
    /\ dpc = "scan" /\ (unread = {} \/ interrupted)
    /\ unread' = {} /\ conn' = "down"
    /\ dpc' = "connect"
    /\ UNCHANGED <<fsvars, pvars, file, line, server, env>>

DbExit ==
    /\ dpc = "connect" /\ interrupted
    /\ dpc' = "exited"
    /\ UNCHANGED <<fsvars, pvars, unread, file, line, conn, server, env>>

DbStep ==
    \/ Connect \/ PickFile \/ DbAcquire \/ DbOpenFails \/ ExecLine \/ ExecFails
    \/ RejectFile \/ FinishFile \/ DbRelease \/ EndScan \/ DbExit

Next ==
    \/ \E c \in Csv : Deliver(c)
    \/ \E p \in Parsers : ParserStep(p)
    \/ DbStep
    \/ Interrupt \/ ConnectionLost \/ Restart

Spec == Init /\ [][Next]_vars

\* Every process keeps running; nothing says that csv files arrive or that faults happen.
Fairness == WF_vars(DbStep) /\ \A p \in Parsers : WF_vars(ParserStep(p))

FairSpec == Spec /\ Fairness

-----------------------------------------------------------------------------
(* What the component promises. *)

ParserHolds(p, m) == ppc[p] \in {"write", "release"} /\ Current(p, m)
DbHolds(m) == dpc \in {"exec", "reject", "release"} /\ file = m

\* Two processes never work on one sql file at a time, whatever locks a crash left behind:
\* what acquire and release in main.cpp are for.
MutualExclusion ==
    \A m \in Minutes :
        /\ \A p, q \in Parsers : ParserHolds(p, m) /\ ParserHolds(q, m) => p = q
        /\ \A p \in Parsers : ~(ParserHolds(p, m) /\ DbHolds(m))

\* While no process is killed and sql files can be opened, every lock directory belongs to a
\* process that will remove it: a parser that dies of an exception holds none, and stopping
\* leaves none behind.
LocksHaveOwners ==
    Faults \cap {"crash", "fopen"} = {} =>
        \A m \in lockdir : DbHolds(m) \/ \E p \in Parsers : ParserHolds(p, m)

InError == {r \in Rec : \E m \in Minutes : \E i \in DOMAIN error[m] : r \in RecsOf(error[m][i])}
Stored == {r \in Rec : \/ r \in db
                       \/ r \in InError
                       \/ \E m \in Minutes : r \in RecsOf(sql[m])}

\* A csv file that was delivered is still in csv/, or all it has to say is in a file of sql/
\* or error/ or in the database: csv2sql, removeFilesLocal and the database process lose
\* nothing between them, although each deletes its input.
NothingLost ==
    \A c \in Csv : delivered[c] > 0 => c \in csv \/ Yield[c] \subseteq Stored

\* readFileIntoLines "returns all lines of file": a csv file that removeFilesLocal removes
\* was read.
AllLinesRead == \A p \in Parsers : ppc[p] = "remove" => batch[p] \subseteq Opened(p)

\* If csv files are delivered once and the program is only ever stopped by SIGINT, and started
\* again, a file is moved to error/ only for a row that the server refuses: every line finds
\* its table, no row is inserted twice, and a file that was rejected half way spoils no other.
NoRowRejected ==
    Faults \subseteq {"sigint"} /\ MaxDeliveries = 1 =>
        \A m \in Minutes : \A i \in DOMAIN error[m] :
            \E c \in Csv : Kind[c] = "refused" /\ <<c, "b">> \in RecsOf(error[m][i])

\* Once SIGINT was seen every parser and the database process come to an end, unless the
\* program was killed, even if they wait for each other's locks.
StopsWhenInterrupted == interrupted ~> Stopped

\* What a csv file holds ends up in the database or in error/, file by file, as long as no
\* parser died of an exception that its own batch caused and the program is not stopped.
EventuallyImported ==
    \A c \in Csv :
        (delivered[c] > 0 /\ HasRows(c)) ~>
            \/ Yield[c] \subseteq db \cup InError
            \/ ppc[Owner(c)] = "dead"
            \/ interrupted

\* The component hands csv files over to the sql files, error/ and the database: a file
\* leaves csv/ only after its records are there, and a record never disappears again.
Custody == INSTANCE Handover WITH
    Item <- Csv, Yield <- Yield,
    arrived <- {c \in Csv : delivered[c] > 0}, source <- csv, kept <- Stored

HandsOver == Custody!Spec
=============================================================================
