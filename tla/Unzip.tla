------------------------------- MODULE Unzip -------------------------------
(***************************************************************************)
(* unzip.sh, which the program starts as its archive process: it unpacks   *)
(* the archives that Main has downloaded into archive/, moves the csv      *)
(* files to csv/ and stops when it finds the file bb_exit_unzip.           *)
(* An archive holds tars, and each tar csv files.                          *)
(***************************************************************************)
EXTENDS Integers, Sequences, FiniteSets

CONSTANTS
    Tar,       \* the tars that the Cray produces
    Csv,       \* the csv files in them
    CsvOf,     \* those of each tar
    MaxNum,    \* bound: how many archives one run of the program asks for
    Faults,    \* the faults that can happen, see FaultKinds
    MaxFaults  \* bound: how many of them happen

\* "tar", "mv": unzip.sh's tar or mv stops half way.  The others are Fetch's.
FaultKinds == {"tar", "mv", "sigint", "restart", "ssh", "reply", "remote", "scp", "fs",
               "opendir", "reaped"}

ASSUME UnzipAssumption ==
    /\ CsvOf \in [Tar -> SUBSET Csv]
    /\ MaxNum \in Nat /\ MaxFaults \in Nat
    /\ Faults \subseteq FaultKinds

\* A picture's csv file is in one tar only.
ASSUME TarAssumption == \A t, u \in Tar : t # u => CsvOf[t] \cap CsvOf[u] = {}

Num == 1 .. MaxNum

\* The names in archive/: "done" is bb_done_archive<n>.tgz, a download under way, and
\* "completed" is that name after completed_ was put in front of it.
Exit == <<"exit", 0>>                          \* bb_exit_unzip
Completed == {"completed"} \X Num
Name == ({"done"} \X Num) \cup Completed \cup {Exit}

VARIABLES
    archive,   \* the names in archive/
    content,   \* the tars that can be unpacked from each of them
    upc,       \* where unzip.sh is
    names,     \* the names of its glob that the for loop has still to visit
    current,   \* the archive it works on or did last, Exit before the first
    tmp,       \* the csv files in tmp/
    unpacked,  \* how often each csv file was moved to csv/
    faults     \* <<kind, n>>: a fault that happened for the n-th time

archiveDir == <<archive, content>>
uvars == <<upc, names, current, tmp, unpacked>>

UnzipTypeOK ==
    /\ archive \subseteq Name
    /\ content \in [Name -> SUBSET Tar]
    /\ upc \in {"start", "tidy", "scan", "each", "extract", "move", "remove", "exited"}
    /\ names \subseteq Name
    /\ current \in IF upc \in {"extract", "move", "remove"} THEN Completed
                ELSE Completed \cup {Exit}
    /\ tmp \subseteq Csv
    /\ unpacked \in [Csv -> Nat]
    /\ faults \subseteq FaultKinds \X (1 .. MaxFaults) /\ Cardinality(faults) <= MaxFaults

UnzipInit ==
    /\ archive = {} /\ content = [a \in Name |-> {}]
    /\ upc = "start" /\ names = {} /\ current = Exit /\ tmp = {}
    /\ unpacked = [c \in Csv |-> 0]
    /\ faults = {}

Times(kind) == Cardinality({n \in 1 .. MaxFaults : <<kind, n>> \in faults})

\* A step that goes wrong counts against MaxFaults.
Failing(kind) ==
    /\ kind \in Faults /\ Cardinality(faults) < MaxFaults
    /\ faults' = faults \cup {<<kind, Times(kind) + 1>>}

\* A file of archive/ is written, or removed if it is there.
PutFile(a, tars) ==
    /\ archive' = archive \cup {a}
    /\ content' = [content EXCEPT ![a] = tars]

DeleteFile(a) ==
    /\ archive' = archive \ {a}
    /\ content' = [content EXCEPT ![a] = {}]

\* rm tmp/*, and the glob of the first loop.
UnzipStart ==
    /\ upc = "start"
    /\ tmp' = {}
    /\ names' = archive
    /\ upc' = "tidy"
    /\ UNCHANGED <<archiveDir, current, unpacked, faults>>

\* Mutant: the first loop removes whatever it finds.
AnyArchive(a) == TRUE

Unfinished(a) == a \notin Completed

\* The first loop removes what is not completed_, a forgotten bb_exit_unzip included.
Tidy ==
    /\ upc = "tidy"
    /\ \E a \in names :
         /\ names' = names \ {a}
         /\ IF Unfinished(a) THEN DeleteFile(a) ELSE UNCHANGED archiveDir
    /\ UNCHANGED <<upc, current, tmp, unpacked, faults>>

TidyEnds ==
    /\ upc = "tidy" /\ names = {}
    /\ upc' = "scan"
    /\ UNCHANGED <<archiveDir, names, current, tmp, unpacked, faults>>

\* The glob of the loop that goes on for ever.
Scan ==
    /\ upc = "scan"
    /\ names' = archive
    /\ upc' = "each"
    /\ UNCHANGED <<archiveDir, current, tmp, unpacked, faults>>

\* bb_exit_unzip comes before completed_ in the order of the glob.
UnzipExit ==
    /\ upc = "each" /\ Exit \in names
    /\ DeleteFile(Exit)
    /\ names' = {}
    /\ upc' = "exited"
    /\ UNCHANGED <<current, tmp, unpacked, faults>>

\* Mutant: what is still being downloaded is unpacked too.
UnpackedAtOnce(a) == a # Exit

\* $archive =~ $pat
Unpackable(a) == a \in Completed

Pick ==
    /\ upc = "each" /\ Exit \notin names
    /\ \E a \in names : Unpackable(a) /\ current' = a /\ names' = names \ {a}
    /\ upc' = "extract"
    /\ UNCHANGED <<archiveDir, tmp, unpacked, faults>>

ScanEnds ==
    /\ upc = "each" /\ \A a \in names : a # Exit /\ ~Unpackable(a)
    /\ names' = {}
    /\ upc' = "scan"
    /\ UNCHANGED <<archiveDir, current, tmp, unpacked, faults>>

FilesOf(tars) == UNION {CsvOf[t] : t \in tars}

\* tar unpacks the tars of the archive into tmp/.
Extract ==
    /\ upc = "extract"
    /\ \/ tmp' = tmp \cup FilesOf(content[current]) /\ UNCHANGED faults
       \/ /\ Failing("tar")
          /\ \E some \in SUBSET FilesOf(content[current]) : tmp' = tmp \cup some
    /\ upc' = "move"
    /\ UNCHANGED <<archiveDir, names, current, unpacked>>

\* mv moves whatever is in tmp/, file by file.
MoveFile(c) ==
    /\ upc = "move" /\ c \in tmp
    /\ tmp' = tmp \ {c}
    /\ unpacked' = [unpacked EXCEPT ![c] = @ + 1]
    /\ UNCHANGED <<archiveDir, upc, names, current, faults>>

MoveEnds ==
    /\ upc = "move"
    /\ \/ tmp = {} /\ UNCHANGED faults
       \/ tmp # {} /\ Failing("mv")
    /\ upc' = "remove"
    /\ UNCHANGED <<archiveDir, names, current, tmp, unpacked>>

\* rm, whatever tar and mv returned.
Remove ==
    /\ upc = "remove"
    /\ DeleteFile(current)
    /\ upc' = "each"
    /\ UNCHANGED <<names, current, tmp, unpacked, faults>>

\* Every step of unzip.sh but the delivery of a csv file.
UnzipAlone ==
    \/ UnzipStart \/ Tidy \/ TidyEnds \/ Scan \/ UnzipExit \/ Pick \/ ScanEnds
    \/ Extract \/ MoveEnds \/ Remove
=============================================================================
