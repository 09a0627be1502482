------------------------------ MODULE Importer ------------------------------
(***************************************************************************)
(* The whole program: Fetch brings csv files into csv/, Spool imports      *)
(* them.  The two share csv/, where unzip.sh puts what the parsers read,   *)
(* sql/, whose files Main counts before it asks for more, and the signal   *)
(* that ends them all.                                                     *)
(***************************************************************************)
EXTENDS Fetch

CONSTANTS
    MaxLocalCsvFiles,   \* Config::maxLocalCsvFiles
    LocalFaults,        \* Spool's Faults
    ParserCount, FilesPerTar, OneTable, SecondOf, MinuteOf, YearOf, Kind, Descriptors,
    MaxDeliveries       \* see Spool

VARIABLES csv, sql, lockdir, error, ppc, batch, minutes, createTable, leaked,
          dpc, unread, file, line, conn, db, tables, localFaults

\* History: a downloaded archive took the name of one of the last run that unzip.sh had still to
\* unpack, or to remove.  The numbers begin again with each start, so the code loses one then.
VARIABLE overwritten

Local == INSTANCE Spool WITH
    delivered <- unpacked, todo <- minutes, faults <- localFaults, Faults <- LocalFaults

\* Those of Spool, whose others are Fetch's.
ASSUME ImporterAssumption ==
    /\ MaxLocalCsvFiles \in Nat
    /\ ParserCount \in Nat \ {0} /\ FilesPerTar \in Nat
    /\ OneTable \in BOOLEAN
    /\ SecondOf \in [Csv -> Nat] /\ MinuteOf \in [Csv -> Nat \ {0}]
    /\ YearOf \in [Local!Minutes -> Nat]
    /\ Kind \in [Csv -> Local!Kinds]
    /\ Descriptors \in Nat /\ MaxDeliveries \in Nat
    /\ LocalFaults \subseteq Local!FaultKinds

\* What only the processes of Fetch touch, and what only those of Spool touch.
remoteOnly == <<archiveDir, upc, names, current, tmp, faults, cray, mvars, child, overwritten>>
localOnly == <<csv, sql, lockdir, error, ppc, batch, minutes, createTable, leaked, dpc, unread,
               file, line, conn, db, tables, localFaults>>

ImporterInit == Init /\ Local!Init /\ overwritten = FALSE

\* getFilesCount of sql/ counts the lock directories too.
SqlCount == Cardinality({m \in Local!Minutes : sql[m] # <<>>}) + Cardinality(lockdir)

\* Mutant: sql/ may hold fewer files.
CrowdedSooner == SqlCount >= MaxLocalCsvFiles

Crowded == SqlCount > MaxLocalCsvFiles

\* Main asks for another archive only when there are not too many files in sql/.
MainRuns == MainStep /\ (num' # num => ~Crowded) /\ UNCHANGED <<localOnly, overwritten>>

ChildRuns ==
    /\ ChildStep /\ UNCHANGED localOnly
    /\ overwritten' = (overwritten \/ (cpc' = "delete" /\ cpc # "delete" /\ <<"completed", num>> \in archive))

CrayRuns(i) == CrayStep(i) /\ UNCHANGED <<localOnly, overwritten>>

\* mv hands a csv file over from tmp/ to csv/.
HandOver(c) == MoveFile(c) /\ UnzipFrame /\ Local!Deliver(c) /\ UNCHANGED overwritten

UnzipRuns ==
    \/ UnzipAlone /\ UnzipFrame /\ UNCHANGED <<localOnly, overwritten>>
    \/ \E c \in Csv : HandOver(c)

ParserRuns(p) == Local!ParserStep(p) /\ UNCHANGED remoteOnly
DbRuns == Local!DbStep /\ UNCHANGED remoteOnly

\* SIGINT reaches Main, the parsers and the database process at once.
SigInt == Interrupt /\ Local!Interrupt /\ UNCHANGED overwritten

\* Every process has come to its end.
AllStopped == mpc = "exited" /\ upc = "exited" /\ Local!Stopped

\* The program is started again; unless crashes are looked at, only when nothing of it runs.
StartAgain ==
    /\ "crash" \in LocalFaults \/ AllStopped
    /\ Restart /\ Local!Restart /\ UNCHANGED overwritten

ImporterNext ==
    \/ \E t \in Tar : Arrive(t) /\ UNCHANGED <<localOnly, overwritten>>
    \/ SigInt \/ StartAgain
    \/ Local!ConnectionLost /\ UNCHANGED remoteOnly
    \/ \E i \in DOMAIN cmds : CrayRuns(i)
    \/ ChildRuns
    \/ MainRuns
    \/ UnzipRuns
    \/ \E p \in Local!Parsers : ParserRuns(p)
    \/ DbRuns

ivars == <<vars, localOnly, overwritten>>

ImporterSpec == ImporterInit /\ [][ImporterNext]_ivars

\* Every process keeps running, and so do the commands on the Cray.
ImporterFairness ==
    /\ WF_ivars(MainRuns) /\ WF_ivars(ChildRuns) /\ WF_ivars(UnzipRuns) /\ WF_ivars(DbRuns)
    /\ \A p \in Local!Parsers : WF_ivars(ParserRuns(p))
    /\ \A i \in 1 .. MaxNum * (MaxRestarts + 1) : WF_ivars(i \in DOMAIN cmds /\ CrayRuns(i))

ImporterFairSpec == ImporterSpec /\ ImporterFairness

-----------------------------------------------------------------------------
(* What the program promises. *)

\* The records of a tar, and those that the program has not lost: their csv file waits in an
\* archive or in csv/, or they are in sql/, error/ or the database.
Records(tars) == UNION {Local!Yield[c] : c \in FilesOf(tars)}
NotLost == (UNION {Local!Yield[c] : c \in csv \cup (Held \ {c \in Csv : unpacked[c] > 0})})
               \cup Local!Stored

\* From the Cray to the database: a tar is put on a .done list only when it is packed, and from
\* then on its rows are somewhere, through all that deletes its input on the way:
\* createArchive, downloadArchive, unzip.sh, removeFilesLocal and the database process, until an
\* archive of the last run is overwritten.
EndToEnd == INSTANCE Handover WITH
    Item <- Tar, Yield <- [t \in Tar |-> Records({t})],
    arrived <- results, source <- results \ listed, kept <- NotLost

HandsOverEndToEnd == EndToEnd!Init /\ [][EndToEnd!Next \/ overwritten']_(EndToEnd!vars)

\* Nothing has gone wrong: the program was at most stopped by SIGINT and started again.
OnlyStopped ==
    /\ "crash" \notin LocalFaults
    /\ Cardinality(faults) = Times("sigint") + Times("restart") /\ localFaults = Cardinality(faults)

\* As long as the program is only stopped by SIGINT, and started again, nothing is imported
\* twice: error/ holds only files with a row that the server refuses.
ImportedOnce ==
    OnlyStopped =>
        \A m \in Local!Minutes : \A i \in DOMAIN error[m] :
            \E c \in Csv : Kind[c] = "refused" /\ <<c, "b">> \in Local!RecsOf(error[m][i])

\* SIGINT ends Main, the parsers, unless an exception ended them before, and the database
\* process at any point, while Main waits for room or for a child too.  It ends unzip.sh as well
\* if the glob of its first loop came before Main's end; a bb_exit_unzip that this glob finds is
\* removed, and the script goes on (UnzipStops of Fetch).
ProgramStops ==
    /\ interrupted ~> mpc = "exited" /\ Local!Stopped
    /\ interrupted /\ mpc # "exited" /\ upc # "start" ~> AllStopped

\* Every row of every tar that createArchive finds once the glob of unzip.sh's first loop is done
\* ends up in the database or in error/, although Main waits while sql/ or archive/ is full,
\* until SIGINT or unless the file's parser died of an exception.  An earlier download can be
\* removed by that loop, and one that fails is not tried again: the archive stays on the Cray.
EventuallyInDatabase ==
    \A t \in Tar : \A c \in CsvOf[t] :
        t \in results \ listed /\ upc # "start" ~>
            \/ interrupted
            \/ ppc[Local!Owner(c)] = "dead"
            \/ Local!Yield[c] \subseteq db \cup Local!InError
=============================================================================
