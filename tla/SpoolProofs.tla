---------------------------- MODULE SpoolProofs ----------------------------
(***************************************************************************)
(* Theorems about Spool, for every number of parsers, every set of csv     *)
(* files and every bound on deliveries and faults.                         *)
(***************************************************************************)
EXTENDS Spool, TLAPS

LEMMA ConstantTypes ==
    /\ ParserCount \in Nat /\ ParserCount > 0
    /\ Minutes \subseteq Nat \ {0}
    /\ \A m \in Minutes : TableOf(m) \in Nat
    /\ "t" \in Parts /\ "b" \in Parts
    /\ MaxDeliveries \in Nat /\ MaxFaults \in Nat
    /\ <<>> \in Seq(Line) /\ <<>> \in Seq(Seq(Line))
BY SpoolAssumption DEF Minutes, TableOf, Parts

\* csv2sql appends well-formed lines.
LEMMA AppendedType ==
    ASSUME NEW p \in Parsers, NEW m \in Minutes, batch \in [Parsers -> SUBSET Csv]
    PROVE  Appended(p, m) \in Seq(Line)
<1>1. RowsFor(p, m) \in SUBSET Csv
  BY DEF RowsFor, Opened
<1>2. CreateLine("t") \in Line /\ CreateLine("b") \in Line
  BY DEF CreateLine, Line, Parts
<1>3. InsertLine("t", RowsFor(p, m)) \in Line /\ InsertLine("b", RowsFor(p, m)) \in Line
  BY <1>1 DEF InsertLine, Line, Parts
<1> QED
  BY <1>2, <1>3 DEF Appended

\* The key that csv2sql works on is unique.
LEMMA CurrentUnique ==
    ASSUME NEW p \in Parsers, NEW m \in Minutes, NEW n \in Minutes,
           Current(p, m), Current(p, n)
    PROVE  m = n
BY ConstantTypes DEF Current

\* A statement leaves rows and tables of the expected kind.
LEMMA ApplyType ==
    ASSUME NEW stmt \in Line, file \in Minutes, db \subseteq Rec, tables \subseteq Nat \X Parts,
           Apply(stmt)
    PROVE  db' \subseteq Rec /\ tables' \subseteq Nat \X Parts
<1>1. stmt.part \in Parts /\ stmt.rows \subseteq Csv
  BY DEF Line
<1>2. <<TableOf(file), stmt.part>> \in Nat \X Parts
  BY <1>1, ConstantTypes
<1>3. stmt.rows \X {stmt.part} \subseteq Rec
  BY <1>1 DEF Rec
<1> QED
  BY <1>2, <1>3 DEF Apply

LEMMA TypeInit == Init => TypeOK
<1> SUFFICES ASSUME Init PROVE TypeOK
  OBVIOUS
<1> USE ConstantTypes DEF Init
<1>1. FsTypeOK
  BY DEF FsTypeOK
<1>2. ParserTypeOK
  <2>1. createTable \in [Parsers -> BOOLEAN]
    BY Zenon
  <2> QED
    BY <2>1 DEF ParserTypeOK
<1>3. DbTypeOK
  BY DEF DbTypeOK
<1>4. ServerTypeOK
  BY DEF ServerTypeOK
<1>5. EnvTypeOK
  <2>1. interrupted \in BOOLEAN
    BY Zenon
  <2> QED
    BY <2>1 DEF EnvTypeOK
<1> QED
  BY <1>1, <1>2, <1>3, <1>4, <1>5 DEF TypeOK

\* A step that leaves a group of variables alone leaves their types alone.
LEMMA TypeFrame ==
    /\ FsTypeOK /\ UNCHANGED fsvars => FsTypeOK'
    /\ ParserTypeOK /\ UNCHANGED pvars => ParserTypeOK'
    /\ DbTypeOK /\ UNCHANGED dvars => DbTypeOK'
    /\ ServerTypeOK /\ UNCHANGED server => ServerTypeOK'
    /\ EnvTypeOK /\ UNCHANGED env => EnvTypeOK'
<1>1. FsTypeOK /\ UNCHANGED fsvars => FsTypeOK'
  BY DEF FsTypeOK, fsvars
<1>2. ParserTypeOK /\ UNCHANGED pvars => ParserTypeOK'
  BY DEF ParserTypeOK, pvars
<1>3. DbTypeOK /\ UNCHANGED dvars => DbTypeOK'
  BY DEF DbTypeOK, dvars
<1>4. ServerTypeOK /\ UNCHANGED server => ServerTypeOK'
  BY DEF ServerTypeOK, server
<1>5. EnvTypeOK /\ UNCHANGED env => EnvTypeOK'
  BY DEF EnvTypeOK, env
<1> QED
  BY <1>1, <1>2, <1>3, <1>4, <1>5

LEMMA TypeStep == TypeOK /\ [Next]_vars => TypeOK'
<1> SUFFICES ASSUME TypeOK, [Next]_vars PROVE TypeOK'
  OBVIOUS
<1>0. FsTypeOK /\ ParserTypeOK /\ DbTypeOK /\ ServerTypeOK /\ EnvTypeOK
  BY DEF TypeOK
<1>1. ASSUME NEW c \in Csv, Deliver(c) PROVE TypeOK'
  <2>1. FsTypeOK'
    BY <1>0, <1>1, ConstantTypes DEF Deliver, FsTypeOK
  <2>2. EnvTypeOK'
    BY <1>0, <1>1, ConstantTypes DEF Deliver, EnvTypeOK
  <2> QED
    BY <1>0, <1>1, <2>1, <2>2, TypeFrame DEF Deliver, TypeOK
<1>2. ASSUME NEW p \in Parsers, ListFiles(p) PROVE TypeOK'
  <2>1. ParserTypeOK'
    <3>1. PICK fl \in SUBSET Csv, early \in BOOLEAN :
             /\ batch' = [batch EXCEPT ![p] = fl]
             /\ leaked' = [leaked EXCEPT ![p] = IF early THEN @ + 1 ELSE @]
      BY <1>0, <1>2 DEF ListFiles, FsTypeOK
    <3>2. leaked' \in [Parsers -> Nat]
      BY <1>0, <3>1 DEF ParserTypeOK
    <3> QED
      BY <1>0, <1>2, <3>1, <3>2 DEF ListFiles, ParserTypeOK
  <2> QED
    BY <1>0, <1>2, <2>1, TypeFrame DEF ListFiles, TypeOK
<1>3. ASSUME NEW p \in Parsers, Parse(p) PROVE TypeOK'
  <2>1. ParserTypeOK'
    BY <1>0, <1>3, ConstantTypes DEF Parse, ParserTypeOK
  <2> QED
    BY <1>0, <1>3, <2>1, TypeFrame DEF Parse, TypeOK
<1>4. ASSUME NEW p \in Parsers, AcquireFile(p) PROVE TypeOK'
  <2>1. FsTypeOK'
    BY <1>0, <1>4, ConstantTypes DEF AcquireFile, FsTypeOK, acquire
  <2>2. ParserTypeOK'
    BY <1>0, <1>4, ConstantTypes DEF AcquireFile, ParserTypeOK
  <2> QED
    BY <1>0, <1>4, <2>1, <2>2, TypeFrame DEF AcquireFile, TypeOK
<1>5. ASSUME NEW p \in Parsers, WriteFile(p) PROVE TypeOK'
  <2>1. FsTypeOK'
    <3>1. PICK m \in Minutes : sql' = [sql EXCEPT ![m] = @ \o Appended(p, m)]
      BY <1>5 DEF WriteFile
    <3>2. Appended(p, m) \in Seq(Line)
      BY <1>0, AppendedType DEF ParserTypeOK
    <3>3. sql[m] \o Appended(p, m) \in Seq(Line)
      BY <1>0, <3>2 DEF FsTypeOK
    <3> QED
      BY <1>0, <1>5, <3>1, <3>3 DEF WriteFile, FsTypeOK
  <2>2. ParserTypeOK'
    BY <1>0, <1>5, ConstantTypes DEF WriteFile, ParserTypeOK
  <2> QED
    BY <1>0, <1>5, <2>1, <2>2, TypeFrame DEF WriteFile, TypeOK
<1>23. ASSUME NEW p \in Parsers, OpenFails(p) PROVE TypeOK'
  <2>1. ParserTypeOK'
    BY <1>0, <1>23, ConstantTypes DEF OpenFails, ParserTypeOK
  <2>2. EnvTypeOK'
    BY <1>0, <1>23, ConstantTypes DEF OpenFails, EnvTypeOK, Failing
  <2> QED
    BY <1>0, <1>23, <2>1, <2>2, TypeFrame DEF OpenFails, TypeOK
<1>6. ASSUME NEW p \in Parsers, ReleaseFile(p) PROVE TypeOK'
  <2>1. FsTypeOK'
    BY <1>0, <1>6, ConstantTypes DEF ReleaseFile, FsTypeOK, release
  <2>2. ParserTypeOK'
    BY <1>0, <1>6, ConstantTypes DEF ReleaseFile, ParserTypeOK
  <2> QED
    BY <1>0, <1>6, <2>1, <2>2, TypeFrame DEF ReleaseFile, TypeOK
<1>7. ASSUME NEW p \in Parsers, RemoveFile(p) PROVE TypeOK'
  <2>1. FsTypeOK'
    BY <1>0, <1>7, ConstantTypes DEF RemoveFile, FsTypeOK
  <2>2. ParserTypeOK'
    BY <1>0, <1>7, ConstantTypes DEF RemoveFile, ParserTypeOK
  <2>3. EnvTypeOK'
    BY <1>0, <1>7, ConstantTypes DEF RemoveFile, EnvTypeOK, Failing
  <2> QED
    BY <1>0, <1>7, <2>1, <2>2, <2>3, TypeFrame DEF RemoveFile, TypeOK
<1>8. ASSUME NEW p \in Parsers, ParserExit(p) PROVE TypeOK'
  <2>1. ParserTypeOK'
    BY <1>0, <1>8, ConstantTypes DEF ParserExit, ParserTypeOK
  <2> QED
    BY <1>0, <1>8, <2>1, TypeFrame DEF ParserExit, TypeOK
<1>9. CASE Connect
  <2>1. DbTypeOK'
    BY <1>0, <1>9, ConstantTypes DEF Connect, Entries, DbTypeOK
  <2> QED
    BY <1>0, <1>9, <2>1, TypeFrame DEF Connect, TypeOK
<1>10. CASE PickFile
  <2>1. DbTypeOK'
    BY <1>0, <1>10, ConstantTypes DEF PickFile, Entries, DbTypeOK
  <2> QED
    BY <1>0, <1>10, <2>1, TypeFrame DEF PickFile, TypeOK
<1>11. CASE DbAcquire
  <2>1. FsTypeOK'
    BY <1>0, <1>11, ConstantTypes DEF DbAcquire, FsTypeOK, DbTypeOK, acquire
  <2>2. DbTypeOK'
    BY <1>0, <1>11, ConstantTypes DEF DbAcquire, DbTypeOK
  <2> QED
    BY <1>0, <1>11, <2>1, <2>2, TypeFrame DEF DbAcquire, TypeOK
<1>24. CASE DbOpenFails
  <2>1. FsTypeOK'
    BY <1>0, <1>24, ConstantTypes DEF DbOpenFails, FsTypeOK, DbTypeOK, acquire
  <2>2. DbTypeOK'
    BY <1>0, <1>24, ConstantTypes DEF DbOpenFails, DbTypeOK
  <2>3. EnvTypeOK'
    BY <1>0, <1>24, ConstantTypes DEF DbOpenFails, EnvTypeOK, Failing
  <2> QED
    BY <1>0, <1>24, <2>1, <2>2, <2>3, TypeFrame DEF DbOpenFails, TypeOK
<1>12. CASE ExecLine
  <2>1. DbTypeOK'
    BY <1>0, <1>12, ConstantTypes DEF ExecLine, DbTypeOK
  <2>2. ServerTypeOK'
    <3>1. file \in Minutes /\ sql[file] \in Seq(Line)
      BY <1>0, <1>12 DEF ExecLine, DbTypeOK, FsTypeOK
    <3>2. sql[file][line] \in Line
      BY <1>0, <1>12, <3>1 DEF ExecLine, DbTypeOK
    <3> QED
      BY <1>0, <1>12, <3>1, <3>2, ApplyType DEF ExecLine, ServerTypeOK, server
  <2> QED
    BY <1>0, <1>12, <2>1, <2>2, TypeFrame DEF ExecLine, TypeOK
<1>13. CASE ExecFails
  <2>1. DbTypeOK'
    BY <1>0, <1>13, ConstantTypes DEF ExecFails, DbTypeOK
  <2>2. ServerTypeOK'
    <3>1. file \in Minutes /\ sql[file] \in Seq(Line)
      BY <1>0, <1>13 DEF ExecFails, DbTypeOK, FsTypeOK
    <3>2. sql[file][line] \in Line
      BY <1>0, <1>13, <3>1 DEF ExecFails, DbTypeOK
    <3> QED
      BY <1>0, <1>13, <3>1, <3>2, ApplyType DEF ExecFails, ServerTypeOK, server
  <2>3. EnvTypeOK'
    BY <1>0, <1>13, ConstantTypes DEF ExecFails, EnvTypeOK, Failing
  <2> QED
    BY <1>0, <1>13, <2>1, <2>2, <2>3, TypeFrame DEF ExecFails, TypeOK
<1>14. CASE RejectFile
  <2>1. FsTypeOK'
    <3>1. file \in Minutes
      BY <1>0, <1>14 DEF RejectFile, DbTypeOK
    <3>2. sql[file] \in Seq(Line) /\ error[file] \in Seq(Seq(Line))
      BY <1>0, <3>1 DEF FsTypeOK
    <3>3. Append(error[file], sql[file]) \in Seq(Seq(Line))
      <4> DEFINE Content == Seq(Line)
      <4>1. sql[file] \in Content /\ error[file] \in Seq(Content)
        BY <3>2
      <4> HIDE DEF Content
      <4>2. Append(error[file], sql[file]) \in Seq(Content)
        BY <4>1
      <4> QED
        BY <4>2 DEF Content
    <3> QED
      BY <1>0, <1>14, <3>1, <3>3, ConstantTypes DEF RejectFile, FsTypeOK, MoveToError
  <2>2. DbTypeOK'
    BY <1>0, <1>14, ConstantTypes DEF RejectFile, DbTypeOK
  <2>3. EnvTypeOK'
    BY <1>0, <1>14, ConstantTypes DEF RejectFile, EnvTypeOK, Failing
  <2> QED
    BY <1>0, <1>14, <2>1, <2>2, <2>3, TypeFrame DEF RejectFile, TypeOK
<1>15. CASE FinishFile
  <2>1. FsTypeOK'
    BY <1>0, <1>15, ConstantTypes DEF FinishFile, FsTypeOK
  <2>2. DbTypeOK'
    BY <1>0, <1>15, ConstantTypes DEF FinishFile, DbTypeOK
  <2>3. EnvTypeOK'
    BY <1>0, <1>15, ConstantTypes DEF FinishFile, EnvTypeOK, Failing
  <2> QED
    BY <1>0, <1>15, <2>1, <2>2, <2>3, TypeFrame DEF FinishFile, TypeOK
<1>16. CASE DbRelease
  <2>1. FsTypeOK'
    BY <1>0, <1>16, ConstantTypes DEF DbRelease, FsTypeOK, DbTypeOK, release
  <2>2. DbTypeOK'
    BY <1>0, <1>16, ConstantTypes DEF DbRelease, DbTypeOK
  <2> QED
    BY <1>0, <1>16, <2>1, <2>2, TypeFrame DEF DbRelease, TypeOK
<1>17. CASE EndScan
  <2>1. DbTypeOK'
    BY <1>0, <1>17, ConstantTypes DEF EndScan, DbTypeOK
  <2> QED
    BY <1>0, <1>17, <2>1, TypeFrame DEF EndScan, TypeOK
<1>18. CASE DbExit
  <2>1. DbTypeOK'
    BY <1>0, <1>18, ConstantTypes DEF DbExit, DbTypeOK
  <2> QED
    BY <1>0, <1>18, <2>1, TypeFrame DEF DbExit, TypeOK
<1>19. CASE Interrupt
  <2>1. EnvTypeOK'
    <3>1. interrupted' \in BOOLEAN
      BY <1>19, Zenon DEF Interrupt
    <3> QED
      BY <1>0, <1>19, <3>1, ConstantTypes DEF Interrupt, EnvTypeOK, Failing
  <2> QED
    BY <1>0, <1>19, <2>1, TypeFrame DEF Interrupt, TypeOK
<1>20. CASE ConnectionLost
  <2>1. DbTypeOK'
    BY <1>0, <1>20, ConstantTypes DEF ConnectionLost, DbTypeOK
  <2>2. EnvTypeOK'
    BY <1>0, <1>20, ConstantTypes DEF ConnectionLost, EnvTypeOK, Failing
  <2> QED
    BY <1>0, <1>20, <2>1, <2>2, TypeFrame DEF ConnectionLost, TypeOK
<1>21. CASE Restart
  <2>1. ParserTypeOK'
    BY <1>0, <1>21, ConstantTypes DEF Restart, ParserTypeOK
  <2>2. DbTypeOK'
    BY <1>0, <1>21, ConstantTypes DEF Restart, DbTypeOK
  <2>3. EnvTypeOK'
    <3>1. interrupted' \in BOOLEAN
      BY <1>21, Zenon DEF Restart
    <3> QED
      BY <1>0, <1>21, <3>1, ConstantTypes DEF Restart, EnvTypeOK, Failing
  <2> QED
    BY <1>0, <1>21, <2>1, <2>2, <2>3, TypeFrame DEF Restart, TypeOK
<1>22. CASE UNCHANGED vars
  BY <1>0, <1>22, TypeFrame DEF vars, TypeOK
<1> QED
  BY <1>1, <1>2, <1>3, <1>4, <1>5, <1>6, <1>7, <1>8, <1>9, <1>10, <1>11, <1>12, <1>13,
     <1>14, <1>15, <1>16, <1>17, <1>18, <1>19, <1>20, <1>21, <1>22, <1>23, <1>24
     DEF Next, ParserStep, DbStep

\* Every variable keeps its type: in particular the locks are on sql files, a batch is of csv
\* files, and the faults stay within their bound.
THEOREM SpoolTypeOK == Spec => []TypeOK
BY TypeInit, TypeStep, PTL DEF Spec

-----------------------------------------------------------------------------
(* Mutual exclusion. *)

\* A lock directory that a process works under exists, whoever made the others.
LockInv ==
    /\ \A p \in Parsers : \A m \in Minutes : ParserHolds(p, m) => m \in lockdir
    /\ \A m \in Minutes : DbHolds(m) => m \in lockdir
    /\ MutualExclusion

LEMMA LockInit == Init => LockInv
BY DEF Init, LockInv, MutualExclusion, ParserHolds, DbHolds

\* A step that leaves where the processes are alone leaves the locks alone.
LEMMA LockFrame ==
    ASSUME UNCHANGED <<ppc, todo, dpc, file, lockdir>>, LockInv
    PROVE  LockInv'
BY DEF LockInv, MutualExclusion, ParserHolds, DbHolds, Current

\* A step that takes no lock and gives none up, and after which a process holds a file only
\* if it did before, keeps the locks.
LEMMA LockKept ==
    ASSUME LockInv, UNCHANGED lockdir,
           \A p \in Parsers : \A m \in Minutes : ParserHolds(p, m)' => ParserHolds(p, m),
           \A m \in Minutes : DbHolds(m)' => DbHolds(m)
    PROVE  LockInv'
BY DEF LockInv, MutualExclusion

LEMMA LockStep == TypeOK /\ LockInv /\ [Next]_vars => LockInv'
<1> SUFFICES ASSUME TypeOK, LockInv, [Next]_vars PROVE LockInv'
  OBVIOUS
<1>0. /\ ppc = [q \in Parsers |-> ppc[q]]
      /\ todo \in [Parsers -> SUBSET Minutes]
  BY DEF TypeOK, ParserTypeOK
<1>1. ASSUME NEW p \in Parsers, ListFiles(p) \/ Parse(p) \/ RemoveFile(p) \/ ParserExit(p)
      PROVE  LockInv'
  <2>1. UNCHANGED <<lockdir, dpc, file>>
    BY <1>1 DEF ListFiles, Parse, RemoveFile, ParserExit, fsvars, dvars
  <2>2. /\ ppc[p] \notin {"write", "release"} /\ ppc'[p] \notin {"write", "release"}
        /\ \A q \in Parsers : q # p => ppc'[q] = ppc[q] /\ todo'[q] = todo[q]
    BY <1>0, <1>1 DEF ListFiles, Parse, RemoveFile, ParserExit, Stops
  <2>3. \A q \in Parsers : \A m \in Minutes : ParserHolds(q, m)' => ParserHolds(q, m)
    BY <2>2 DEF ParserHolds, Current
  <2> QED
    BY <2>1, <2>3, LockKept DEF DbHolds
<1>2. ASSUME NEW p \in Parsers, AcquireFile(p) PROVE LockInv'
  <2>1. PICK m \in Minutes : Current(p, m) /\ m \notin lockdir /\ lockdir' = lockdir \cup {m}
    BY <1>2 DEF AcquireFile, acquire, MkdirSucceeds
  <2>2. /\ UNCHANGED <<todo, dpc, file>>
        /\ ppc' = [ppc EXCEPT ![p] = "write"]
    BY <1>2 DEF AcquireFile, dvars
  <2>3. \A n \in Minutes : DbHolds(n)' <=> DbHolds(n)
    BY <2>2 DEF DbHolds
  <2>4. \A q \in Parsers \ {p} : \A n \in Minutes : ParserHolds(q, n)' <=> ParserHolds(q, n)
    BY <1>0, <2>2 DEF ParserHolds, Current
  <2>5. \A n \in Minutes : ParserHolds(p, n)' => n = m
    BY <2>1, <2>2, CurrentUnique DEF ParserHolds, Current
  <2> QED
    BY <2>1, <2>3, <2>4, <2>5 DEF LockInv, MutualExclusion
<1>3. ASSUME NEW p \in Parsers, WriteFile(p) PROVE LockInv'
  <2>1. UNCHANGED <<lockdir, todo, dpc, file>> /\ ppc' = [ppc EXCEPT ![p] = "release"]
    BY <1>3 DEF WriteFile, dvars
  <2>2. \A q \in Parsers : \A m \in Minutes : ParserHolds(q, m)' => ParserHolds(q, m)
    BY <1>0, <1>3, <2>1 DEF WriteFile, ParserHolds, Current
  <2> QED
    BY <2>1, <2>2, LockKept DEF DbHolds
<1>10. ASSUME NEW p \in Parsers, OpenFails(p) PROVE LockInv'
  <2>1. UNCHANGED <<lockdir, todo, dpc, file>> /\ ppc' = [ppc EXCEPT ![p] = "dead"]
    BY <1>10 DEF OpenFails, fsvars, dvars
  <2>2. \A q \in Parsers : \A m \in Minutes : ParserHolds(q, m)' => ParserHolds(q, m)
    BY <1>0, <2>1 DEF ParserHolds, Current
  <2> QED
    BY <2>1, <2>2, LockKept DEF DbHolds
<1>4. ASSUME NEW p \in Parsers, ReleaseFile(p) PROVE LockInv'
  <2>1. PICK m \in Minutes : /\ Current(p, m) /\ lockdir' = lockdir \ {m}
                             /\ todo' = [todo EXCEPT ![p] = @ \ {m}]
    BY <1>4 DEF ReleaseFile, release
  <2>2. /\ UNCHANGED <<dpc, file>> /\ ParserHolds(p, m)
        /\ ppc'[p] \notin {"write", "release"}
        /\ \A q \in Parsers : q # p => ppc'[q] = ppc[q] /\ todo'[q] = todo[q]
    BY <1>0, <1>4, <2>1 DEF ReleaseFile, dvars, ParserHolds
  <2>3. \A n \in Minutes : DbHolds(n)' <=> DbHolds(n)
    BY <2>2 DEF DbHolds
  <2>4. \A q \in Parsers : \A n \in Minutes :
            ParserHolds(q, n)' => q # p /\ ParserHolds(q, n)
    BY <2>2 DEF ParserHolds, Current
  <2>5. \A n \in Minutes : /\ DbHolds(n) => n # m
                           /\ \A q \in Parsers : q # p /\ ParserHolds(q, n) => n # m
    BY <2>2 DEF LockInv, MutualExclusion
  <2> QED
    BY <2>1, <2>3, <2>4, <2>5 DEF LockInv, MutualExclusion
<1>5. CASE DbAcquire \/ DbOpenFails
  <2>1. /\ UNCHANGED <<ppc, todo, file>> /\ dpc' \in {"exec", "release"}
        /\ file \notin lockdir /\ lockdir' = lockdir \cup {file}
    BY <1>5 DEF DbAcquire, DbOpenFails, acquire, MkdirSucceeds, pvars
  <2>2. \A q \in Parsers : \A n \in Minutes : ParserHolds(q, n)' <=> ParserHolds(q, n)
    BY <2>1 DEF ParserHolds, Current
  <2>3. \A n \in Minutes : DbHolds(n)' => n = file
    BY <2>1 DEF DbHolds
  <2> QED
    BY <2>1, <2>2, <2>3 DEF LockInv, MutualExclusion
<1>6. CASE DbRelease
  <2>1. /\ UNCHANGED <<ppc, todo>> /\ dpc = "release" /\ dpc' = "scan"
        /\ lockdir' = lockdir \ {file} /\ file \in Minutes
    BY <1>6 DEF DbRelease, release, pvars, TypeOK, DbTypeOK
  <2>2. \A q \in Parsers : \A n \in Minutes : ParserHolds(q, n)' <=> ParserHolds(q, n)
    BY <2>1 DEF ParserHolds, Current
  <2>3. \A n \in Minutes : ~DbHolds(n)' /\ DbHolds(file)
    BY <2>1 DEF DbHolds
  <2> QED
    BY <2>1, <2>2, <2>3 DEF LockInv, MutualExclusion
<1>7. CASE Connect \/ PickFile \/ ExecLine \/ ExecFails \/ RejectFile \/ FinishFile \/ EndScan
           \/ DbExit
  <2>1. UNCHANGED <<lockdir, ppc, todo>>
    BY <1>7 DEF Connect, PickFile, ExecLine, ExecFails, RejectFile, FinishFile, EndScan, DbExit,
                fsvars, pvars
  <2>2. \A n \in Minutes : DbHolds(n)' => DbHolds(n)
    BY <1>7 DEF Connect, PickFile, ExecLine, ExecFails, RejectFile, FinishFile, EndScan, DbExit,
                DbHolds
  <2>3. \A q \in Parsers : \A n \in Minutes : ParserHolds(q, n)' => ParserHolds(q, n)
    BY <2>1 DEF ParserHolds, Current
  <2> QED
    BY <2>1, <2>2, <2>3, LockKept
<1>8. CASE Interrupt \/ ConnectionLost \/ UNCHANGED vars \/ \E c \in Csv : Deliver(c)
  BY <1>8, LockFrame DEF Interrupt, ConnectionLost, Deliver, vars, fsvars, pvars, dvars
<1>9. CASE Restart
  <2>1. /\ UNCHANGED lockdir /\ dpc' = "connect"
        /\ \A p \in Parsers : ppc'[p] = "list"
    BY <1>9 DEF Restart, fsvars
  <2> QED
    BY <2>1, LockKept DEF ParserHolds, DbHolds
<1> QED
  BY <1>1, <1>2, <1>3, <1>4, <1>5, <1>6, <1>7, <1>8, <1>9, <1>10 DEF Next, ParserStep, DbStep

\* However often the program is killed and started again, the mkdir locks let one process at a
\* time work on a sql file.
THEOREM SpoolMutualExclusion == Spec => []MutualExclusion
<1>1. LockInv => MutualExclusion
  BY DEF LockInv
<1> QED
  BY <1>1, LockInit, LockStep, SpoolTypeOK, PTL DEF Spec

-----------------------------------------------------------------------------
(* No lock is left behind. *)

\* A step that takes no lock, and after which whoever held a file holds it still, unless it
\* gave it back.
LEMMA OwnersKept ==
    ASSUME LocksHaveOwners, lockdir' \subseteq lockdir,
           \A p \in Parsers : \A m \in lockdir' : ParserHolds(p, m) => ParserHolds(p, m)',
           \A m \in lockdir' : DbHolds(m) => DbHolds(m)'
    PROVE  LocksHaveOwners'
BY DEF LocksHaveOwners

LEMMA OwnersStep ==
    ASSUME Faults \cap {"crash", "fopen"} = {}, TypeOK, LocksHaveOwners, [Next]_vars
    PROVE  LocksHaveOwners'
<1>0. /\ ppc = [q \in Parsers |-> ppc[q]]
      /\ todo \in [Parsers -> SUBSET Minutes]
      /\ lockdir \subseteq Minutes
  BY DEF TypeOK, ParserTypeOK, FsTypeOK
<1>1. ASSUME NEW p \in Parsers, ListFiles(p) \/ Parse(p) \/ RemoveFile(p) \/ ParserExit(p)
      PROVE  LocksHaveOwners'
  <2>1. UNCHANGED <<lockdir, dpc, file>>
    BY <1>1 DEF ListFiles, Parse, RemoveFile, ParserExit, fsvars, dvars
  <2>2. /\ ppc[p] \notin {"write", "release"}
        /\ \A q \in Parsers : q # p => ppc'[q] = ppc[q] /\ todo'[q] = todo[q]
    BY <1>0, <1>1 DEF ListFiles, Parse, RemoveFile, ParserExit, Stops
  <2>3. \A q \in Parsers : \A m \in lockdir' : ParserHolds(q, m) => ParserHolds(q, m)'
    BY <2>2 DEF ParserHolds, Current
  <2> QED
    BY <2>1, <2>3, OwnersKept DEF DbHolds
<1>2. ASSUME NEW p \in Parsers, AcquireFile(p) PROVE LocksHaveOwners'
  <2>1. PICK m \in Minutes : Current(p, m) /\ lockdir' = lockdir \cup {m}
    BY <1>2 DEF AcquireFile, acquire
  <2>2. UNCHANGED <<todo, dpc, file>> /\ ppc' = [ppc EXCEPT ![p] = "write"] /\ ppc[p] = "acquire"
    BY <1>2 DEF AcquireFile, dvars
  <2>3. \A n \in Minutes : DbHolds(n)' <=> DbHolds(n)
    BY <2>2 DEF DbHolds
  <2>4. \A q \in Parsers : \A n \in Minutes : ParserHolds(q, n) => ParserHolds(q, n)'
    BY <1>0, <2>2 DEF ParserHolds, Current
  <2>5. ParserHolds(p, m)'
    BY <1>0, <2>1, <2>2 DEF ParserHolds, Current
  <2> QED
    BY <1>0, <2>1, <2>3, <2>4, <2>5 DEF LocksHaveOwners
<1>3. ASSUME NEW p \in Parsers, WriteFile(p) PROVE LocksHaveOwners'
  <2>1. UNCHANGED <<lockdir, todo, dpc, file>> /\ ppc' = [ppc EXCEPT ![p] = "release"]
    BY <1>3 DEF WriteFile, dvars
  <2>2. \A q \in Parsers : \A m \in lockdir' : ParserHolds(q, m) => ParserHolds(q, m)'
    BY <1>0, <2>1 DEF ParserHolds, Current
  <2> QED
    BY <2>1, <2>2, OwnersKept DEF DbHolds
<1>4. ASSUME NEW p \in Parsers, ReleaseFile(p) PROVE LocksHaveOwners'
  <2>1. PICK m \in Minutes : /\ Current(p, m) /\ lockdir' = lockdir \ {m}
                             /\ todo' = [todo EXCEPT ![p] = @ \ {m}]
    BY <1>4 DEF ReleaseFile, release
  <2>2. /\ UNCHANGED <<dpc, file>>
        /\ \A q \in Parsers : q # p => ppc'[q] = ppc[q] /\ todo'[q] = todo[q]
    BY <1>0, <1>4, <2>1 DEF ReleaseFile, dvars
  <2>3. ASSUME NEW q \in Parsers, NEW n \in lockdir', ParserHolds(q, n) PROVE ParserHolds(q, n)'
    <3>1. n \in Minutes /\ n # m
      BY <1>0, <2>1
    <3>2. q # p
      BY <2>1, <2>3, <3>1, CurrentUnique DEF ParserHolds
    <3> QED
      BY <2>2, <2>3, <3>2 DEF ParserHolds, Current
  <2> QED
    BY <2>1, <2>2, <2>3, OwnersKept DEF DbHolds
<1>5. ASSUME NEW p \in Parsers, OpenFails(p) PROVE FALSE
  BY <1>5 DEF OpenFails, Failing
<1>6. CASE DbAcquire \/ DbOpenFails
  <2>1. /\ UNCHANGED <<ppc, todo, file>>
        /\ dpc' \in {"exec", "release"} /\ dpc = "acquire" /\ lockdir' = lockdir \cup {file}
    BY <1>6 DEF DbAcquire, DbOpenFails, acquire, pvars
  <2>2. \A q \in Parsers : \A n \in Minutes : ParserHolds(q, n) => ParserHolds(q, n)'
    BY <2>1 DEF ParserHolds, Current
  <2>3. DbHolds(file)' /\ \A n \in Minutes : ~DbHolds(n)
    BY <2>1 DEF DbHolds
  <2> QED
    BY <1>0, <2>1, <2>2, <2>3 DEF LocksHaveOwners
<1>7. CASE DbRelease
  <2>1. UNCHANGED <<ppc, todo>> /\ lockdir' = lockdir \ {file}
    BY <1>7 DEF DbRelease, release, pvars
  <2>2. \A q \in Parsers : \A n \in lockdir' : ParserHolds(q, n) => ParserHolds(q, n)'
    BY <2>1 DEF ParserHolds, Current
  <2>3. \A n \in lockdir' : ~DbHolds(n)
    BY <2>1 DEF DbHolds
  <2> QED
    BY <2>1, <2>2, <2>3, OwnersKept
<1>8. CASE Connect \/ PickFile \/ ExecLine \/ ExecFails \/ RejectFile \/ FinishFile \/ EndScan
           \/ DbExit
  <2>1. UNCHANGED <<lockdir, ppc, todo>>
    BY <1>8 DEF Connect, PickFile, ExecLine, ExecFails, RejectFile, FinishFile, EndScan, DbExit,
                fsvars, pvars
  <2>2. \A n \in lockdir : DbHolds(n) => DbHolds(n)'
    BY <1>8 DEF Connect, PickFile, ExecLine, ExecFails, RejectFile, FinishFile, EndScan, DbExit,
                DbHolds
  <2>3. \A q \in Parsers : \A n \in lockdir : ParserHolds(q, n) => ParserHolds(q, n)'
    BY <2>1 DEF ParserHolds, Current
  <2> QED
    BY <2>1, <2>2, <2>3, OwnersKept
<1>9. CASE Interrupt \/ ConnectionLost \/ UNCHANGED vars \/ \E c \in Csv : Deliver(c)
  <2>1. UNCHANGED <<lockdir, ppc, todo, dpc, file>>
    BY <1>9 DEF Interrupt, ConnectionLost, Deliver, vars, fsvars, pvars, dvars
  <2> QED
    BY <2>1, OwnersKept DEF ParserHolds, DbHolds, Current
<1>10. CASE Restart
  <2>1. Stopped /\ lockdir' = lockdir
    BY <1>10 DEF Restart, fsvars
  <2>2. lockdir = {}
    BY <2>1 DEF LocksHaveOwners, Stopped, ParserHolds, DbHolds
  <2> QED
    BY <2>1, <2>2 DEF LocksHaveOwners
<1> QED
  BY <1>1, <1>2, <1>3, <1>4, <1>5, <1>6, <1>7, <1>8, <1>9, <1>10 DEF Next, ParserStep, DbStep

\* While no process is killed and sql files can be opened, acquire waits only for a process that
\* is at work: a parser that an exception ends holds no lock, and SIGINT leaves none behind for
\* the next run.
THEOREM SpoolLocksHaveOwners == Spec => []LocksHaveOwners
<1>1. CASE Faults \cap {"crash", "fopen"} = {}
  <2>1. Init => LocksHaveOwners
    BY DEF Init, LocksHaveOwners
  <2>2. TypeOK /\ LocksHaveOwners /\ [Next]_vars => LocksHaveOwners'
    BY <1>1, OwnersStep
  <2> QED
    BY <2>1, <2>2, SpoolTypeOK, PTL DEF Spec
<1>2. CASE Faults \cap {"crash", "fopen"} # {}
  <2>1. LocksHaveOwners
    BY <1>2 DEF LocksHaveOwners
  <2> QED
    BY <2>1, PTL
<1> QED
  BY <1>1, <1>2

-----------------------------------------------------------------------------
(* Nothing is lost. *)

\* The records of the lines that the database process has executed are in the database.
Executed ==
    dpc = "exec" =>
        \A i \in DOMAIN sql[file] :
            i < line => sql[file][i].rows \X {sql[file][i].part} \subseteq db

\* A parser past parsing has put on record whatever it will not write any more.
WrittenBy(p) ==
    ppc[p] \in {"acquire", "write", "release", "remove"} =>
        /\ \A c \in batch[p] :
             /\ Kind[c] # "throws"
             /\ HasRows(c) /\ MinuteOf[c] \notin todo[p] => {c} \X Parts \subseteq Stored
             /\ ppc[p] = "release" /\ HasRows(c) /\ Current(p, MinuteOf[c])
                   => {c} \X Parts \subseteq Stored
        /\ ppc[p] = "remove" => todo[p] = {}

Written == \A p \in Parsers : WrittenBy(p)

\* A file that grows keeps its records and gains those of what is appended.
LEMMA RecsOfConcat ==
    ASSUME NEW s \in Seq(Line), NEW t \in Seq(Line)
    PROVE  RecsOf(s) \subseteq RecsOf(s \o t) /\ RecsOf(t) \subseteq RecsOf(s \o t)
<1>1. ASSUME NEW r \in RecsOf(s) PROVE r \in RecsOf(s \o t)
  <2>1. PICK i \in DOMAIN s : s[i].part = r[2] /\ r[1] \in s[i].rows
    BY <1>1 DEF RecsOf
  <2>2. i \in DOMAIN (s \o t) /\ (s \o t)[i] = s[i]
    OBVIOUS
  <2> QED
    BY <1>1, <2>1, <2>2 DEF RecsOf
<1>2. ASSUME NEW r \in RecsOf(t) PROVE r \in RecsOf(s \o t)
  <2>1. PICK i \in DOMAIN t : t[i].part = r[2] /\ r[1] \in t[i].rows
    BY <1>2 DEF RecsOf
  <2>2. Len(s) + i \in DOMAIN (s \o t) /\ (s \o t)[Len(s) + i] = t[i]
    OBVIOUS
  <2> QED
    BY <1>2, <2>1, <2>2 DEF RecsOf
<1> QED
  BY <1>1, <1>2

\* What csv2sql appends for a minute has both records of every file it read for that minute.
LEMMA AppendedRecs ==
    ASSUME NEW p \in Parsers, NEW m \in Minutes, batch \in [Parsers -> SUBSET Csv],
           NEW c \in RowsFor(p, m)
    PROVE  {c} \X Parts \subseteq RecsOf(Appended(p, m))
<1> DEFINE head == IF Creates(p, m) THEN <<CreateLine("t"), CreateLine("b")>> ELSE <<>>
           rows == RowsFor(p, m)
           tail == <<InsertLine("t", rows), InsertLine("b", rows)>>
<1>1. rows \in SUBSET Csv
  BY DEF RowsFor, Opened
<1>2. head \in Seq(Line) /\ tail \in Seq(Line)
  <2>1. CreateLine("t") \in Line /\ CreateLine("b") \in Line
    BY DEF CreateLine, Line, Parts
  <2>2. InsertLine("t", rows) \in Line /\ InsertLine("b", rows) \in Line
    BY <1>1 DEF InsertLine, Line, Parts
  <2> QED
    BY <2>1, <2>2
<1>3. {c} \X Parts \subseteq RecsOf(tail)
  <2>1. ASSUME NEW part \in Parts PROVE <<c, part>> \in RecsOf(tail)
    <3>1. <<c, part>> \in Rec
      BY <1>1 DEF Rec
    <3>2. PICK i \in DOMAIN tail : tail[i] = InsertLine(part, rows)
      <4>1. CASE part = "t"
        BY <4>1
      <4>2. CASE part = "b"
        BY <4>2
      <4> QED
        BY <4>1, <4>2 DEF Parts
    <3> HIDE DEF tail, rows
    <3>3. tail[i].part = part /\ tail[i].rows = rows
      BY <3>2 DEF InsertLine
    <3> QED
      BY <3>1, <3>3 DEF RecsOf, rows
  <2> HIDE DEF tail
  <2> QED
    BY <2>1
<1>4. Appended(p, m) = head \o tail
  BY DEF Appended
<1> HIDE DEF head, tail
<1> QED
  BY <1>2, <1>3, <1>4, RecsOfConcat

\* Without descriptor trouble the parser reads every file of its batch.
LEMMA AllOpened ==
    ASSUME "emfile" \notin Faults, NEW p \in Parsers
    PROVE  Opened(p) = batch[p]
BY DEF Opened, CanOpen

\* Nothing but WriteFile, RejectFile and FinishFile changes the files in sql/.
LEMMA ExecutedStep == TypeOK /\ LockInv /\ Executed /\ [Next]_vars => Executed'
<1> SUFFICES ASSUME TypeOK, LockInv, Executed, [Next]_vars, dpc' = "exec"
             PROVE  \A i \in DOMAIN sql'[file'] :
                       i < line' => sql'[file'][i].rows \X {sql'[file'][i].part} \subseteq db'
  BY DEF Executed
<1>1. ASSUME UNCHANGED <<dpc, file, line, db>>, sql'[file] = sql[file]
      PROVE  \A i \in DOMAIN sql'[file'] :
                i < line' => sql'[file'][i].rows \X {sql'[file'][i].part} \subseteq db'
  BY <1>1 DEF Executed
<1>2. ASSUME NEW p \in Parsers, WriteFile(p) PROVE UNCHANGED dvars /\ sql'[file] = sql[file]
  <2>1. PICK m \in Minutes : Current(p, m) /\ sql' = [sql EXCEPT ![m] = @ \o Appended(p, m)]
    BY <1>2 DEF WriteFile
  <2>2. ParserHolds(p, m) /\ dpc = "exec" /\ UNCHANGED dvars
    BY <1>2, <2>1 DEF WriteFile, ParserHolds, dvars
  <2>3. DbHolds(file) /\ file \in Minutes
    BY <2>2 DEF DbHolds, TypeOK, DbTypeOK
  <2>4. m # file
    BY <2>2, <2>3 DEF LockInv, MutualExclusion
  <2> QED
    BY <2>1, <2>2, <2>3, <2>4 DEF TypeOK, FsTypeOK
<1>3. ASSUME NEW p \in Parsers, ParserStep(p) PROVE UNCHANGED <<dvars, db>> /\ sql'[file] = sql[file]
  <2>1. UNCHANGED db
    BY <1>3 DEF ParserStep, ListFiles, Parse, AcquireFile, WriteFile, OpenFails, ReleaseFile,
                RemoveFile, ParserExit, server
  <2>2. CASE ~WriteFile(p)
    BY <1>3, <2>1, <2>2 DEF ParserStep, ListFiles, Parse, AcquireFile, OpenFails, ReleaseFile,
                            RemoveFile, ParserExit, fsvars
  <2> QED
    BY <1>2, <2>1, <2>2
<1>4. CASE \E p \in Parsers : ParserStep(p)
  BY <1>1, <1>3, <1>4 DEF dvars
<1>5. CASE DbAcquire
  <2>1. line' = 1 /\ sql' = sql /\ file' = file /\ file \in Minutes
    BY <1>5 DEF DbAcquire, TypeOK, DbTypeOK
  <2>2. sql'[file'] \in Seq(Line)
    BY <2>1 DEF TypeOK, FsTypeOK
  <2> QED
    BY <2>1, <2>2
<1>6. CASE ExecLine
  <2> DEFINE stmt == sql[file][line]
  <2>1. /\ line' = line + 1 /\ sql' = sql /\ file' = file /\ file \in Minutes /\ dpc = "exec"
        /\ Apply(stmt) /\ line \in Nat \ {0} /\ line <= Len(sql[file])
    BY <1>6 DEF ExecLine, TypeOK, DbTypeOK, fsvars
  <2>2. sql[file] \in Seq(Line)
    BY <2>1 DEF TypeOK, FsTypeOK
  <2>3. stmt \in Line
    BY <2>1, <2>2
  <2>4. db \subseteq db' /\ stmt.rows \X {stmt.part} \subseteq db'
    BY <2>1, <2>3 DEF Apply, Line
  <2>5. ASSUME NEW i \in DOMAIN sql[file], i < line + 1
        PROVE  sql[file][i].rows \X {sql[file][i].part} \subseteq db'
    <3>1. i < line \/ i = line
      BY <2>1, <2>2, <2>5
    <3> QED
      BY <2>1, <2>4, <2>5, <3>1 DEF Executed
  <2> QED
    BY <2>1, <2>5
<1>7. CASE DbStep /\ ~DbAcquire /\ ~ExecLine
  BY <1>7 DEF DbStep, Connect, PickFile, DbOpenFails, ExecFails, RejectFile, FinishFile, DbRelease,
              EndScan, DbExit
<1>8. CASE Interrupt \/ ConnectionLost \/ UNCHANGED vars \/ \E c \in Csv : Deliver(c)
  BY <1>1, <1>8 DEF Interrupt, ConnectionLost, Deliver, vars, fsvars, dvars, server
<1>9. CASE Restart
  BY <1>9 DEF Restart
<1> QED
  BY <1>4, <1>5, <1>6, <1>7, <1>8, <1>9 DEF Next

\* What is on record stays on record: the database process removes a file of sql/ only when
\* its lines are executed, or a copy is in error/.
LEMMA StoredGrows == TypeOK /\ Executed /\ [Next]_vars => Stored \subseteq Stored'
<1> SUFFICES ASSUME TypeOK, Executed, [Next]_vars, NEW r \in Stored PROVE r \in Stored'
  OBVIOUS
<1>0. sql \in [Minutes -> Seq(Line)] /\ error \in [Minutes -> Seq(Seq(Line))] /\ r \in Rec
  BY DEF TypeOK, FsTypeOK, Stored
<1>1. ASSUME UNCHANGED <<sql, error, db>> PROVE r \in Stored'
  BY <1>0, <1>1 DEF Stored, InError
<1>2. ASSUME NEW p \in Parsers, WriteFile(p) PROVE r \in Stored'
  <2>1. PICK m \in Minutes : sql' = [sql EXCEPT ![m] = @ \o Appended(p, m)]
    BY <1>2 DEF WriteFile
  <2>2. Appended(p, m) \in Seq(Line)
    BY AppendedType DEF TypeOK, ParserTypeOK
  <2>3. \A n \in Minutes : RecsOf(sql[n]) \subseteq RecsOf(sql'[n])
    BY <1>0, <2>1, <2>2, RecsOfConcat
  <2>4. UNCHANGED <<error, db>>
    BY <1>2 DEF WriteFile, server
  <2> QED
    BY <1>0, <2>3, <2>4 DEF Stored, InError
<1>3. CASE ExecLine \/ ExecFails
  <2>1. UNCHANGED <<sql, error>> /\ db \subseteq db'
    BY <1>3 DEF ExecLine, ExecFails, Apply, fsvars, server
  <2> QED
    BY <1>0, <2>1 DEF Stored, InError
<1>4. CASE RejectFile
  <2>1. file \in Minutes
    BY <1>4 DEF RejectFile, TypeOK, DbTypeOK
  <2>2. CASE UNCHANGED <<error, sql>>
    BY <1>1, <1>4, <2>2 DEF RejectFile, server
  <2>3. CASE error' = [error EXCEPT ![file] = Append(@, sql[file])] /\ sql' = [sql EXCEPT ![file] = <<>>]
    <3>1. error[file] \in Seq(Seq(Line)) /\ UNCHANGED db
      BY <1>0, <1>4, <2>1 DEF RejectFile, server
    <3>2. /\ \A i \in DOMAIN error[file] :
               i \in DOMAIN error'[file] /\ error'[file][i] = error[file][i]
          /\ Len(error[file]) + 1 \in DOMAIN error'[file]
          /\ error'[file][Len(error[file]) + 1] = sql[file]
      <4> DEFINE Content == Seq(Line)
      <4>1. sql[file] \in Content /\ error[file] \in Seq(Content)
        BY <1>0, <2>1
      <4> HIDE DEF Content
      <4>2. error'[file] = Append(error[file], sql[file])
        BY <1>0, <2>1, <2>3
      <4> QED
        BY <4>1, <4>2
    <3>3. \A n \in Minutes \ {file} : error'[n] = error[n] /\ sql'[n] = sql[n]
      BY <1>0, <2>3
    <3>4. CASE r \in db
      BY <1>0, <3>1, <3>4 DEF Stored
    <3>5. CASE \E m \in Minutes : r \in RecsOf(sql[m])
      <4>1. r \in RecsOf(sql[file]) => r \in InError'
        BY <1>0, <2>1, <3>2 DEF InError
      <4> QED
        BY <1>0, <3>3, <3>5, <4>1 DEF Stored
    <3>6. CASE r \in InError
      <4>1. PICK m \in Minutes : \E i \in DOMAIN error[m] : r \in RecsOf(error[m][i])
        BY <3>6 DEF InError
      <4>2. \E i \in DOMAIN error'[m] : r \in RecsOf(error'[m][i])
        BY <3>2, <3>3, <4>1
      <4> QED
        BY <1>0, <4>2 DEF Stored, InError
    <3> QED
      BY <3>4, <3>5, <3>6 DEF Stored
  <2> QED
    BY <1>4, <2>2, <2>3 DEF RejectFile, MoveToError
<1>5. CASE FinishFile
  <2>1. /\ file \in Minutes /\ dpc = "exec" /\ line > Len(sql[file]) /\ UNCHANGED <<error, db>>
        /\ sql' = sql \/ sql' = [sql EXCEPT ![file] = <<>>]
        /\ line \in Nat
    BY <1>5 DEF FinishFile, AtEnd, TypeOK, DbTypeOK, server
  <2>2. ASSUME r \in RecsOf(sql[file]) PROVE r \in db
    <3>1. PICK i \in DOMAIN sql[file] : sql[file][i].part = r[2] /\ r[1] \in sql[file][i].rows
      BY <2>2 DEF RecsOf
    <3>2. i < line
      BY <1>0, <2>1
    <3>3. sql[file][i].rows \X {sql[file][i].part} \subseteq db
      BY <2>1, <3>2 DEF Executed
    <3>4. r = <<r[1], r[2]>>
      BY <1>0 DEF Rec
    <3> QED
      BY <3>1, <3>3, <3>4
  <2>3. \A n \in Minutes \ {file} : sql'[n] = sql[n]
    BY <1>0, <2>1
  <2> QED
    BY <1>0, <2>1, <2>2, <2>3 DEF Stored, InError
<1>6. CASE \E p \in Parsers : ParserStep(p) /\ ~WriteFile(p)
  BY <1>1, <1>6 DEF ParserStep, ListFiles, Parse, AcquireFile, OpenFails, ReleaseFile, RemoveFile,
                    ParserExit, fsvars, server
<1>7. CASE Connect \/ PickFile \/ DbAcquire \/ DbOpenFails \/ DbRelease \/ EndScan \/ DbExit
  BY <1>1, <1>7 DEF Connect, PickFile, DbAcquire, DbOpenFails, DbRelease, EndScan, DbExit, fsvars,
         server
<1>8. CASE Interrupt \/ ConnectionLost \/ Restart \/ UNCHANGED vars \/ \E c \in Csv : Deliver(c)
  BY <1>1, <1>8 DEF Interrupt, ConnectionLost, Restart, Deliver, vars, fsvars, server
<1> QED
  BY <1>2, <1>3, <1>4, <1>5, <1>6, <1>7, <1>8 DEF Next, DbStep
\* A parser whose batch, minutes to write and place stay the same has still put on record what
\* it had, whatever the others do.
LEMMA WrittenKept ==
    ASSUME Stored \subseteq Stored', NEW p \in Parsers, WrittenBy(p),
           ppc'[p] = ppc[p], batch'[p] = batch[p], todo'[p] = todo[p]
    PROVE  WrittenBy(p)'
<1> SUFFICES ASSUME ppc'[p] \in {"acquire", "write", "release", "remove"} PROVE WrittenBy(p)'
  BY DEF WrittenBy
<1>1. \A m : Current(p, m)' <=> Current(p, m)
  BY DEF Current
<1>2. ASSUME NEW c \in batch[p]
      PROVE  /\ Kind[c] # "throws"
             /\ HasRows(c) /\ MinuteOf[c] \notin todo[p] => {c} \X Parts \subseteq Stored'
             /\ ppc[p] = "release" /\ HasRows(c) /\ Current(p, MinuteOf[c])
                   => {c} \X Parts \subseteq Stored'
  BY <1>2 DEF WrittenBy
<1> QED
  BY <1>1, <1>2 DEF WrittenBy

LEMMA WrittenStep ==
    ASSUME "emfile" \notin Faults
    PROVE  TypeOK /\ Executed /\ Written /\ [Next]_vars => Written'
<1> SUFFICES ASSUME TypeOK, Executed, Written, [Next]_vars PROVE Written'
  OBVIOUS
<1>0. /\ ppc = [q \in Parsers |-> ppc[q]]
      /\ batch \in [Parsers -> SUBSET Csv]
      /\ todo \in [Parsers -> SUBSET Minutes]
  BY DEF TypeOK, ParserTypeOK
<1>g. Stored \subseteq Stored'
  BY StoredGrows
<1>k. ASSUME \A q \in Parsers : ppc'[q] = ppc[q] /\ batch'[q] = batch[q] /\ todo'[q] = todo[q]
      PROVE  Written'
  BY <1>g, <1>k, WrittenKept DEF Written
<1>1. ASSUME NEW p \in Parsers, ParserStep(p), NEW q \in Parsers, q # p PROVE WrittenBy(q)'
  <2>1. ppc'[q] = ppc[q] /\ batch'[q] = batch[q] /\ todo'[q] = todo[q]
    BY <1>0, <1>1 DEF ParserStep, ListFiles, Parse, AcquireFile, WriteFile, OpenFails, ReleaseFile,
                      RemoveFile, ParserExit
  <2> QED
    BY <1>1, <1>g, <2>1, WrittenKept DEF Written
<1>2. ASSUME NEW p \in Parsers, ListFiles(p) \/ ParserExit(p) PROVE WrittenBy(p)'
  BY <1>0, <1>2 DEF ListFiles, ParserExit, WrittenBy
<1>3. ASSUME NEW p \in Parsers, Parse(p) PROVE WrittenBy(p)'
  <2>1. CASE Throws(p)
    BY <1>0, <1>3, <2>1 DEF Parse, WrittenBy
  <2>2. CASE ~Throws(p)
    <3>1. /\ todo'[p] = {m \in Minutes : RowsFor(p, m) # {}} /\ batch'[p] = batch[p]
          /\ ppc'[p] = IF todo'[p] = {} THEN "remove" ELSE "acquire"
      BY <1>0, <1>3, <2>2, AllOpened DEF Parse
    <3>2. ASSUME NEW c \in batch[p], HasRows(c) PROVE MinuteOf[c] \in todo'[p]
      <4>1. MinuteOf[c] \in Minutes /\ c \in RowsFor(p, MinuteOf[c])
        BY <1>0, <3>2, AllOpened DEF RowsFor, Minutes
      <4> QED
        BY <3>1, <4>1
    <3> QED
      BY <2>2, <3>1, <3>2, AllOpened DEF WrittenBy, Throws
  <2> QED
    BY <2>1, <2>2
<1>4. ASSUME NEW p \in Parsers, AcquireFile(p) PROVE WrittenBy(p)'
  <2>1. ppc[p] = "acquire" /\ ppc'[p] = "write" /\ batch'[p] = batch[p] /\ todo'[p] = todo[p]
    BY <1>0, <1>4 DEF AcquireFile
  <2> QED
    BY <1>g, <2>1 DEF Written, WrittenBy
<1>5. ASSUME NEW p \in Parsers, WriteFile(p) PROVE WrittenBy(p)'
  <2>1. PICK m \in Minutes : Current(p, m) /\ sql' = [sql EXCEPT ![m] = @ \o Appended(p, m)]
    BY <1>5 DEF WriteFile
  <2>2. ppc[p] = "write" /\ ppc'[p] = "release" /\ batch' = batch /\ todo' = todo
    BY <1>0, <1>5 DEF WriteFile
  <2>3. ASSUME NEW c \in batch[p], HasRows(c), Current(p, MinuteOf[c])'
        PROVE  {c} \X Parts \subseteq Stored'
    <3>1. MinuteOf[c] \in Minutes
      BY <1>0, <2>3 DEF Minutes
    <3>2. MinuteOf[c] = m
      BY <2>1, <2>2, <2>3, <3>1, CurrentUnique DEF Current
    <3>3. c \in RowsFor(p, m)
      BY <1>0, <2>3, <3>2, AllOpened DEF RowsFor
    <3>4. sql[m] \in Seq(Line) /\ Appended(p, m) \in Seq(Line)
      BY <1>0, AppendedType DEF TypeOK, FsTypeOK
    <3>5. {c} \X Parts \subseteq RecsOf(sql'[m])
      <4>1. sql'[m] = sql[m] \o Appended(p, m)
        BY <2>1 DEF TypeOK, FsTypeOK
      <4> QED
        BY <1>0, <3>3, <3>4, <4>1, AppendedRecs, RecsOfConcat
    <3> QED
      BY <1>0, <2>3, <3>5 DEF Stored, Rec
  <2> QED
    BY <1>g, <2>2, <2>3 DEF Written, WrittenBy
<1>6. ASSUME NEW p \in Parsers, ReleaseFile(p) PROVE WrittenBy(p)'
  <2>1. PICK m \in Minutes : Current(p, m) /\ todo' = [todo EXCEPT ![p] = @ \ {m}]
    BY <1>6 DEF ReleaseFile
  <2>2. /\ ppc[p] = "release" /\ batch' = batch /\ todo'[p] = todo[p] \ {m}
        /\ ppc'[p] = IF todo'[p] = {} THEN "remove" ELSE "acquire"
    BY <1>0, <1>6, <2>1 DEF ReleaseFile
  <2>3. ASSUME NEW c \in batch[p], HasRows(c), MinuteOf[c] \notin todo'[p]
        PROVE  {c} \X Parts \subseteq Stored'
    BY <1>g, <2>1, <2>2, <2>3 DEF Written, WrittenBy
  <2> QED
    BY <2>2, <2>3 DEF Written, WrittenBy
<1>7. ASSUME NEW p \in Parsers, RemoveFile(p) PROVE WrittenBy(p)'
  <2>1. /\ ppc[p] = "remove" /\ ppc'[p] \in {"remove", "list"} /\ todo' = todo
        /\ batch'[p] \subseteq batch[p]
    BY <1>0, <1>7 DEF RemoveFile
  <2> QED
    BY <1>g, <2>1 DEF Written, WrittenBy
<1>11. ASSUME NEW p \in Parsers, OpenFails(p) PROVE WrittenBy(p)'
  BY <1>0, <1>11 DEF OpenFails, WrittenBy
<1>8. CASE \E p \in Parsers : ParserStep(p)
  BY <1>8, <1>1, <1>2, <1>3, <1>4, <1>5, <1>6, <1>7, <1>11 DEF Written, ParserStep
<1>9. CASE DbStep \/ Interrupt \/ ConnectionLost \/ UNCHANGED vars \/ \E c \in Csv : Deliver(c)
  BY <1>9, <1>k DEF DbStep, Connect, PickFile, DbAcquire, DbOpenFails, ExecLine, ExecFails,
      RejectFile, FinishFile, DbRelease, EndScan, DbExit, Interrupt, ConnectionLost, Deliver, vars,
      pvars
<1>10. CASE Restart
  BY <1>10 DEF Restart, Written, WrittenBy
<1> QED
  BY <1>8, <1>9, <1>10 DEF Next

LEMMA WrittenInit == Init => Executed /\ Written
BY DEF Init, Executed, Written, WrittenBy

LEMMA CustodyInit == Init => Custody!Init
<1> SUFFICES ASSUME Init PROVE Custody!Init
  OBVIOUS
<1>1. {c \in Csv : delivered[c] > 0} = {} /\ csv = {}
  BY DEF Init
<1>2. Stored = {}
  <2>1. RecsOf(<<>>) = {}
    BY DEF RecsOf
  <2> QED
    BY <2>1 DEF Init, Stored, InError
<1> QED
  BY <1>1, <1>2 DEF Custody!Init

\* Deliver arrives, RemoveFile discards, and every other step only keeps.
LEMMA CustodyStep ==
    ASSUME "emfile" \notin Faults
    PROVE  TypeOK /\ Executed /\ Written /\ [Next]_vars => [Custody!Next]_(Custody!vars)
<1> DEFINE arrived == {c \in Csv : delivered[c] > 0}
<1> SUFFICES ASSUME TypeOK, Executed, Written, [Next]_vars
             PROVE  Custody!Next
  OBVIOUS
<1>0. /\ batch \in [Parsers -> SUBSET Csv]
      /\ delivered \in [Csv -> Nat]
  BY ConstantTypes DEF TypeOK, ParserTypeOK, EnvTypeOK
<1>k. ASSUME UNCHANGED <<csv, delivered>> PROVE Custody!Keep
  BY <1>k, StoredGrows DEF Custody!Keep
<1>1. ASSUME NEW c \in Csv, Deliver(c) PROVE Custody!Arrive(c)
  <2>1. arrived' = arrived \cup {c}
    BY <1>0, <1>1 DEF Deliver
  <2>2. UNCHANGED <<sql, error, db>> /\ csv' = csv \cup {c}
    BY <1>1 DEF Deliver, server
  <2> QED
    BY <2>1, <2>2 DEF Custody!Arrive, Stored, InError
<1>2. ASSUME NEW p \in Parsers, RemoveFile(p), csv' # csv
      PROVE  \E gone \in SUBSET Csv : Custody!Discard(gone)
  <2>1. PICK c \in batch[p] : csv' = csv \ {c}
    BY <1>2 DEF RemoveFile
  <2>2. ppc[p] = "remove" /\ UNCHANGED <<sql, error, db, delivered>> /\ c \in Csv
    BY <1>0, <1>2 DEF RemoveFile, server
  <2>3. Yield[c] \subseteq Stored
    <3>1. Kind[c] # "throws" /\ (HasRows(c) => {c} \X Parts \subseteq Stored)
      BY <2>2 DEF Written, WrittenBy
    <3>2. Kind[c] \in Kinds
      BY <2>2, SpoolAssumption
    <3> QED
      BY <2>2, <3>1, <3>2 DEF Yield, Kinds, HasRows
  <2>4. Custody!Discard({c})
    BY <2>1, <2>2, <2>3 DEF Custody!Discard, Stored, InError
  <2> QED
    BY <2>2, <2>4
<1>3. ASSUME NEW p \in Parsers, ParserStep(p) PROVE Custody!Next
  <2>1. UNCHANGED delivered /\ (csv' = csv \/ RemoveFile(p))
    BY <1>3 DEF ParserStep, ListFiles, Parse, AcquireFile, WriteFile, OpenFails, ReleaseFile,
                RemoveFile, ParserExit, env, fsvars
  <2> QED
    BY <1>2, <1>k, <2>1 DEF Custody!Next
<1>4. CASE DbStep \/ Interrupt \/ ConnectionLost \/ Restart \/ UNCHANGED vars
  <2>1. UNCHANGED <<csv, delivered>>
    BY <1>4 DEF DbStep, Connect, PickFile, DbAcquire, DbOpenFails, ExecLine, ExecFails, RejectFile,
        FinishFile, DbRelease, EndScan, DbExit, Interrupt, ConnectionLost, Restart, vars, fsvars,
        env
  <2> QED
    BY <1>k, <2>1 DEF Custody!Next
<1> QED
  BY <1>1, <1>3, <1>4 DEF Next, Custody!Next

\* Spool implements Handover, with the csv files as items and the records on record as
\* outcomes, under every fault but running out of file descriptors.
THEOREM SpoolHandsOver ==
    ASSUME "emfile" \notin Faults
    PROVE  Spec => HandsOver
<1>1. Init => LockInv /\ Executed /\ Written
  BY LockInit, WrittenInit
<1>2. TypeOK /\ LockInv /\ Executed /\ Written /\ [Next]_vars
         => LockInv' /\ Executed' /\ Written'
  BY LockStep, ExecutedStep, WrittenStep
<1> QED
  BY <1>1, <1>2, CustodyInit, CustodyStep, SpoolTypeOK, PTL DEF Spec, HandsOver, Custody!Spec

\* No csv file is lost on its way into sql/, error/ or the database, with any number of crashes,
\* lost connections and failed removals.
THEOREM SpoolNothingLost ==
    ASSUME "emfile" \notin Faults
    PROVE  Spec => []NothingLost
<1>1. Custody!Spec => []Custody!Safe
  BY Custody!HandoverSafe
<1>2. Custody!Safe => NothingLost
  BY DEF Custody!Safe, NothingLost
<1> QED
  BY <1>1, <1>2, SpoolHandsOver, PTL DEF HandsOver

-----------------------------------------------------------------------------
(* No row is rejected. *)

\* A parser's batch is of its own files in csv/, and it holds none between two batches.
Batches ==
    /\ \A p \in Parsers : /\ batch[p] \subseteq {c \in csv : Owner(c) = p}
                          /\ ppc[p] \in {"list", "exited"} => batch[p] = {}
    /\ \A c \in csv : delivered[c] > 0

\* The file has still to be delivered, to be read or to be written to its sql file.
Waiting(c) ==
    LET p == Owner(c) IN
    \/ delivered[c] = 0
    \/ /\ c \in csv
       /\ \/ c \notin batch[p]
          \/ ppc[p] \in {"parse", "dead"}
          \/ ppc[p] \in {"acquire", "write"} /\ MinuteOf[c] \in todo[p]
          \/ ppc[p] = "release" /\ MinuteOf[c] \in todo[p] /\ ~Current(p, MinuteOf[c])

\* What has still to be written is nowhere yet.
Unwritten ==
    \A c \in Csv : Waiting(c) =>
        /\ \A part \in Parts : <<c, part>> \notin db
        /\ \A m \in Minutes : \A i \in DOMAIN sql[m] : c \notin sql[m][i].rows

\* A file begins with the two tables, and the candidates of a batch follow its detections.
WellFormed(lines) ==
    lines # <<>> =>
        /\ Len(lines) >= 2 /\ lines[1] = CreateLine("t") /\ lines[2] = CreateLine("b")
        /\ \A i \in 3 .. Len(lines) :
             /\ lines[i].op = "insert"
             /\ lines[i].part = "b" => lines[i - 1] = InsertLine("t", lines[i].rows)

\* The rows of a csv file are in its own minute's file, once.
Distinct(m) ==
    \A i \in DOMAIN sql[m] : \A c \in sql[m][i].rows :
        /\ MinuteOf[c] = m
        /\ \A j \in DOMAIN sql[m] : c \in sql[m][j].rows /\ sql[m][i].part = sql[m][j].part => i = j

SqlFiles == \A m \in Minutes : WellFormed(sql[m]) /\ Distinct(m)

\* Of what is in sql/ the database has only what the database process has just executed.
Unexecuted ==
    \A m \in Minutes : \A i \in DOMAIN sql[m] : \A c \in sql[m][i].rows :
        <<c, sql[m][i].part>> \in db => dpc \in {"exec", "reject"} /\ file = m /\ i < line

\* The database process is connected, and the first two lines of its file have made the tables.
Ready ==
    /\ dpc \notin {"connect", "exited"} => conn = "up"
    /\ dpc = "exec" => /\ line > 1 => <<file, "t">> \in tables
                       /\ line > 2 => <<file, "b">> \in tables

\* A file of sql/ that the server would not take, and one that is in error/, has a row that it
\* refuses.
Refused(lines) == \E c \in Csv : Kind[c] = "refused" /\ <<c, "b">> \in RecsOf(lines)
Rejected ==
    /\ dpc = "reject" => Refused(sql[file])
    /\ \A m \in Minutes : \A i \in DOMAIN error[m] : Refused(error[m][i])

ImportInv == Batches /\ Unwritten /\ SqlFiles /\ Unexecuted /\ Ready /\ Rejected

\* A step under the hypotheses of NoRowRejected, with tables by the minute: it delivers no csv file
\* again, and goes wrong only as SIGINT or as a start after a stop.
Undisturbed ==
    /\ OneTable = FALSE
    /\ faults' # faults => Interrupt \/ (Restart /\ Stopped)
    /\ \A c \in Csv : delivered'[c] <= 1

LEMMA NothingFails ==
    ASSUME Undisturbed, TypeOK, [Next]_vars
    PROVE  /\ \A p \in Parsers : ~OpenFails(p) /\ Opened(p) \subseteq batch[p]
           /\ ~ConnectionLost
           /\ \A p \in Parsers : RemoveFile(p) =>
                 \E c \in batch[p] : csv' = csv \ {c} /\ batch' = [batch EXCEPT ![p] = @ \ {c}]
           /\ ExecFails => /\ UNCHANGED <<server, conn>>
                           /\ conn = "down" \/ ~Accepts(sql[file][line])
           /\ RejectFile => MoveToError(file) /\ sql' = [sql EXCEPT ![file] = <<>>]
           /\ FinishFile => sql' = [sql EXCEPT ![file] = <<>>]
           /\ Restart => Stopped
<1>0. /\ faults \in Nat
      /\ ppc = [q \in Parsers |-> ppc[q]]
      /\ batch \in [Parsers -> SUBSET Csv]
  BY ConstantTypes DEF TypeOK, EnvTypeOK, ParserTypeOK
<1>1. ASSUME NEW kind, Failing(kind)
      PROVE  UNCHANGED <<ppc, batch, dpc, conn>> \/ (Stopped /\ dpc' = "connect")
  <2>1. faults' # faults
    BY <1>0, <1>1 DEF Failing
  <2>2. Interrupt \/ (Restart /\ Stopped)
    BY <2>1 DEF Undisturbed
  <2> QED
    BY <2>2 DEF Interrupt, Restart, pvars, dvars
<1>2. ASSUME NEW p \in Parsers PROVE ~OpenFails(p) /\ Opened(p) \subseteq batch[p]
  <2>1. ASSUME OpenFails(p) PROVE FALSE
    <3>1. ppc[p] = "write" /\ ppc'[p] = "dead"
      BY <1>0, <2>1 DEF OpenFails
    <3>2. UNCHANGED ppc \/ Stopped
      BY <1>1, <2>1 DEF OpenFails
    <3> QED
      BY <3>1, <3>2 DEF Stopped
  <2> QED
    BY <2>1 DEF Opened
<1>3. ASSUME ConnectionLost PROVE FALSE
  <2>1. conn = "up" /\ conn' = "down" /\ UNCHANGED dpc
    BY <1>3 DEF ConnectionLost
  <2>2. UNCHANGED conn \/ (Stopped /\ dpc' = "connect")
    BY <1>1, <1>3 DEF ConnectionLost
  <2> QED
    BY <2>1, <2>2 DEF Stopped
<1>4. ASSUME NEW p \in Parsers, RemoveFile(p)
      PROVE  \E c \in batch[p] : csv' = csv \ {c} /\ batch' = [batch EXCEPT ![p] = @ \ {c}]
  <2>1. PICK c \in batch[p] : /\ csv' = csv \ {c} \/ Failing("fs")
                              /\ batch' = [batch EXCEPT ![p] = @ \ {c}]
    BY <1>4 DEF RemoveFile
  <2>2. ASSUME Failing("fs") PROVE FALSE
    <3>1. UNCHANGED batch \/ Stopped
      BY <1>1, <2>2
    <3>2. ppc[p] = "remove" /\ batch'[p] # batch[p]
      BY <1>0, <1>4, <2>1 DEF RemoveFile
    <3> QED
      BY <3>1, <3>2 DEF Stopped
  <2> QED
    BY <2>1, <2>2
<1>5. ASSUME ExecFails
      PROVE  UNCHANGED <<server, conn>> /\ (conn = "down" \/ ~Accepts(sql[file][line]))
  <2>1. dpc = "exec" /\ dpc' = "reject"
    BY <1>5 DEF ExecFails
  <2>2. ~Failing("reply")
    BY <1>1, <2>1 DEF Stopped
  <2> QED
    BY <1>5, <2>2 DEF ExecFails
<1>6. ASSUME RejectFile PROVE MoveToError(file) /\ sql' = [sql EXCEPT ![file] = <<>>]
  <2>1. dpc = "reject" /\ dpc' = "release"
    BY <1>6 DEF RejectFile
  <2>2. ~Failing("fs")
    BY <1>1, <2>1 DEF Stopped
  <2> QED
    BY <1>6, <2>2 DEF RejectFile
<1>7. ASSUME FinishFile PROVE sql' = [sql EXCEPT ![file] = <<>>]
  <2>1. dpc = "exec" /\ dpc' = "release"
    BY <1>7 DEF FinishFile
  <2>2. ~Failing("fs")
    BY <1>1, <2>1 DEF Stopped
  <2> QED
    BY <1>7, <2>2 DEF FinishFile
<1>8. ASSUME Restart PROVE Stopped
  <2>1. faults' # faults /\ ~interrupted'
    BY <1>0, <1>8 DEF Restart
  <2> QED
    BY <2>1 DEF Undisturbed, Interrupt
<1> QED
  BY <1>2, <1>3, <1>4, <1>5, <1>6, <1>7, <1>8

\* Where sql/ and the database change.
LEMMA Effects ==
    ASSUME Undisturbed, TypeOK, [Next]_vars
    PROVE  \/ \E p \in Parsers : WriteFile(p)
           \/ ExecLine
           \/ dpc \in {"exec", "reject"} /\ dpc' = "release" /\ UNCHANGED <<db, file>>
                /\ sql' = [sql EXCEPT ![file] = <<>>]
           \/ UNCHANGED <<sql, db>>
<1>1. CASE \E p \in Parsers : ParserStep(p) /\ ~WriteFile(p)
  BY <1>1 DEF ParserStep, ListFiles, Parse, AcquireFile, OpenFails, ReleaseFile, RemoveFile,
              ParserExit, fsvars, server
<1>2. CASE RejectFile \/ FinishFile
  BY <1>2, NothingFails DEF RejectFile, FinishFile, server
<1>3. CASE ExecFails
  BY <1>3, NothingFails DEF ExecFails, fsvars, server
<1>4. CASE Connect \/ PickFile \/ DbAcquire \/ DbOpenFails \/ DbRelease \/ EndScan \/ DbExit
  BY <1>4 DEF Connect, PickFile, DbAcquire, DbOpenFails, DbRelease, EndScan, DbExit, fsvars, server
<1>5. CASE Interrupt \/ ConnectionLost \/ Restart \/ UNCHANGED vars \/ \E c \in Csv : Deliver(c)
  BY <1>5 DEF Interrupt, ConnectionLost, Restart, Deliver, vars, fsvars, server
<1> QED
  BY <1>1, <1>2, <1>3, <1>4, <1>5 DEF Next, DbStep

LEMMA BatchesStep ==
    ASSUME Undisturbed, TypeOK, Batches, [Next]_vars
    PROVE  Batches'
<1>0. /\ ppc = [q \in Parsers |-> ppc[q]]
      /\ batch \in [Parsers -> SUBSET Csv]
      /\ csv \subseteq Csv
      /\ delivered \in [Csv -> Nat]
  BY ConstantTypes DEF TypeOK, ParserTypeOK, FsTypeOK, EnvTypeOK
<1>1. ASSUME NEW c \in Csv, Deliver(c) PROVE Batches'
  <2>1. UNCHANGED <<ppc, batch>> /\ csv' = csv \cup {c} /\ delivered' = [delivered EXCEPT ![c] = @ + 1]
    BY <1>1 DEF Deliver, pvars
  <2> QED
    BY <1>0, <2>1 DEF Batches
<1>2. ASSUME NEW p \in Parsers, ListFiles(p) PROVE Batches'
  <2>1. PICK fl \in SUBSET {c \in csv : Owner(c) = p} : batch' = [batch EXCEPT ![p] = fl]
    BY <1>2 DEF ListFiles
  <2>2. UNCHANGED <<csv, delivered>> /\ ppc' = [ppc EXCEPT ![p] = "parse"]
    BY <1>2 DEF ListFiles, fsvars, env
  <2> QED
    BY <1>0, <2>1, <2>2 DEF Batches
<1>3. ASSUME NEW p \in Parsers,
             Parse(p) \/ AcquireFile(p) \/ WriteFile(p) \/ ReleaseFile(p) \/ ParserExit(p)
      PROVE  Batches'
  <2>1. UNCHANGED <<csv, delivered, batch>>
    BY <1>3 DEF Parse, AcquireFile, WriteFile, ReleaseFile, ParserExit, fsvars, env
  <2>2. /\ ppc'[p] \in {"list", "exited"} => ppc[p] = "list"
        /\ \A q \in Parsers : q # p => ppc'[q] = ppc[q]
    BY <1>0, <1>3 DEF Parse, AcquireFile, WriteFile, ReleaseFile, ParserExit, Stops
  <2> QED
    BY <2>1, <2>2 DEF Batches
<1>4. ASSUME NEW p \in Parsers, RemoveFile(p) PROVE Batches'
  <2>1. PICK c \in batch[p] : csv' = csv \ {c} /\ batch' = [batch EXCEPT ![p] = @ \ {c}]
    BY <1>4, NothingFails
  <2>2. /\ UNCHANGED delivered
        /\ ppc[p] = "remove" /\ (ppc'[p] = "remove" \/ batch'[p] = {})
        /\ \A q \in Parsers : q # p => ppc'[q] = ppc[q]
    BY <1>0, <1>4 DEF RemoveFile
  <2>3. \A q \in Parsers : batch'[q] \subseteq {d \in csv' : Owner(d) = q}
    BY <1>0, <2>1 DEF Batches
  <2> QED
    BY <1>0, <2>1, <2>2, <2>3 DEF Batches
<1>5. CASE DbStep \/ Interrupt \/ UNCHANGED vars
  <2>1. UNCHANGED <<csv, delivered, ppc, batch>>
    BY <1>5 DEF DbStep, Connect, PickFile, DbAcquire, DbOpenFails, ExecLine, ExecFails, RejectFile,
        FinishFile, DbRelease, EndScan, DbExit, Interrupt, vars, fsvars, pvars, env
  <2> QED
    BY <2>1 DEF Batches
<1>6. CASE Restart
  <2>1. UNCHANGED <<csv, delivered>> /\ \A p \in Parsers : batch'[p] = {}
    BY <1>6 DEF Restart, fsvars
  <2> QED
    BY <2>1 DEF Batches
<1> QED
  BY <1>1, <1>2, <1>3, <1>4, <1>5, <1>6, NothingFails DEF Next, ParserStep

\* No step makes a file wait that did not, and csv2sql no longer waits to write what it wrote.
LEMMA WaitingStep ==
    ASSUME Undisturbed, TypeOK, Batches, [Next]_vars, NEW c \in Csv, Waiting(c)'
    PROVE  /\ Waiting(c)
           /\ \A p \in Parsers, m \in Minutes :
                 WriteFile(p) /\ Current(p, m) => c \notin RowsFor(p, m)
<1> DEFINE o == Owner(c)
<1>0. /\ ppc = [q \in Parsers |-> ppc[q]]
      /\ batch \in [Parsers -> SUBSET Csv]
      /\ todo \in [Parsers -> SUBSET Minutes]
      /\ csv \subseteq Csv
      /\ delivered \in [Csv -> Nat]
      /\ o \in Parsers /\ MinuteOf[c] \in Minutes
  <2>1. o \in Parsers
    BY ConstantTypes, SpoolAssumption DEF Owner, Parsers
  <2> QED
    BY <2>1, ConstantTypes DEF TypeOK, ParserTypeOK, FsTypeOK, EnvTypeOK, Minutes
<1> HIDE DEF o
<1>w. Waiting(c) <=> \/ delivered[c] = 0
                     \/ /\ c \in csv
                        /\ \/ c \notin batch[o]
                           \/ ppc[o] \in {"parse", "dead"}
                           \/ ppc[o] \in {"acquire", "write"} /\ MinuteOf[c] \in todo[o]
                           \/ ppc[o] = "release" /\ MinuteOf[c] \in todo[o] /\ ~Current(o, MinuteOf[c])
  BY DEF Waiting, o
<1>v. \/ delivered'[c] = 0
      \/ /\ c \in csv'
         /\ \/ c \notin batch'[o]
            \/ ppc'[o] \in {"parse", "dead"}
            \/ ppc'[o] \in {"acquire", "write"} /\ MinuteOf[c] \in todo'[o]
            \/ ppc'[o] = "release" /\ MinuteOf[c] \in todo'[o] /\ ~Current(o, MinuteOf[c])'
  BY DEF Waiting, o, Owner
<1>b. \A p \in Parsers : c \in batch[p] => p = o /\ c \in csv
  BY DEF Batches, o
<1>k. ASSUME UNCHANGED <<delivered, csv>>,
             ppc'[o] = ppc[o], batch'[o] = batch[o], todo'[o] = todo[o]
      PROVE  Waiting(c)
  BY <1>k, <1>v, <1>w DEF Current
<1>1. ASSUME NEW d \in Csv, Deliver(d) PROVE Waiting(c)
  <2>1. /\ UNCHANGED <<ppc, batch, todo>> /\ delivered[d] < 1
        /\ csv' = csv \cup {d} /\ delivered' = [delivered EXCEPT ![d] = @ + 1]
    BY <1>0, <1>1 DEF Deliver, pvars, Undisturbed
  <2>2. CASE c = d
    BY <1>0, <1>w, <2>1, <2>2
  <2>3. CASE c # d
    BY <1>0, <1>v, <1>w, <2>1, <2>3 DEF Current
  <2> QED
    BY <2>2, <2>3
<1>2. ASSUME NEW p \in Parsers, ParserStep(p), p # o PROVE Waiting(c)
  <2>1. UNCHANGED delivered /\ (c \in csv' => c \in csv)
    <3>1. CASE RemoveFile(p)
      BY <1>2, <3>1, NothingFails DEF RemoveFile
    <3>2. CASE ~RemoveFile(p)
      BY <1>2, <3>2 DEF ParserStep, ListFiles, Parse, AcquireFile, WriteFile, OpenFails,
                        ReleaseFile, ParserExit, fsvars, env
    <3> QED
      BY <3>1, <3>2
  <2>2. ppc'[o] = ppc[o] /\ batch'[o] = batch[o] /\ todo'[o] = todo[o]
    BY <1>0, <1>2 DEF ParserStep, ListFiles, Parse, AcquireFile, WriteFile, OpenFails, ReleaseFile,
                      RemoveFile, ParserExit
  <2> QED
    BY <1>v, <1>w, <2>1, <2>2 DEF Current
<1>3. ASSUME ListFiles(o) \/ ParserExit(o) PROVE Waiting(c)
  <2>1. ppc[o] = "list" /\ UNCHANGED <<delivered, csv>>
    BY <1>3 DEF ListFiles, ParserExit, Stops, fsvars, env
  <2> QED
    BY <1>0, <1>v, <1>w, <2>1 DEF Batches
<1>4. ASSUME Parse(o) PROVE Waiting(c)
  <2>1. ppc[o] = "parse" /\ UNCHANGED <<delivered, csv>>
    BY <1>4 DEF Parse, fsvars, env
  <2> QED
    BY <1>v, <1>w, <2>1
<1>5. ASSUME AcquireFile(o) PROVE Waiting(c)
  <2>1. ppc[o] = "acquire" /\ ppc'[o] = "write" /\ UNCHANGED <<delivered, csv, batch, todo>>
    BY <1>0, <1>5 DEF AcquireFile, env
  <2> QED
    BY <1>v, <1>w, <2>1
<1>6. ASSUME WriteFile(o)
      PROVE  Waiting(c) /\ \A m \in Minutes : Current(o, m) => c \notin RowsFor(o, m)
  <2>1. ppc[o] = "write" /\ ppc'[o] = "release" /\ UNCHANGED <<delivered, csv, batch, todo>>
    BY <1>0, <1>6 DEF WriteFile, env
  <2>2. ASSUME NEW m \in Minutes, Current(o, m), c \in RowsFor(o, m) PROVE FALSE
    <3>1. c \in batch[o] /\ MinuteOf[c] = m /\ Current(o, m)'
      BY <1>0, <2>1, <2>2, NothingFails DEF RowsFor, Current
    <3>2. delivered[c] > 0
      BY <1>0, <1>b, <3>1 DEF Batches
    <3> QED
      BY <1>v, <2>1, <3>1, <3>2
  <2> QED
    BY <1>v, <1>w, <2>1, <2>2
<1>7. ASSUME ReleaseFile(o) PROVE Waiting(c)
  <2>1. PICK m \in Minutes : Current(o, m) /\ todo' = [todo EXCEPT ![o] = @ \ {m}]
    BY <1>7 DEF ReleaseFile
  <2>2. /\ ppc[o] = "release" /\ UNCHANGED <<delivered, csv, batch>>
        /\ ppc'[o] \in {"remove", "acquire"} /\ todo'[o] = todo[o] \ {m}
    BY <1>0, <1>7, <2>1 DEF ReleaseFile, env
  <2>3. MinuteOf[c] # m => ~Current(o, MinuteOf[c])
    BY <1>0, <2>1, CurrentUnique
  <2> QED
    BY <1>v, <1>w, <2>2, <2>3
<1>8. ASSUME RemoveFile(o) PROVE Waiting(c)
  <2>1. PICK d \in batch[o] : csv' = csv \ {d} /\ batch' = [batch EXCEPT ![o] = @ \ {d}]
    BY <1>0, <1>8, NothingFails
  <2>2. /\ UNCHANGED delivered /\ ppc[o] = "remove"
        /\ ppc'[o] = "remove" \/ (ppc'[o] = "list" /\ batch'[o] = {})
    BY <1>0, <1>8 DEF RemoveFile
  <2> QED
    BY <1>0, <1>v, <1>w, <2>1, <2>2
<1>9. ASSUME DbStep \/ Interrupt \/ UNCHANGED vars PROVE Waiting(c)
  <2>1. UNCHANGED <<csv, delivered, ppc, batch, todo>>
    BY <1>9 DEF DbStep, Connect, PickFile, DbAcquire, DbOpenFails, ExecLine, ExecFails, RejectFile,
        FinishFile, DbRelease, EndScan, DbExit, Interrupt, vars, fsvars, pvars, env
  <2> QED
    BY <1>0, <1>k, <2>1
<1>10. ASSUME Restart PROVE Waiting(c)
  <2>1. UNCHANGED <<csv, delivered>> /\ Stopped /\ ppc'[o] = "list"
    BY <1>0, <1>10, NothingFails DEF Restart, fsvars
  <2>2. ppc[o] = "dead" \/ batch[o] = {}
    BY <1>0, <2>1 DEF Stopped, Batches
  <2> QED
    BY <1>0, <1>v, <1>w, <2>1, <2>2
<1>11. Waiting(c)
  BY <1>0, <1>1, <1>2, <1>3, <1>4, <1>5, <1>6, <1>7, <1>8, <1>9, <1>10, NothingFails DEF Next,
         ParserStep
<1>12. ASSUME NEW p \in Parsers, NEW m \in Minutes, WriteFile(p), Current(p, m), c \in RowsFor(p, m)
       PROVE  FALSE
  BY <1>6, <1>b, <1>12, NothingFails DEF RowsFor
<1> QED
  BY <1>11, <1>12

\* Where the lines of two files are when the second is appended to the first.
LEMMA Concatenation ==
    ASSUME NEW s \in Seq(Line), NEW t \in Seq(Line)
    PROVE  /\ Len(s) \in Nat /\ DOMAIN s = 1 .. Len(s) /\ (s = <<>> <=> Len(s) = 0)
           /\ \A i \in 1 .. Len(s) : (s \o t)[i] = s[i]
           /\ \A i \in 1 .. Len(t) : (s \o t)[Len(s) + i] = t[i]
           /\ Len(s \o t) = Len(s) + Len(t) /\ DOMAIN (s \o t) = 1 .. (Len(s) + Len(t))
OBVIOUS

\* The lines of a minute's file after csv2sql appended to it, where there were `old' before.
LEMMA FileAfterWrite ==
    ASSUME Undisturbed, TypeOK, NEW p \in Parsers, NEW m \in Minutes,
           sql' = [sql EXCEPT ![m] = @ \o Appended(p, m)]
    PROVE  LET old == Len(sql[m])
               new == IF old = 0 THEN 4 ELSE old + 2
           IN  /\ old \in Nat /\ DOMAIN sql[m] = 1 .. old
               /\ DOMAIN sql'[m] = 1 .. new /\ Len(sql'[m]) = new
               /\ \A i \in 1 .. old : sql'[m][i] = sql[m][i]
               /\ old = 0 => sql'[m][1] = CreateLine("t") /\ sql'[m][2] = CreateLine("b")
               /\ sql'[m][new - 1] = InsertLine("t", RowsFor(p, m))
               /\ sql'[m][new] = InsertLine("b", RowsFor(p, m))
<1> DEFINE s == sql[m]
           a == Appended(p, m)
           rows == RowsFor(p, m)
           head == <<CreateLine("t"), CreateLine("b")>>
           tail == <<InsertLine("t", rows), InsertLine("b", rows)>>
<1>1. s \in Seq(Line) /\ a \in Seq(Line)
  BY AppendedType DEF TypeOK, FsTypeOK, ParserTypeOK
<1>2. sql'[m] = s \o a
  BY DEF TypeOK, FsTypeOK
<1>3. a = (IF s = <<>> THEN head ELSE <<>>) \o tail
  BY DEF Appended, Creates, Undisturbed
<1>4. /\ head \in Seq(Line) /\ Len(head) = 2 /\ head[1] = CreateLine("t") /\ head[2] = CreateLine("b")
      /\ tail \in Seq(Line) /\ Len(tail) = 2
      /\ tail[1] = InsertLine("t", rows) /\ tail[2] = InsertLine("b", rows)
  <2>1. CreateLine("t") \in Line /\ CreateLine("b") \in Line
    BY DEF CreateLine, Line, Parts
  <2>2. rows \in SUBSET Csv
    BY DEF RowsFor, Opened, TypeOK, ParserTypeOK
  <2>3. InsertLine("t", rows) \in Line /\ InsertLine("b", rows) \in Line
    BY <2>2 DEF InsertLine, Line, Parts
  <2> HIDE DEF rows
  <2> QED
    BY <2>1, <2>3
<1> HIDE DEF s, a, rows, head, tail
<1>5. /\ Len(s) \in Nat /\ DOMAIN s = 1 .. Len(s) /\ (s = <<>> <=> Len(s) = 0)
      /\ \A i \in 1 .. Len(s) : (s \o a)[i] = s[i]
      /\ \A i \in 1 .. Len(a) : (s \o a)[Len(s) + i] = a[i]
      /\ Len(s \o a) = Len(s) + Len(a) /\ DOMAIN (s \o a) = 1 .. (Len(s) + Len(a))
  BY <1>1, Concatenation
<1>6. CASE s = <<>>
  <2>1. a = head \o tail
    BY <1>3, <1>6
  <2>2. /\ Len(a) = 4 /\ a[1] = head[1] /\ a[2] = head[2]
        /\ a[3] = tail[1] /\ a[4] = tail[2]
    <3>1. head \in Seq(Line) /\ Len(head) = 2 /\ tail \in Seq(Line) /\ Len(tail) = 2
      BY <1>4
    <3>2. /\ Len(head \o tail) = Len(head) + Len(tail)
          /\ \A i \in 1 .. Len(head) : (head \o tail)[i] = head[i]
          /\ \A i \in 1 .. Len(tail) : (head \o tail)[Len(head) + i] = tail[i]
      BY <3>1, Concatenation
    <3> QED
      BY <2>1, <3>1, <3>2
  <2> QED
    BY <1>2, <1>4, <1>5, <1>6, <2>2 DEF s, rows
<1>7. CASE s # <<>>
  <2>1. a = tail
    BY <1>3, <1>4, <1>7
  <2>2. Len(s) # 0 /\ (Len(s) + 2) - 1 = Len(s) + 1
    BY <1>5, <1>7
  <2>3. (s \o a)[Len(s) + 1] = tail[1] /\ (s \o a)[Len(s) + 2] = tail[2]
    <3>1. Len(tail) = 2
      BY <1>4
    <3>2. 1 \in 1 .. Len(a) /\ 2 \in 1 .. Len(a)
      BY <2>1, <3>1
    <3> QED
      BY <1>5, <2>1, <3>2
  <2> QED
    BY <1>2, <1>4, <1>5, <2>1, <2>2, <2>3 DEF s, rows
<1> QED
  BY <1>6, <1>7

\* The rows that csv2sql appended are new in the file; the others were there, in the same lines.
LEMMA RowsAfterWrite ==
    ASSUME Undisturbed, TypeOK, NEW p \in Parsers, NEW m \in Minutes,
           sql' = [sql EXCEPT ![m] = @ \o Appended(p, m)],
           NEW n \in Minutes, NEW i \in DOMAIN sql'[n], NEW c \in sql'[n][i].rows
    PROVE  \/ i \in DOMAIN sql[n] /\ sql'[n][i] = sql[n][i]
           \/ n = m /\ i \notin DOMAIN sql[m] /\ c \in RowsFor(p, m)
<1>1. CASE n # m
  BY <1>1 DEF TypeOK, FsTypeOK
<1>2. CASE n = m
  <2> DEFINE old == Len(sql[m])
             new == IF old = 0 THEN 4 ELSE old + 2
  <2>1. /\ old \in Nat /\ DOMAIN sql[m] = 1 .. old /\ DOMAIN sql'[m] = 1 .. new
        /\ \A j \in 1 .. old : sql'[m][j] = sql[m][j]
        /\ old = 0 => sql'[m][1] = CreateLine("t") /\ sql'[m][2] = CreateLine("b")
        /\ sql'[m][new - 1] = InsertLine("t", RowsFor(p, m))
        /\ sql'[m][new] = InsertLine("b", RowsFor(p, m))
    BY FileAfterWrite
  <2>2. CreateLine("t").rows = {} /\ CreateLine("b").rows = {}
    BY DEF CreateLine
  <2>3. InsertLine("t", RowsFor(p, m)).rows = RowsFor(p, m) /\ InsertLine("b", RowsFor(p, m)).rows = RowsFor(p, m)
    BY DEF InsertLine
  <2> HIDE DEF old
  <2>4. i \in 1 .. old \/ (old = 0 /\ i \in {1, 2}) \/ i \in {new - 1, new}
    BY <1>2, <2>1
  <2> QED
    BY <1>2, <2>1, <2>2, <2>3, <2>4
<1> QED
  BY <1>1, <1>2

LEMMA UnwrittenStep ==
    ASSUME Undisturbed, TypeOK, Batches, Unwritten, [Next]_vars
    PROVE  Unwritten'
<1> SUFFICES ASSUME NEW c \in Csv, Waiting(c)'
             PROVE  /\ \A part \in Parts : <<c, part>> \notin db'
                    /\ \A m \in Minutes : \A i \in DOMAIN sql'[m] : c \notin sql'[m][i].rows
  BY DEF Unwritten
<1>1. /\ \A part \in Parts : <<c, part>> \notin db
      /\ \A m \in Minutes : \A i \in DOMAIN sql[m] : c \notin sql[m][i].rows
  BY WaitingStep DEF Unwritten
<1>2. ASSUME NEW p \in Parsers, WriteFile(p) PROVE UNCHANGED db /\
             \A m \in Minutes : \A i \in DOMAIN sql'[m] : c \notin sql'[m][i].rows
  <2>1. PICK m \in Minutes : Current(p, m) /\ sql' = [sql EXCEPT ![m] = @ \o Appended(p, m)]
    BY <1>2 DEF WriteFile
  <2>2. c \notin RowsFor(p, m)
    BY <1>2, <2>1, WaitingStep
  <2>3. UNCHANGED db
    BY <1>2 DEF WriteFile, server
  <2>4. ASSUME NEW n \in Minutes, NEW i \in DOMAIN sql'[n], c \in sql'[n][i].rows PROVE FALSE
    <3>1. \/ i \in DOMAIN sql[n] /\ sql'[n][i] = sql[n][i]
          \/ c \in RowsFor(p, m)
      BY <2>1, <2>4, RowsAfterWrite
    <3> QED
      BY <1>1, <2>2, <2>4, <3>1
  <2> QED
    BY <2>3, <2>4
<1>3. CASE ExecLine
  <2>1. /\ file \in Minutes /\ line \in DOMAIN sql[file] /\ Apply(sql[file][line])
        /\ UNCHANGED sql
    BY <1>3 DEF ExecLine, TypeOK, DbTypeOK, FsTypeOK, fsvars
  <2>2. c \notin sql[file][line].rows
    BY <1>1, <2>1
  <2> QED
    BY <1>1, <2>1, <2>2 DEF Apply
<1>4. CASE sql' = [sql EXCEPT ![file] = <<>>] /\ UNCHANGED db
  <2>1. \A m \in Minutes : sql'[m] = sql[m] \/ sql'[m] = <<>>
    BY <1>4 DEF TypeOK, FsTypeOK
  <2> QED
    BY <1>1, <1>4, <2>1
<1>5. CASE UNCHANGED <<sql, db>>
  BY <1>1, <1>5
<1> QED
  BY <1>1, <1>2, <1>3, <1>4, <1>5, Effects

\* What csv2sql is about to append has not been written before.
LEMMA RowsWait ==
    ASSUME Undisturbed, TypeOK, Batches, [Next]_vars, NEW p \in Parsers, WriteFile(p),
           NEW m \in Minutes, Current(p, m), NEW c \in RowsFor(p, m)
    PROVE  c \in Csv /\ MinuteOf[c] = m /\ Waiting(c)
<1>1. c \in batch[p] /\ MinuteOf[c] = m /\ m \in todo[p] /\ ppc[p] = "write"
  BY NothingFails DEF RowsFor, Current, WriteFile
<1>2. c \in csv /\ Owner(c) = p /\ c \in Csv
  BY <1>1 DEF Batches, TypeOK, FsTypeOK
<1> QED
  BY <1>1, <1>2 DEF Waiting

LEMMA SqlFilesStep ==
    ASSUME Undisturbed, TypeOK, Batches, Unwritten, SqlFiles, [Next]_vars
    PROVE  SqlFiles'
<1>0. sql \in [Minutes -> Seq(Line)]
  BY DEF TypeOK, FsTypeOK
<1>1. ASSUME NEW p \in Parsers, WriteFile(p) PROVE SqlFiles'
  <2>1. PICK m \in Minutes : Current(p, m) /\ sql' = [sql EXCEPT ![m] = @ \o Appended(p, m)]
    BY <1>1 DEF WriteFile
  <2> DEFINE old == Len(sql[m])
             new == IF old = 0 THEN 4 ELSE old + 2
             s == sql'[m]
             rows == RowsFor(p, m)
  <2>2. /\ old \in Nat /\ DOMAIN sql[m] = 1 .. old /\ DOMAIN s = 1 .. new /\ Len(s) = new
        /\ \A i \in 1 .. old : s[i] = sql[m][i]
        /\ old = 0 => s[1] = CreateLine("t") /\ s[2] = CreateLine("b")
        /\ s[new - 1] = InsertLine("t", rows)
        /\ s[new] = InsertLine("b", rows)
    BY <2>1, FileAfterWrite
  <2>3. /\ InsertLine("t", rows).part = "t" /\ InsertLine("b", rows).part = "b"
        /\ InsertLine("t", rows).op = "insert" /\ InsertLine("b", rows).op = "insert"
        /\ InsertLine("b", rows).rows = rows
        /\ CreateLine("t").rows = {} /\ CreateLine("b").rows = {}
    BY DEF InsertLine, CreateLine
  <2>4. sql[m] = <<>> <=> old = 0
    BY <1>0
  <2>5. s # <<>> /\ \A n \in Minutes \ {m} : sql'[n] = sql[n]
    BY <1>0, <2>1, <2>2
  <2> HIDE DEF old, s, rows
  <2>6. WellFormed(s)
    <3>1. CASE old = 0
      <4>1. \A i \in 3 .. 4 : i = 3 \/ (i = 4 /\ i - 1 = 3)
        OBVIOUS
      <4> QED
        BY <2>2, <2>3, <3>1, <4>1 DEF WellFormed
    <3>2. CASE old # 0
      <4>1. /\ old >= 2 /\ sql[m][1] = CreateLine("t") /\ sql[m][2] = CreateLine("b")
            /\ \A i \in 3 .. old :
                 /\ sql[m][i].op = "insert"
                 /\ sql[m][i].part = "b" => sql[m][i - 1] = InsertLine("t", sql[m][i].rows)
        BY <2>4, <3>2 DEF SqlFiles, WellFormed, old
      <4>2. ASSUME NEW i \in 3 .. new
            PROVE  s[i].op = "insert" /\ (s[i].part = "b" => s[i - 1] = InsertLine("t", s[i].rows))
        <5>1. CASE i \in 3 .. old
          BY <2>2, <4>1, <5>1
        <5>2. CASE i = new - 1
          BY <2>2, <2>3, <5>2
        <5>3. CASE i = new
          BY <2>2, <2>3, <5>3
        <5> QED
          BY <2>2, <3>2, <5>1, <5>2, <5>3
      <4> QED
        BY <2>2, <3>2, <4>1, <4>2 DEF WellFormed
    <3> QED
      BY <3>1, <3>2
  <2>7. ASSUME NEW i \in DOMAIN s, NEW c \in s[i].rows
        PROVE  /\ MinuteOf[c] = m
               /\ \A j \in DOMAIN s : c \in s[j].rows /\ s[i].part = s[j].part => i = j
    <3>1. ASSUME NEW j \in DOMAIN s, c \in s[j].rows
          PROVE  j \in 1 .. old \/ (c \in rows /\ j \in {new - 1, new})
      <4>1. j \in 1 .. old \/ (old = 0 /\ j \in {1, 2}) \/ j \in {new - 1, new}
        BY <2>2
      <4>2. j \in {new - 1, new} => c \in rows
        BY <2>2, <3>1 DEF InsertLine
      <4> QED
        BY <2>2, <2>3, <3>1, <4>1, <4>2
    <3>2. CASE c \in rows
      <4>1. c \in Csv /\ MinuteOf[c] = m /\ Waiting(c)
        BY <1>1, <2>1, <3>2, RowsWait DEF rows
      <4>2. \A j \in 1 .. old : c \notin s[j].rows
        BY <2>2, <4>1 DEF Unwritten
      <4>3. new - 1 # new
        BY <2>2
      <4>4. ASSUME NEW j \in DOMAIN s, c \in s[j].rows, s[i].part = s[j].part PROVE i = j
        <5>1. i \in {new - 1, new} /\ j \in {new - 1, new}
          BY <2>7, <3>1, <4>2, <4>4
        <5> QED
          BY <2>2, <2>3, <4>4, <5>1
      <4> QED
        BY <4>1, <4>4
    <3>3. CASE c \notin rows
      <4>1. \A j \in DOMAIN s : c \in s[j].rows => j \in DOMAIN sql[m] /\ s[j] = sql[m][j]
        BY <2>2, <3>1, <3>3
      <4>2. i \in DOMAIN sql[m] /\ s[i] = sql[m][i]
        BY <2>7, <4>1
      <4>3. Distinct(m)
        BY DEF SqlFiles
      <4> QED
        BY <4>1, <4>2, <4>3 DEF Distinct
    <3> QED
      BY <3>2, <3>3
  <2>8. Distinct(m)'
    BY <2>7 DEF Distinct, s
  <2>9. \A n \in Minutes \ {m} : WellFormed(sql'[n]) /\ Distinct(n)'
    BY <2>5 DEF SqlFiles, Distinct
  <2> QED
    BY <2>6, <2>8, <2>9 DEF SqlFiles, s
<1>2. CASE sql' = [sql EXCEPT ![file] = <<>>]
  <2>1. ASSUME NEW m \in Minutes PROVE WellFormed(sql'[m]) /\ Distinct(m)'
    <3>1. sql'[m] = sql[m] \/ sql'[m] = <<>>
      BY <1>0, <1>2
    <3>2. CASE sql'[m] = sql[m]
      BY <3>2 DEF SqlFiles, Distinct
    <3>3. CASE sql'[m] = <<>>
      BY <3>3 DEF WellFormed, Distinct
    <3> QED
      BY <3>1, <3>2, <3>3
  <2> QED
    BY <2>1 DEF SqlFiles
<1>3. CASE UNCHANGED sql
  BY <1>3 DEF SqlFiles, Distinct
<1>4. ExecLine => UNCHANGED sql
  BY DEF ExecLine, fsvars
<1> QED
  BY <1>1, <1>2, <1>3, <1>4, Effects

LEMMA UnexecutedStep ==
    ASSUME Undisturbed, TypeOK, LockInv, Batches, Unwritten, SqlFiles, Unexecuted, [Next]_vars
    PROVE  Unexecuted'
<1>0. sql \in [Minutes -> Seq(Line)]
  BY DEF TypeOK, FsTypeOK
<1>k. ASSUME UNCHANGED <<sql, db>>,
             dpc \in {"exec", "reject"} => dpc' \in {"exec", "reject"} /\ UNCHANGED <<file, line>>
      PROVE  Unexecuted'
  BY <1>k DEF Unexecuted
<1>1. ASSUME NEW p \in Parsers, WriteFile(p) PROVE Unexecuted'
  <2>1. PICK m \in Minutes : Current(p, m) /\ sql' = [sql EXCEPT ![m] = @ \o Appended(p, m)]
    BY <1>1 DEF WriteFile
  <2>2. UNCHANGED <<dpc, file, line, db>>
    BY <1>1 DEF WriteFile, dvars, server
  <2>3. ASSUME NEW n \in Minutes, NEW i \in DOMAIN sql'[n], NEW c \in sql'[n][i].rows,
               <<c, sql'[n][i].part>> \in db
        PROVE  dpc \in {"exec", "reject"} /\ file = n /\ i < line
    <3>1. CASE i \in DOMAIN sql[n] /\ sql'[n][i] = sql[n][i]
      BY <2>3, <3>1 DEF Unexecuted
    <3>2. CASE c \in RowsFor(p, m)
      <4>1. c \in Csv /\ \A part \in Parts : <<c, part>> \notin db
        BY <1>1, <2>1, <3>2, RowsWait DEF Unwritten
      <4>2. sql'[n][i] \in Line
        <5>1. sql' \in [Minutes -> Seq(Line)]
          BY TypeStep DEF TypeOK, FsTypeOK
        <5> QED
          BY <5>1
      <4> QED
        BY <2>3, <4>1, <4>2 DEF Line
    <3> QED
      BY <2>1, <2>3, <3>1, <3>2, RowsAfterWrite
  <2> QED
    BY <2>2, <2>3 DEF Unexecuted
<1>2. CASE ExecLine
  <2> DEFINE stmt == sql[file][line]
  <2>1. /\ file \in Minutes /\ line \in DOMAIN sql[file] /\ Apply(stmt)
        /\ UNCHANGED <<sql, dpc, file>> /\ dpc = "exec" /\ line' = line + 1 /\ line \in Nat
    BY <1>0, <1>2 DEF ExecLine, TypeOK, DbTypeOK, fsvars
  <2>2. ASSUME NEW m \in Minutes, NEW i \in DOMAIN sql[m], NEW c \in sql[m][i].rows,
               <<c, sql[m][i].part>> \in db'
        PROVE  file = m /\ i < line + 1
    <3>0. i \in Nat
      BY <1>0
    <3>1. CASE <<c, sql[m][i].part>> \in db
      BY <2>1, <3>0, <3>1 DEF Unexecuted
    <3>2. CASE c \in stmt.rows /\ sql[m][i].part = stmt.part
      <4>1. m = file
        BY <2>1, <3>2 DEF SqlFiles, Distinct
      <4>2. i = line
        BY <2>1, <3>2, <4>1 DEF SqlFiles, Distinct
      <4> QED
        BY <2>1, <4>1, <4>2
    <3> QED
      BY <2>1, <2>2, <3>1, <3>2 DEF Apply
  <2> QED
    BY <2>1, <2>2 DEF Unexecuted
<1>3. CASE dpc \in {"exec", "reject"} /\ dpc' = "release" /\ UNCHANGED <<db, file>>
           /\ sql' = [sql EXCEPT ![file] = <<>>]
  <2>1. ASSUME NEW m \in Minutes, NEW i \in DOMAIN sql'[m], NEW c \in sql'[m][i].rows
        PROVE  <<c, sql'[m][i].part>> \notin db
    <3>1. m # file
      BY <1>0, <1>3, <2>1
    <3>2. sql'[m] = sql[m]
      BY <1>0, <1>3, <3>1
    <3> QED
      BY <2>1, <3>1, <3>2 DEF Unexecuted
  <2> QED
    BY <1>3, <2>1 DEF Unexecuted
<1>4. CASE \E p \in Parsers : ParserStep(p) /\ ~WriteFile(p)
  <2>1. UNCHANGED <<sql, db, dpc, file, line>>
    BY <1>4 DEF ParserStep, ListFiles, Parse, AcquireFile, OpenFails, ReleaseFile, RemoveFile,
                ParserExit, fsvars, dvars, server
  <2> QED
    BY <1>k, <2>1
<1>5. CASE ExecFails \/ Interrupt \/ UNCHANGED vars \/ \E c \in Csv : Deliver(c)
  <2>1. /\ UNCHANGED <<sql, db, file, line>>
        /\ dpc' = dpc \/ dpc' = "reject"
    BY <1>5, NothingFails DEF ExecFails, Interrupt, Deliver, vars, fsvars, dvars, server
  <2> QED
    BY <1>k, <2>1
<1>6. CASE Connect \/ PickFile \/ DbAcquire \/ DbOpenFails \/ DbRelease \/ EndScan \/ DbExit
  BY <1>6, <1>k DEF Connect, PickFile, DbAcquire, DbOpenFails, DbRelease, EndScan, DbExit, fsvars,
         server
<1>7. CASE Restart
  <2>1. UNCHANGED <<sql, db>> /\ dpc = "exited"
    BY <1>7, NothingFails DEF Restart, Stopped, fsvars, server
  <2> QED
    BY <1>k, <2>1
<1>8. RejectFile \/ FinishFile => dpc \in {"exec", "reject"} /\ dpc' = "release" /\ UNCHANGED <<db, file>>
                                   /\ sql' = [sql EXCEPT ![file] = <<>>]
  BY NothingFails DEF RejectFile, FinishFile, server
<1> QED
  BY <1>1, <1>2, <1>3, <1>4, <1>5, <1>6, <1>7, <1>8, NothingFails DEF Next, DbStep

\* A statement of a file whose earlier lines were executed is accepted, but for a refused row.
LEMMA Acceptable ==
    ASSUME Undisturbed, TypeOK, Executed, SqlFiles, Unexecuted, Ready,
           dpc = "exec", line \in DOMAIN sql[file], ~Accepts(sql[file][line])
    PROVE  Refused(sql[file])
<1> DEFINE s == sql[file]
           stmt == s[line]
<1>0. /\ file \in Minutes /\ s \in Seq(Line) /\ line \in Nat /\ line \in 1 .. Len(s) /\ s # <<>>
      /\ stmt \in Line
  BY DEF TypeOK, DbTypeOK, FsTypeOK
<1>1. /\ WellFormed(s) /\ Distinct(file)
  BY <1>0 DEF SqlFiles
<1> HIDE DEF s
<1>2. stmt.op = "insert" /\ ~( /\ <<TableOf(file), stmt.part>> \in tables
                               /\ \A c \in stmt.rows : <<c, stmt.part>> \notin db
                               /\ stmt.part = "b" =>
                                     \A c \in stmt.rows : <<c, "t">> \in db /\ Kind[c] # "refused")
  BY DEF Accepts, s
<1>3. line \in 3 .. Len(s)
  <2>1. line # 1 /\ line # 2
    BY <1>0, <1>1, <1>2 DEF WellFormed, CreateLine
  <2> QED
    BY <1>0, <2>1
<1>4. <<TableOf(file), stmt.part>> \in tables
  <2>1. TableOf(file) = file /\ stmt.part \in {"t", "b"}
    BY <1>0 DEF TableOf, Undisturbed, Line, Parts
  <2> QED
    BY <1>3, <2>1 DEF Ready
<1>5. \A c \in stmt.rows : <<c, stmt.part>> \notin db
  BY <1>0 DEF Unexecuted, s
<1>6. stmt.part = "b" => \A c \in stmt.rows : <<c, "t">> \in db
  <2>1. SUFFICES ASSUME stmt.part = "b" PROVE stmt.rows \X {"t"} \subseteq db
    OBVIOUS
  <2>2. s[line - 1] = InsertLine("t", stmt.rows)
    BY <1>1, <1>3, <2>1 DEF WellFormed
  <2>3. line - 1 \in DOMAIN s /\ line - 1 < line
    BY <1>0, <1>3
  <2>4. s[line - 1].rows \X {s[line - 1].part} \subseteq db
    BY <2>3 DEF Executed, s
  <2> QED
    BY <2>2, <2>4 DEF InsertLine
<1>7. PICK c \in stmt.rows : stmt.part = "b" /\ Kind[c] = "refused"
  BY <1>2, <1>4, <1>5, <1>6
<1>8. c \in Csv /\ <<c, "b">> \in RecsOf(s)
  BY <1>0, <1>7, ConstantTypes DEF RecsOf, Rec, Line
<1> QED
  BY <1>7, <1>8 DEF Refused, s

LEMMA ReadyStep ==
    ASSUME Undisturbed, TypeOK, LockInv, SqlFiles, Ready, [Next]_vars
    PROVE  Ready'
<1>1. ASSUME NEW p \in Parsers, ParserStep(p) PROVE Ready'
  <2>1. UNCHANGED <<dpc, file, line, conn, tables>>
    BY <1>1 DEF ParserStep, ListFiles, Parse, AcquireFile, WriteFile, OpenFails, ReleaseFile,
                RemoveFile, ParserExit, dvars, server
  <2> QED
    BY <2>1 DEF Ready
<1>2. CASE ExecLine
  <2>1. /\ file \in Minutes /\ line \in Nat \ {0} /\ line \in DOMAIN sql[file] /\ Apply(sql[file][line])
        /\ UNCHANGED <<dpc, file, conn>> /\ dpc = "exec" /\ line' = line + 1 /\ sql[file] # <<>>
    BY <1>2 DEF ExecLine, TypeOK, DbTypeOK, FsTypeOK
  <2>2. sql[file][1] = CreateLine("t") /\ sql[file][2] = CreateLine("b")
    BY <2>1 DEF SqlFiles, WellFormed
  <2>3. TableOf(file) = file
    BY DEF TableOf, Undisturbed
  <2>4. tables \subseteq tables'
    BY <2>1 DEF Apply
  <2>5. line = 1 => <<file, "t">> \in tables'
    BY <2>1, <2>2, <2>3 DEF Apply, CreateLine
  <2>6. line = 2 => <<file, "b">> \in tables'
    BY <2>1, <2>2, <2>3 DEF Apply, CreateLine
  <2> QED
    BY <2>1, <2>4, <2>5, <2>6 DEF Ready
<1>3. CASE Connect \/ PickFile \/ DbAcquire \/ DbOpenFails \/ DbRelease \/ EndScan \/ DbExit \/ RejectFile \/ FinishFile
  BY <1>3 DEF Ready, Connect, PickFile, DbAcquire, DbOpenFails, DbRelease, EndScan, DbExit,
         RejectFile, FinishFile, server
<1>4. CASE ExecFails
  BY <1>4, NothingFails DEF Ready, ExecFails
<1>5. CASE Interrupt \/ UNCHANGED vars \/ \E c \in Csv : Deliver(c)
  <2>1. UNCHANGED <<dpc, file, line, conn, tables>>
    BY <1>5 DEF Interrupt, Deliver, vars, dvars, server
  <2> QED
    BY <2>1 DEF Ready
<1>6. CASE Restart
  BY <1>6 DEF Restart, Ready
<1> QED
  BY <1>1, <1>2, <1>3, <1>4, <1>5, <1>6, NothingFails DEF Next, DbStep

LEMMA RejectedStep ==
    ASSUME Undisturbed, TypeOK, LockInv, Executed, SqlFiles, Unexecuted, Ready, Rejected, [Next]_vars
    PROVE  Rejected'
<1>0. sql \in [Minutes -> Seq(Line)] /\ error \in [Minutes -> Seq(Seq(Line))]
  BY DEF TypeOK, FsTypeOK
<1>k. ASSUME UNCHANGED error, dpc' # "reject" \/ (dpc = "reject" /\ UNCHANGED file /\ sql'[file] = sql[file])
      PROVE  Rejected'
  BY <1>k DEF Rejected
<1>1. ASSUME NEW p \in Parsers, ParserStep(p) PROVE Rejected'
  <2>1. UNCHANGED <<error, dpc, file>>
    BY <1>1 DEF ParserStep, ListFiles, Parse, AcquireFile, WriteFile, OpenFails, ReleaseFile,
                RemoveFile, ParserExit, fsvars, dvars
  <2>2. CASE WriteFile(p)
    <3>1. PICK m \in Minutes : Current(p, m) /\ sql' = [sql EXCEPT ![m] = @ \o Appended(p, m)]
      BY <2>2 DEF WriteFile
    <3>2. ParserHolds(p, m)
      BY <2>2, <3>1 DEF WriteFile, ParserHolds
    <3>3. dpc = "reject" => file \in Minutes /\ m # file
      BY <3>2 DEF LockInv, MutualExclusion, DbHolds, TypeOK, DbTypeOK
    <3> QED
      BY <1>0, <1>k, <2>1, <3>1, <3>3
  <2>3. CASE ~WriteFile(p)
    <3>1. UNCHANGED sql
      BY <1>1, <2>3 DEF ParserStep, ListFiles, Parse, AcquireFile, OpenFails, ReleaseFile,
                        RemoveFile, ParserExit, fsvars
    <3> QED
      BY <1>k, <2>1, <3>1
  <2> QED
    BY <2>2, <2>3
<1>2. CASE ExecFails
  <2>1. /\ UNCHANGED <<sql, error, file>> /\ dpc = "exec" /\ dpc' = "reject"
        /\ ~Accepts(sql[file][line])
    BY <1>2, NothingFails DEF ExecFails, Ready, fsvars
  <2>2. line \in DOMAIN sql[file]
    BY <1>0, <1>2 DEF ExecFails, TypeOK, DbTypeOK
  <2>3. Refused(sql[file])
    BY <2>1, <2>2, Acceptable
  <2> QED
    BY <2>1, <2>3 DEF Rejected
<1>3. CASE RejectFile
  <2>1. /\ dpc = "reject" /\ dpc' = "release" /\ file \in Minutes
        /\ error' = [error EXCEPT ![file] = Append(@, sql[file])]
    BY <1>3, NothingFails DEF RejectFile, MoveToError, TypeOK, DbTypeOK
  <2>2. ASSUME NEW m \in Minutes, NEW i \in DOMAIN error'[m] PROVE Refused(error'[m][i])
    <3>1. CASE m # file
      BY <1>0, <2>1, <2>2, <3>1 DEF Rejected
    <3>2. CASE m = file
      <4> DEFINE Content == Seq(Line)
                 e == error[file]
      <4>1. e \in Seq(Content) /\ sql[file] \in Content /\ error'[m] = Append(e, sql[file])
        BY <1>0, <2>1, <3>2
      <4> HIDE DEF Content, e
      <4>2. (i \in DOMAIN e /\ error'[m][i] = e[i]) \/ error'[m][i] = sql[file]
        BY <2>2, <4>1
      <4> QED
        BY <2>1, <4>2 DEF Rejected, e
    <3> QED
      BY <3>1, <3>2
  <2> QED
    BY <2>1, <2>2 DEF Rejected
<1>4. CASE DbStep /\ ~ExecFails /\ ~RejectFile
  <2>1. UNCHANGED error /\ dpc' # "reject"
    BY <1>4 DEF DbStep, Connect, PickFile, DbAcquire, DbOpenFails, ExecLine, FinishFile, DbRelease,
           EndScan, DbExit, fsvars
  <2> QED
    BY <1>k, <2>1
<1>5. CASE Interrupt \/ UNCHANGED vars \/ \E c \in Csv : Deliver(c)
  <2>1. UNCHANGED <<sql, error, dpc, file>>
    BY <1>5 DEF Interrupt, Deliver, vars, fsvars, dvars
  <2> QED
    BY <1>k, <2>1
<1>6. CASE Restart
  BY <1>6, <1>k DEF Restart, fsvars
<1> QED
  BY <1>1, <1>2, <1>3, <1>4, <1>5, <1>6, NothingFails DEF Next

\* What the stage keeps, step by step, as long as its steps are undisturbed.
StageInv == TypeOK /\ LockInv /\ Executed /\ ImportInv

LEMMA StageInit == Init => StageInv
<1> SUFFICES ASSUME Init PROVE StageInv
  OBVIOUS
<1>1. Batches
  BY DEF Init, Batches
<1>2. Unwritten /\ Unexecuted
  BY DEF Init, Unwritten, Unexecuted
<1>3. SqlFiles
  BY DEF Init, SqlFiles, WellFormed, Distinct
<1>4. Ready /\ Rejected
  BY DEF Init, Ready, Rejected
<1> QED
  BY <1>1, <1>2, <1>3, <1>4, TypeInit, LockInit, WrittenInit DEF StageInv, ImportInv

LEMMA StageStep ==
    ASSUME Undisturbed, StageInv, [Next]_vars
    PROVE  StageInv'
<1>1. TypeOK /\ LockInv /\ Executed
  BY DEF StageInv
<1>2. Batches /\ Unwritten /\ SqlFiles /\ Unexecuted /\ Ready /\ Rejected
  BY DEF StageInv, ImportInv
<1>3. TypeOK' /\ LockInv' /\ Executed'
  BY <1>1, TypeStep, LockStep, ExecutedStep
<1>4. Batches' /\ Unwritten' /\ SqlFiles'
  BY <1>1, <1>2, BatchesStep, UnwrittenStep, SqlFilesStep
<1>5. Unexecuted' /\ Ready' /\ Rejected'
  BY <1>1, <1>2, UnexecutedStep, ReadyStep, RejectedStep
<1> QED
  BY <1>3, <1>4, <1>5 DEF StageInv, ImportInv

\* With a table for each minute, csv files delivered once and a program that is only ever stopped
\* by SIGINT, and started again, the database process moves a file to error/ only for a row that
\* the server refuses: no table is missing, no row is inserted twice, and no candidate comes
\* without its detection, whatever the parsers append between two of its visits.
THEOREM SpoolNoRowRejected ==
    ASSUME OneTable = FALSE
    PROVE  Spec => []NoRowRejected
<1>1. CASE Faults \subseteq {"sigint"} /\ MaxDeliveries = 1
  <2>1. ASSUME StageInv, [Next]_vars PROVE StageInv'
    <3>0. TypeOK /\ TypeOK'
      BY <2>1, TypeStep DEF StageInv
    <3>1. \A c \in Csv : delivered'[c] <= 1
      BY <1>1, <3>0 DEF TypeOK, EnvTypeOK
    <3>2. \A kind \in FaultKinds \ {"sigint"} : ~Failing(kind) /\ kind \notin Faults
      BY <1>1 DEF Failing
    <3>3. ASSUME faults' # faults PROVE Interrupt \/ (Restart /\ Stopped)
      <4>1. CASE \E p \in Parsers : ParserStep(p)
        BY <3>2, <3>3, <4>1 DEF ParserStep, ListFiles, Parse, AcquireFile, WriteFile, OpenFails,
                                ReleaseFile, RemoveFile, ParserExit, env, FaultKinds
      <4>2. CASE DbStep
        BY <3>2, <3>3, <4>2 DEF DbStep, Connect, PickFile, DbAcquire, DbOpenFails, ExecLine,
                                ExecFails, RejectFile, FinishFile, DbRelease, EndScan, DbExit, env,
                                FaultKinds
      <4>3. CASE ConnectionLost \/ UNCHANGED vars \/ \E c \in Csv : Deliver(c)
        BY <3>2, <3>3, <4>3 DEF ConnectionLost, Deliver, vars, env, FaultKinds
      <4>4. Restart => Stopped
        BY <3>2 DEF Restart, FaultKinds
      <4> QED
        BY <2>1, <4>1, <4>2, <4>3, <4>4 DEF Next
    <3>4. Undisturbed
      BY <3>1, <3>3 DEF Undisturbed
    <3> QED
      BY <2>1, <3>4, StageStep
  <2>2. StageInv => NoRowRejected
    BY DEF StageInv, ImportInv, Rejected, Refused, NoRowRejected
  <2> QED
    BY <2>1, <2>2, StageInit, PTL DEF Spec
<1>2. CASE ~(Faults \subseteq {"sigint"} /\ MaxDeliveries = 1)
  <2>1. NoRowRejected
    BY <1>2 DEF NoRowRejected
  <2> QED
    BY <2>1, PTL
<1> QED
  BY <1>1, <1>2
=============================================================================
