--------------------------- MODULE ImporterProofs ---------------------------
(***************************************************************************)
(* Theorems about the whole program: what Fetch and Spool promise, each by *)
(* itself, they also keep when they run together, and what the Cray marks  *)
(* as done is somewhere in the program, from end to end.                   *)
(***************************************************************************)
EXTENDS Importer, FetchProofs

LocalP == INSTANCE SpoolProofs WITH
    delivered <- unpacked, todo <- minutes, faults <- localFaults, Faults <- LocalFaults

-----------------------------------------------------------------------------
(* The parts of the program. *)

LEMMA ImporterFetchStep == ImporterNext => [Next]_vars
<1> SUFFICES ASSUME ImporterNext PROVE [Next]_vars
  OBVIOUS
<1>1. CASE Local!ConnectionLost /\ UNCHANGED remoteOnly
  BY <1>1 DEF Local!ConnectionLost, remoteOnly, vars, uvars
<1>2. ASSUME NEW p \in Local!Parsers, ParserRuns(p) PROVE UNCHANGED vars
  <2>1. UNCHANGED <<unpacked, interrupted>>
    BY <1>2 DEF ParserRuns, Local!ParserStep, Local!ListFiles, Local!Parse, Local!AcquireFile,
           Local!WriteFile, Local!OpenFails, Local!ReleaseFile, Local!RemoveFile,
           Local!ParserExit, Local!env
  <2> QED
    BY <1>2, <2>1 DEF ParserRuns, remoteOnly, vars, uvars
<1>3. CASE DbRuns
  <2>1. UNCHANGED <<unpacked, interrupted>>
    BY <1>3 DEF DbRuns, Local!DbStep, Local!Connect, Local!PickFile, Local!DbAcquire,
           Local!DbOpenFails, Local!ExecLine, Local!ExecFails, Local!RejectFile, Local!FinishFile,
           Local!DbRelease, Local!EndScan, Local!DbExit, Local!env
  <2> QED
    BY <1>3, <2>1 DEF DbRuns, remoteOnly, vars, uvars
<1>4. CASE UnzipRuns
  BY <1>4 DEF UnzipRuns, HandOver, Next, UnzipStep
<1>5. CASE (\E t \in Tar : Arrive(t)) \/ SigInt \/ StartAgain \/ ChildRuns \/ MainRuns
  BY <1>5 DEF SigInt, StartAgain, ChildRuns, MainRuns, Next
<1>6. CASE \E i \in DOMAIN cmds : CrayRuns(i)
  BY <1>6 DEF CrayRuns, Next
<1> QED
  BY <1>1, <1>2, <1>3, <1>4, <1>5, <1>6 DEF ImporterNext

\* The parsers and the database process take nothing from Fetch that it does not allow for, so
\* that whatever holds of Fetch, as UnpackedOnce and Backpressure do, holds of the program.
THEOREM ImporterFetches == ImporterSpec => Spec
<1>1. ImporterInit => Init
  BY DEF ImporterInit
<1>2. [ImporterNext]_ivars => [Next]_vars
  BY ImporterFetchStep DEF ivars
<1> QED
  BY <1>1, <1>2, PTL DEF ImporterSpec, Spec

\* LocalP is Local with the theorems about it.
LEMMA SameInit == Local!Init => LocalP!Init
  BY Zenon DEF Local!Init, LocalP!Init, Local!Minutes, LocalP!Minutes, Local!Parsers, LocalP!Parsers

LEMMA SameDeliver == \A c \in Csv : Local!Deliver(c) => LocalP!Deliver(c)
  BY Zenon DEF Local!Deliver, LocalP!Deliver, Local!pvars, LocalP!pvars, Local!dvars, LocalP!dvars,
         Local!server, LocalP!server

LEMMA SameFaults == 
    /\ Local!Interrupt => LocalP!Interrupt
    /\ Local!ConnectionLost => LocalP!ConnectionLost
    /\ Local!Restart => LocalP!Restart
  BY Zenon DEF Local!Interrupt, LocalP!Interrupt, Local!ConnectionLost, LocalP!ConnectionLost,
         Local!Restart, LocalP!Restart, Local!Failing, LocalP!Failing, Local!Stopped,
         LocalP!Stopped, Local!Parsers, LocalP!Parsers, Local!pvars, LocalP!pvars, Local!dvars,
         LocalP!dvars, Local!fsvars, LocalP!fsvars, Local!server, LocalP!server, Local!env,
         LocalP!env

LEMMA SameCardinality == \A S : Local!Cardinality(S) = LocalP!Cardinality(S)
  BY DEF Local!Cardinality, LocalP!Cardinality

LEMMA SameOperators == 
    /\ Local!Parsers = LocalP!Parsers /\ Local!Minutes = LocalP!Minutes
    /\ Local!BatchLimit = LocalP!BatchLimit /\ \A c : Local!Owner(c) = LocalP!Owner(c)
    /\ \A p : Local!CanOpen(p) <=> LocalP!CanOpen(p)
    /\ \A p : Local!Opened(p) = LocalP!Opened(p)
    /\ \A p, m : Local!RowsFor(p, m) = LocalP!RowsFor(p, m)
    /\ \A p, m : Local!Appended(p, m) = LocalP!Appended(p, m)
  BY Zenon DEF Local!Parsers, LocalP!Parsers, Local!Minutes, LocalP!Minutes, Local!BatchLimit,
         LocalP!BatchLimit, Local!Owner, LocalP!Owner, Local!CanOpen,
         LocalP!CanOpen, Local!Opened, LocalP!Opened, Local!RowsFor, LocalP!RowsFor,
         Local!HasRows, LocalP!HasRows, Local!Appended, LocalP!Appended, Local!Creates,
         LocalP!Creates, Local!CreateLine, LocalP!CreateLine, Local!InsertLine, LocalP!InsertLine

LEMMA SameParsers == \A p \in Local!Parsers : Local!ParserStep(p) => LocalP!ParserStep(p)
<1> TAKE p \in Local!Parsers
<1>1. Local!ListFiles(p) => LocalP!ListFiles(p)
  BY SameOperators, SameCardinality
  DEF Local!ListFiles, LocalP!ListFiles, Local!fsvars, LocalP!fsvars, Local!dvars,
         LocalP!dvars, Local!server, LocalP!server, Local!env, LocalP!env
<1>2. Local!Parse(p) => LocalP!Parse(p)
  BY Zenon DEF Local!Parse, LocalP!Parse, Local!fsvars, LocalP!fsvars, Local!Throws, LocalP!Throws,
         Local!Opened, LocalP!Opened, Local!CanOpen, LocalP!CanOpen, Local!RowsFor,
         LocalP!RowsFor, Local!HasRows, LocalP!HasRows, Local!Minutes, LocalP!Minutes,
         Local!dvars, LocalP!dvars, Local!server, LocalP!server, Local!env, LocalP!env
<1>3. Local!AcquireFile(p) => LocalP!AcquireFile(p)
  BY Zenon DEF Local!AcquireFile, LocalP!AcquireFile, Local!acquire, LocalP!acquire,
         Local!MkdirSucceeds, LocalP!MkdirSucceeds, Local!Current, LocalP!Current, Local!Minutes,
         LocalP!Minutes, Local!dvars, LocalP!dvars, Local!server, LocalP!server, Local!env,
         LocalP!env
<1>4. Local!WriteFile(p) => LocalP!WriteFile(p)
  BY SameOperators, Zenon DEF Local!WriteFile, LocalP!WriteFile, Local!Current, LocalP!Current,
         Local!Minutes, LocalP!Minutes, Local!dvars, LocalP!dvars, Local!server, LocalP!server,
         Local!env, LocalP!env
<1>5. Local!OpenFails(p) => LocalP!OpenFails(p)
  BY Zenon DEF Local!OpenFails, LocalP!OpenFails, Local!fsvars, LocalP!fsvars, Local!Failing,
         LocalP!Failing, Local!dvars, LocalP!dvars, Local!server, LocalP!server, Local!env,
         LocalP!env
<1>6. Local!ReleaseFile(p) => LocalP!ReleaseFile(p)
  BY Zenon DEF Local!ReleaseFile, LocalP!ReleaseFile, Local!release, LocalP!release, Local!Current,
         LocalP!Current, Local!Minutes, LocalP!Minutes, Local!dvars, LocalP!dvars, Local!server,
         LocalP!server, Local!env, LocalP!env
<1>7. Local!RemoveFile(p) => LocalP!RemoveFile(p)
  BY Zenon DEF Local!RemoveFile, LocalP!RemoveFile, Local!Failing, LocalP!Failing, Local!dvars,
         LocalP!dvars, Local!server, LocalP!server, Local!env, LocalP!env
<1>8. Local!ParserExit(p) => LocalP!ParserExit(p)
  BY Zenon DEF Local!ParserExit, LocalP!ParserExit, Local!fsvars, LocalP!fsvars, Local!Stops,
         LocalP!Stops, Local!dvars, LocalP!dvars, Local!server, LocalP!server, Local!env,
         LocalP!env
<1> QED
  BY <1>1, <1>2, <1>3, <1>4, <1>5, <1>6, <1>7, <1>8 DEF Local!ParserStep, LocalP!ParserStep

LEMMA SameDb == Local!DbStep => LocalP!DbStep
  BY Zenon DEF Local!DbStep, LocalP!DbStep, Local!Connect, LocalP!Connect, Local!PickFile,
         LocalP!PickFile, Local!DbAcquire, Local!DbOpenFails, LocalP!DbAcquire, LocalP!DbOpenFails,
         Local!Entries, LocalP!Entries, Local!acquire, LocalP!acquire, Local!MkdirSucceeds,
         LocalP!MkdirSucceeds, Local!ExecLine, LocalP!ExecLine, Local!ExecFails, LocalP!ExecFails,
         Local!Accepts, LocalP!Accepts, Local!Apply, LocalP!Apply, Local!TableOf, LocalP!TableOf,
         Local!Failing, LocalP!Failing, Local!RejectFile, LocalP!RejectFile, Local!MoveToError,
         LocalP!MoveToError, Local!FinishFile, LocalP!FinishFile, Local!AtEnd, LocalP!AtEnd,
         Local!DbRelease, LocalP!DbRelease, Local!release, LocalP!release, Local!EndScan,
         LocalP!EndScan, Local!DbExit, LocalP!DbExit, Local!Minutes, LocalP!Minutes, Local!pvars,
         LocalP!pvars, Local!dvars, LocalP!dvars, Local!fsvars, LocalP!fsvars, Local!server,
         LocalP!server, Local!env, LocalP!env

LEMMA SameStep == [Local!Next]_(Local!vars) => [LocalP!Next]_(LocalP!vars)
<1>1. Local!Next => LocalP!Next
  BY SameDeliver, SameFaults, SameParsers, SameDb, SameOperators, Zenon DEF Local!Next, LocalP!Next
<1>2. Local!vars = LocalP!vars
  BY Zenon DEF Local!vars, LocalP!vars, Local!fsvars, LocalP!fsvars, Local!pvars, LocalP!pvars,
         Local!dvars, LocalP!dvars, Local!server, LocalP!server, Local!env, LocalP!env
<1>3. UNCHANGED Local!vars => UNCHANGED LocalP!vars
  BY Zenon DEF Local!vars, LocalP!vars, Local!fsvars, LocalP!fsvars, Local!pvars, LocalP!pvars,
         Local!dvars, LocalP!dvars, Local!server, LocalP!server, Local!env, LocalP!env
<1> QED
  BY <1>1, <1>3

\* A step of Fetch that moves no csv file changes nothing of what Spool works with.
LEMMA ImporterLocalStep == ImporterNext => [Local!Next]_(Local!vars)
<1> SUFFICES ASSUME ImporterNext PROVE [Local!Next]_(Local!vars)
  OBVIOUS
<1>k. ASSUME UNCHANGED <<localOnly, unpacked, interrupted>> PROVE UNCHANGED Local!vars
  BY <1>k DEF localOnly, Local!vars, Local!fsvars, Local!pvars, Local!dvars, Local!server, Local!env
<1>1. ASSUME NEW t \in Tar, Arrive(t), UNCHANGED localOnly PROVE UNCHANGED Local!vars
  BY <1>k, <1>1 DEF Arrive, uvars
<1>2. CASE SigInt \/ StartAgain
  BY <1>2 DEF SigInt, StartAgain, Local!Next
<1>3. CASE Local!ConnectionLost \/ DbRuns
  BY <1>3 DEF DbRuns, Local!Next
<1>4. ASSUME NEW i \in DOMAIN cmds, CrayRuns(i) PROVE UNCHANGED Local!vars
  BY <1>k, <1>4 DEF CrayRuns, CrayStep, ListOut, TarUp, MvArch, CatOut, RmOut, CmdFails, OnCray,
         uvars
<1>5. CASE ChildRuns
  BY <1>k, <1>5 DEF ChildRuns, ChildStep, SendCreate, CreateEnds, NoAnswer, Scp, Rename,
         RenameFails, DeleteRemote, uvars
<1>6. CASE MainRuns
  BY <1>k, <1>6 DEF MainRuns, MainStep, MoveCompletedArchives, ListObservers, NextObserver,
         PassEnds, CountFiles, LeaveObserver, ForkCreate, handle_sigchld, Wait, CreateReturned,
         DownloadReturned, LeaveLoop, SignalUnzip, uvars
<1>7. CASE UnzipRuns
  <2>1. CASE UnzipAlone /\ UnzipFrame /\ UNCHANGED localOnly
    BY <1>k, <2>1 DEF UnzipAlone, UnzipFrame, UnzipStart, Tidy, TidyEnds, Scan, UnzipExit, Pick,
           ScanEnds, Extract, MoveEnds, Remove
  <2>2. ASSUME NEW c \in Csv, HandOver(c) PROVE Local!Next
    BY <2>2 DEF HandOver, Local!Next
  <2> QED
    BY <1>7, <2>1, <2>2 DEF UnzipRuns
<1>8. CASE \E p \in Local!Parsers : ParserRuns(p)
  BY <1>8 DEF ParserRuns, Local!Next
<1> QED
  BY <1>1, <1>2, <1>3, <1>4, <1>5, <1>6, <1>7, <1>8 DEF ImporterNext

LEMMA ImporterLocalNext == [ImporterNext]_ivars => [Local!Next]_(Local!vars)
<1>1. UNCHANGED ivars => UNCHANGED Local!vars
  BY DEF ivars, vars, uvars, localOnly, Local!vars, Local!fsvars, Local!pvars, Local!dvars,
         Local!server, Local!env
<1> QED
  BY <1>1, ImporterLocalStep

LEMMA ImporterLocalInit == ImporterInit => Local!Init
  BY DEF ImporterInit

\* Nor do Main, its children and unzip.sh do anything to the parsers and the database process
\* that Spool does not allow for.
THEOREM ImporterImports == ImporterSpec => Local!Spec
<1>1. [ImporterNext]_ivars => [Local!Next]_(Local!vars)
  BY ImporterLocalNext
<1> QED
  BY <1>1, ImporterLocalInit, PTL DEF ImporterSpec, Local!Spec

LEMMA LocalSpec == Local!Spec => LocalP!Spec
  BY SameInit, SameStep, PTL DEF Local!Spec, LocalP!Spec

\* What Spool asks of its constants.
SpoolConstants ==
    /\ ParserCount \in Nat \ {0}
    /\ FilesPerTar \in Nat /\ TarFiles \in Nat
    /\ OneTable \in BOOLEAN
    /\ SecondOf \in [Csv -> Nat]
    /\ MinuteOf \in [Csv -> Nat \ {0}]
    /\ YearOf \in [LocalP!Minutes -> Nat]
    /\ Kind \in [Csv -> LocalP!Kinds]
    /\ Descriptors \in Nat /\ MaxDeliveries \in Nat /\ MaxFaults \in Nat
    /\ LocalFaults \subseteq LocalP!FaultKinds

LEMMA SpoolConstantsHold == SpoolConstants
<1>1. LocalP!Minutes = Local!Minutes
  BY SameOperators
<1>2. LocalP!Kinds = Local!Kinds /\ LocalP!FaultKinds = Local!FaultKinds
  BY DEF LocalP!Kinds, Local!Kinds, LocalP!FaultKinds, Local!FaultKinds
<1>3. TarFiles \in Nat /\ MaxFaults \in Nat
  BY FetchAssumption, UnzipAssumption
<1>4. YearOf \in [LocalP!Minutes -> Nat] /\ Kind \in [Csv -> LocalP!Kinds] /\ LocalFaults \subseteq LocalP!FaultKinds
  BY <1>1, <1>2, ImporterAssumption
<1> QED
  BY <1>3, <1>4, ImporterAssumption DEF SpoolConstants

\* Two processes of the whole program never work on one sql file at a time.
THEOREM ImporterMutualExclusion == ImporterSpec => []Local!MutualExclusion
<1>1. LocalP!Spec => []LocalP!MutualExclusion
  BY LocalP!SpoolMutualExclusion, SpoolConstantsHold
  DEF LocalP!SpoolMutualExclusion, LocalP!SpoolAssumption, SpoolConstants
<1>2. LocalP!MutualExclusion => Local!MutualExclusion
  BY Zenon DEF LocalP!MutualExclusion, Local!MutualExclusion, LocalP!ParserHolds,
         Local!ParserHolds, LocalP!DbHolds, Local!DbHolds, LocalP!Current, Local!Current,
         LocalP!Minutes, Local!Minutes, LocalP!Parsers, Local!Parsers
<1> QED
  BY <1>1, <1>2, ImporterImports, LocalSpec, PTL

\* The rows that Spool keeps.
LEMMA SameStored ==
    /\ Local!Stored = LocalP!Stored /\ Local!Stored' = LocalP!Stored'
    /\ Local!Yield = LocalP!Yield
  BY Zenon DEF Local!Stored, LocalP!Stored, Local!InError, LocalP!InError, Local!RecsOf,
         LocalP!RecsOf, Local!Rec, LocalP!Rec, Local!Parts, LocalP!Parts, Local!Minutes,
         LocalP!Minutes, Local!Yield, LocalP!Yield

-----------------------------------------------------------------------------
(* The faults of both halves. *)

\* How often the program was stopped by SIGINT, or started again.
Stoppages == Times("sigint") + Times("restart")

\* SIGINT and a further start count in both halves, and OnlyStopped says that nothing else did.
Tallied ==
    /\ localFaults \in Nat
    /\ Stoppages <= Cardinality(faults) /\ Stoppages <= localFaults

LEMMA TalliedInit == ImporterInit => Tallied
<1> SUFFICES ASSUME ImporterInit PROVE Tallied
  OBVIOUS
<1>1. Init /\ faults = {} /\ localFaults = 0
  BY DEF ImporterInit, Init, UnzipInit, Local!Init
<1>2. Times("sigint") = 0 /\ Times("restart") = 0
  BY <1>1, CountedInit DEF FaultKinds
<1>3. Cardinality(faults) = 0
  BY <1>1, FS_EmptySet
<1> QED
  BY <1>1, <1>2, <1>3 DEF Tallied, Stoppages

\* A fault is one more of all the faults.
LEMMA FaultAdded ==
    ASSUME Counted, NEW kind, Failing(kind)
    PROVE  Cardinality(faults') = Cardinality(faults) + 1
<1> DEFINE f == <<kind, Times(kind) + 1>>
<1>1. faults' = faults \cup {f} /\ IsFiniteSet(faults)
  BY DEF Failing, Counted
<1>2. f \notin faults
  <2>1. kind \in FaultKinds /\ Times(kind) \in Nat /\ Times(kind)' = Times(kind) + 1
    BY FaultCounts DEF Counted
  <2>2. faults' = faults => Times(kind)' = Times(kind)
    BY <2>1, CountedSame
  <2> QED
    BY <1>1, <2>1, <2>2
<1> QED
  BY <1>1, <1>2, FS_AddElement

\* SIGINT and the start of the program are not among the faults of the other steps.
LEMMA OtherFaults ==
    ASSUME \/ \E t \in Tar : Arrive(t)
           \/ \E i \in DOMAIN cmds : CrayStep(i)
           \/ ChildStep \/ MainStep \/ UnzipStep
    PROVE  UNCHANGED faults \/ \E kind \in Faults \ {"sigint", "restart"} : Failing(kind)
<1> SUFFICES ASSUME faults' # faults PROVE \E kind \in Faults \ {"sigint", "restart"} : Failing(kind)
  OBVIOUS
<1>1. ~ \E t \in Tar : Arrive(t)
  BY DEF Arrive
<1>2. ASSUME NEW i \in DOMAIN cmds, CrayStep(i)
      PROVE  \E kind \in Faults \ {"sigint", "restart"} : Failing(kind)
  BY <1>2 DEF CrayStep, ListOut, TarUp, MvArch, CatOut, RmOut, CmdFails, Failing
<1>3. CASE ChildStep
  BY <1>3 DEF ChildStep, SendCreate, CreateEnds, NoAnswer, Scp, Rename, RenameFails, DeleteRemote,
              ChildEnds, Failing
<1>4. CASE MainStep
  BY <1>4 DEF MainStep, MoveCompletedArchives, ListObservers, NextObserver, PassEnds, CountFiles,
              LeaveObserver, ForkCreate, handle_sigchld, Wait, CreateReturned, DownloadReturned,
              LeaveLoop, SignalUnzip, Failing
<1>5. CASE UnzipStep
  BY <1>5 DEF UnzipStep, UnzipAlone, UnzipStart, Tidy, TidyEnds, Scan, UnzipExit, Pick, ScanEnds,
              Extract, MoveFile, MoveEnds, Remove, Failing
<1> QED
  BY <1>1, <1>2, <1>3, <1>4, <1>5

\* Spool counts a fault at a time.
LEMMA LocalFaultsGrow ==
    ASSUME [Local!Next]_(Local!vars)
    PROVE  localFaults' = localFaults \/ localFaults' = localFaults + 1
<1>1. ASSUME NEW p \in Local!Parsers, Local!ParserStep(p)
      PROVE  localFaults' = localFaults \/ localFaults' = localFaults + 1
  BY <1>1 DEF Local!ParserStep, Local!ListFiles, Local!Parse, Local!AcquireFile, Local!WriteFile,
         Local!OpenFails, Local!ReleaseFile, Local!RemoveFile, Local!ParserExit, Local!Failing,
         Local!env
<1>2. CASE Local!DbStep
  BY <1>2 DEF Local!DbStep, Local!Connect, Local!PickFile, Local!DbAcquire, Local!DbOpenFails,
         Local!ExecLine, Local!ExecFails, Local!RejectFile, Local!FinishFile, Local!DbRelease,
         Local!EndScan, Local!DbExit, Local!Failing, Local!env
<1>3. CASE Local!Interrupt \/ Local!ConnectionLost \/ Local!Restart
           \/ (\E c \in Csv : Local!Deliver(c)) \/ UNCHANGED Local!vars
  BY <1>3 DEF Local!Interrupt, Local!ConnectionLost, Local!Restart, Local!Deliver, Local!Failing,
         Local!vars, Local!env
<1> QED
  BY <1>1, <1>2, <1>3 DEF Local!Next

\* Both halves count SIGINT and a further start; in any other step one of them counts nothing.
LEMMA StopKinds ==
    ASSUME Counted, [ImporterNext]_ivars
    PROVE  \/ /\ SigInt \/ StartAgain
              /\ Stoppages' = Stoppages + 1 /\ Cardinality(faults') = Cardinality(faults) + 1
              /\ localFaults' = localFaults + 1
           \/ /\ Times("restart")' = Times("restart") /\ Stoppages' = Stoppages
              /\ UNCHANGED faults \/ UNCHANGED localFaults
<1>0. /\ "sigint" \in FaultKinds /\ "restart" \in FaultKinds
      /\ Times("sigint") \in Nat /\ Times("restart") \in Nat
  BY DEF Counted, FaultKinds
<1>1. CASE SigInt
  <2>1. Failing("sigint") /\ localFaults' = localFaults + 1
    BY <1>1 DEF SigInt, Interrupt, Local!Interrupt, Local!Failing
  <2>2. Times("sigint")' = Times("sigint") + 1 /\ Times("restart")' = Times("restart")
    BY <1>0, <2>1, FaultCounts
  <2> QED
    BY <1>0, <1>1, <2>1, <2>2, FaultAdded DEF Stoppages
<1>2. CASE StartAgain
  <2>1. Failing("restart") /\ localFaults' = localFaults + 1
    BY <1>2 DEF StartAgain, Restart, Local!Restart
  <2>2. Times("restart")' = Times("restart") + 1 /\ Times("sigint")' = Times("sigint")
    BY <1>0, <2>1, FaultCounts
  <2> QED
    BY <1>0, <1>2, <2>1, <2>2, FaultAdded DEF Stoppages
<1>3. ASSUME UNCHANGED faults \/ \E kind \in Faults \ {"sigint", "restart"} : Failing(kind)
      PROVE  Times("restart")' = Times("restart") /\ Stoppages' = Stoppages
  <2>1. CASE UNCHANGED faults
    BY <1>0, <2>1, CountedSame DEF Stoppages
  <2>2. ASSUME NEW kind \in Faults \ {"sigint", "restart"}, Failing(kind)
        PROVE  Times("restart")' = Times("restart") /\ Stoppages' = Stoppages
    BY <1>0, <2>2, FaultCounts DEF Stoppages
  <2> QED
    BY <1>3, <2>1, <2>2
<1>4. CASE (\E t \in Tar : Arrive(t) /\ UNCHANGED localOnly) \/ ChildRuns \/ MainRuns
           \/ \E i \in DOMAIN cmds : CrayRuns(i)
  <2>1. UNCHANGED localFaults
    BY <1>4 DEF ChildRuns, MainRuns, CrayRuns, localOnly
  <2> QED
    BY <1>3, <1>4, <2>1, OtherFaults DEF ChildRuns, MainRuns, CrayRuns
<1>5. CASE UnzipRuns
  <2>1. UnzipStep /\ UNCHANGED localFaults
    BY <1>5 DEF UnzipRuns, HandOver, UnzipStep, localOnly, Local!Deliver
  <2> QED
    BY <1>3, <2>1, OtherFaults
<1>6. CASE UNCHANGED remoteOnly \/ UNCHANGED ivars
  <2>1. UNCHANGED faults
    BY <1>6 DEF remoteOnly, ivars, vars
  <2> QED
    BY <1>3, <2>1
<1> QED
  BY <1>1, <1>2, <1>4, <1>5, <1>6 DEF ImporterNext, ParserRuns, DbRuns

\* Unless a process is killed, the program is started again only after all have come to an end.
LEMMA RestartAfterStop ==
    ASSUME Counted, [ImporterNext]_ivars, Restart, StartAgain => AllStopped
    PROVE  AllStopped
<1>1. /\ "sigint" \in FaultKinds /\ "restart" \in FaultKinds /\ Failing("restart")
      /\ Times("sigint") \in Nat /\ Times("restart") \in Nat
  BY DEF Counted, FaultKinds, Restart
<1>2. Times("restart")' = Times("restart") + 1
  BY <1>1, FaultCounts
<1>3. ~SigInt
  <2>1. SigInt => Failing("sigint")
    BY DEF SigInt, Interrupt
  <2>2. Failing("sigint") => Times("restart")' = Times("restart")
    BY <1>1, FaultCounts
  <2> QED
    BY <1>1, <1>2, <2>1, <2>2
<1> QED
  BY <1>1, <1>2, <1>3, StopKinds

\* OnlyStopped, once it is false, stays so: a fault of another kind is never made good.
LEMMA OnlyStoppedStep ==
    ASSUME Counted, Tallied, [ImporterNext]_ivars
    PROVE  /\ Tallied'
           /\ OnlyStopped' =>
                  /\ OnlyStopped
                  /\ StartAgain => AllStopped
                  /\ \A kind \in FaultKinds \ {"sigint", "restart"} : ~Failing(kind)
                  /\ localFaults' # localFaults => SigInt \/ StartAgain
<1>0. /\ Cardinality(faults) \in Nat /\ localFaults \in Nat /\ Stoppages \in Nat
      /\ Stoppages <= Cardinality(faults) /\ Stoppages <= localFaults
      /\ "sigint" \in FaultKinds /\ "restart" \in FaultKinds
  BY FS_CardinalityType DEF Counted, Tallied, Stoppages, FaultKinds
<1>1. [Next]_vars
  BY ImporterFetchStep DEF ivars
<1>2. [Local!Next]_(Local!vars)
  BY ImporterLocalNext
<1>3. localFaults' = localFaults \/ localFaults' = localFaults + 1
  BY <1>2, LocalFaultsGrow
<1>4. Cardinality(faults') = Cardinality(faults) \/ Cardinality(faults') = Cardinality(faults) + 1
  BY <1>1, FaultOrNot, FaultAdded
<1>5. Tallied'
  BY <1>0, <1>3, <1>4, StopKinds DEF Tallied
<1>6. ASSUME OnlyStopped' PROVE OnlyStopped /\ (localFaults' # localFaults => SigInt \/ StartAgain)
  <2>1. "crash" \notin LocalFaults /\ Cardinality(faults') = Stoppages' /\ localFaults' = Stoppages'
    BY <1>6 DEF OnlyStopped, Stoppages
  <2>2. Cardinality(faults) = Stoppages /\ localFaults = Stoppages
    BY <1>0, <1>3, <1>4, <2>1, StopKinds
  <2>3. localFaults' # localFaults => SigInt \/ StartAgain
    BY <1>0, <2>1, <2>2, StopKinds
  <2> QED
    BY <2>1, <2>2, <2>3 DEF OnlyStopped, Stoppages
<1>7. ASSUME OnlyStopped', NEW kind \in FaultKinds \ {"sigint", "restart"}, Failing(kind) PROVE FALSE
  <2>1. Cardinality(faults') = Stoppages' /\ Cardinality(faults') = Cardinality(faults) + 1
    BY <1>7, FaultAdded DEF OnlyStopped, Stoppages
  <2>2. Stoppages' = Stoppages
    BY <1>0, <1>7, FaultCounts DEF Stoppages
  <2>3. Cardinality(faults) + 1 = Stoppages
    BY <2>1, <2>2
  <2> QED
    BY <1>0, <2>3
<1>8. OnlyStopped' /\ StartAgain => AllStopped
  BY DEF OnlyStopped, StartAgain
<1> QED
  BY <1>5, <1>6, <1>7, <1>8

-----------------------------------------------------------------------------
(* One command at a time. *)

\* While ssh works, and the program is started again only when the last run has ended, the
\* commands run one after the other, and Main's child waits for the one that runs.
Serial ==
    \A i \in DOMAIN cmds :
        \/ cmds[i].at \in {"ok", "failed"}
        \/ cpc = "answer" /\ i = Len(cmds) /\ cmds[i].num = num

\* The command that Main's child waits for has its archive still to move.
Packing == cpc = "ssh" \/ (cpc = "answer" /\ cmds[Len(cmds)].at \in {"head", "tar", "mv"})

\* A packed archive on the Cray goes by a number that this run has given, unless
\* moveCompletedArchives has still to move it, or was stopped by SIGINT and Main with it.
Moved ==
    \A n \in Num : <<"done", n>> \in remote =>
        \/ mpc = "start"
        \/ interrupted /\ mpc \in {"list", "exit", "exited"}
        \/ n <= num /\ (Packing => n < num)

LEMMA SerialStep ==
    ASSUME CrayType, ChildAtWork, Serial, [Next]_vars, ~Failing("reply"), Restart => cpc # "answer"
    PROVE  Serial'
<1> USE DEF Serial
<1>1. ASSUME NEW i \in DOMAIN cmds, CrayStep(i) PROVE Serial'
  <2>1. UNCHANGED <<cpc, num>>
    BY <1>1 DEF CrayStep, ListOut, TarUp, MvArch, CatOut, RmOut, CmdFails, OnCray, mvars, child
  <2> QED
    BY <1>1, <2>1, CrayMoves
<1>2. CASE SendCreate
  <2> DEFINE new == [num |-> num, observer |-> observer, at |-> "head"]
  <2>1. cmds' = Append(cmds, new) /\ cpc = "ssh" /\ cpc' = "answer" /\ num' = num
    BY <1>2 DEF SendCreate, mvars
  <2>2. /\ DOMAIN cmds' = 1 .. Len(cmds) + 1 /\ Len(cmds') = Len(cmds) + 1
        /\ \A i \in DOMAIN cmds : cmds'[i] = cmds[i]
        /\ cmds'[Len(cmds) + 1] = new /\ Len(cmds) \in Nat /\ DOMAIN cmds = 1 .. Len(cmds)
    BY <2>1 DEF CrayType
  <2>3. \A i \in DOMAIN cmds : cmds[i].at \in {"ok", "failed"}
    BY <2>1
  <2>4. \A i \in DOMAIN cmds' : i \in DOMAIN cmds \/ i = Len(cmds) + 1
    BY <2>2
  <2> QED
    BY <2>1, <2>2, <2>3, <2>4
<1>3. CASE CreateEnds
  <2>1. cpc = "answer" /\ cmds[Len(cmds)].at \in {"ok", "failed"} /\ cmds' = cmds
    BY <1>3 DEF CreateEnds, cray
  <2> QED
    BY <2>1
<1>4. CASE ChildStep /\ ~SendCreate /\ ~CreateEnds
  <2>1. cpc # "answer" /\ cmds' = cmds
    BY <1>4 DEF ChildStep, NoAnswer, Scp, Rename, RenameFails, DeleteRemote, cray
  <2> QED
    BY <2>1
<1>5. CASE MainStep
  <2>1. cmds' = cmds /\ (cpc = "answer" => cpc' = cpc /\ num' = num)
    BY <1>5 DEF MainStep, MoveCompletedArchives, ListObservers, NextObserver, PassEnds, CountFiles,
           LeaveObserver, ForkCreate, handle_sigchld, Wait, CreateReturned, DownloadReturned,
           LeaveLoop, SignalUnzip, cray, child, mvars, ChildAtWork, Creating, Downloading
  <2> QED
    BY <2>1
<1>6. CASE Restart
  BY <1>6 DEF Restart, cray
<1>7. CASE (\E t \in Tar : Arrive(t)) \/ Interrupt \/ UnzipStep \/ UNCHANGED vars
  BY <1>7 DEF Arrive, Interrupt, UnzipStep, UnzipFrame, vars, cray, mvars, child
<1> QED
  BY <1>1, <1>2, <1>3, <1>4, <1>5, <1>6, <1>7 DEF Next

LEMMA MovedStep ==
    ASSUME CrayType, MainType, ChildAtWork, Serial, Moved, [Next]_vars, ~Failing("ssh")
    PROVE  Moved'
<1> USE DEF Moved, Packing
<1>0. num \in Nat /\ Num \subseteq Nat
  BY Constants DEF MainType
<1>1. ASSUME NEW i \in DOMAIN cmds, CrayStep(i) PROVE Moved'
  <2>1. UNCHANGED <<cpc, num, mpc, interrupted>>
    BY <1>1 DEF CrayStep, ListOut, TarUp, MvArch, CatOut, RmOut, CmdFails, OnCray, mvars, child
  <2>2. cmds[i].at \notin {"ok", "failed"}
    BY <1>1, CrayMoves
  <2>3. cpc = "answer" /\ i = Len(cmds) /\ cmds[i].num = num /\ Len(cmds') = Len(cmds)
    BY <1>1, <2>2, CrayMoves DEF Serial
  <2>4. Packing' => Packing /\ ~MvArch(i)
    <3>1. cmds'[i].at \in {"head", "tar", "mv"} => cmds[i].at \in {"head", "tar"}
      BY <1>1, CrayMoves
    <3>2. MvArch(i) => cmds[i].at = "mv"
      BY DEF MvArch
    <3> QED
      BY <2>1, <2>3, <3>1, <3>2
  <2>5. ASSUME NEW n \in Num, <<"done", n>> \in remote'
        PROVE  <<"done", n>> \in remote \/ (MvArch(i) /\ n = num)
    BY <1>1, <2>3, <2>5 DEF CrayStep, ListOut, TarUp, MvArch, CatOut, RmOut, CmdFails, Put
  <2> QED
    BY <1>0, <2>1, <2>4, <2>5
<1>2. CASE ChildStep
  <2>1. UNCHANGED <<num, mpc, interrupted>> /\ remote' \subseteq remote
    BY <1>2 DEF ChildStep, SendCreate, CreateEnds, NoAnswer, Scp, Rename, RenameFails,
           DeleteRemote, cray, mvars
  <2>2. Packing' => Packing
    <3>1. CASE SendCreate
      BY <3>1 DEF SendCreate
    <3>2. CASE ~SendCreate
      BY <1>2, <3>2 DEF ChildStep, CreateEnds, NoAnswer, Scp, Rename, RenameFails, DeleteRemote,
             ChildEnds, cray
    <3> QED
      BY <3>1, <3>2
  <2> QED
    BY <2>1, <2>2
<1>3. CASE MoveCompletedArchives
  <2>1. CASE \A f \in remote' : f[1] # "done"
    BY <2>1
  <2>2. CASE remote' = remote /\ interrupted
    BY <1>3, <2>2 DEF MoveCompletedArchives
  <2> QED
    BY <1>3, <2>1, <2>2 DEF MoveCompletedArchives
<1>4. CASE ForkCreate
  <2>1. cpc = "none" /\ mpc = "throttle" /\ num' = num + 1 /\ remote' = remote
    BY <1>4 DEF ForkCreate, ChildAtWork, Creating, Downloading, cray
  <2> QED
    BY <1>0, <2>1
<1>5. CASE MainStep /\ ~MoveCompletedArchives /\ ~ForkCreate
  <2>1. /\ UNCHANGED <<num, remote, cmds>> /\ mpc # "start"
        /\ cpc' = cpc \/ cpc' \in {"scp", "none", "reaped"}
    BY <1>5 DEF MainStep, ListObservers, NextObserver, PassEnds, CountFiles, LeaveObserver,
           handle_sigchld, Wait, StopsWaiting, CreateReturned, DownloadReturned, LeaveLoop,
           SignalUnzip, cray, child, mvars
  <2>2. interrupted /\ mpc \in {"list", "exit", "exited"}
           => interrupted' /\ mpc' \in {"list", "exit", "exited"}
    BY <1>5 DEF MainStep, ListObservers, NextObserver, PassEnds, CountFiles, LeaveObserver,
           handle_sigchld, Wait, StopsWaiting, CreateReturned, DownloadReturned, LeaveLoop,
           SignalUnzip, mvars
  <2> QED
    BY <2>1, <2>2
<1>6. CASE Restart
  BY <1>6 DEF Restart
<1>7. CASE (\E t \in Tar : Arrive(t)) \/ Interrupt \/ UnzipStep \/ UNCHANGED vars
  <2>1. UNCHANGED <<num, remote, cmds, cpc, mpc>> /\ (interrupted => interrupted')
    BY <1>7 DEF Arrive, Interrupt, UnzipStep, UnzipFrame, vars, cray, mvars, child
  <2> QED
    BY <2>1
<1> QED
  BY <1>1, <1>2, <1>3, <1>4, <1>5, <1>6, <1>7 DEF Next, MainStep

\* So no two archives are mixed up but in archive/, where the names of the last run may be in
\* the way.
LEMMA SerialUnmixed ==
    ASSUME CrayType, ChildAtWork, Serial, Moved, [Next]_vars, ~Failing("ssh"),
           Rename => <<"completed", num>> \notin archive
    PROVE  Unmixed
<1>1. ASSUME NEW i \in DOMAIN cmds, CrayStep(i)
      PROVE  /\ \A j \in DOMAIN cmds \ {i} :
                    cmds[j].at \in {"ok", "failed"} \/ cmds[j].num # cmds[i].num
             /\ MvArch(i) => <<"done", cmds[i].num>> \notin remote
             /\ MvArch(i) /\ Fetched => cmds[i].num # num
  <2>1. cmds[i].at \notin {"ok", "failed"} /\ cmds[i].num \in Num
    BY <1>1, CrayMoves
  <2>2. cpc = "answer" /\ i = Len(cmds) /\ cmds[i].num = num
    BY <1>1, <2>1 DEF Serial
  <2>3. \A j \in DOMAIN cmds \ {i} : cmds[j].at \in {"ok", "failed"}
    BY <2>2 DEF Serial
  <2>4. ASSUME MvArch(i), <<"done", num>> \in remote PROVE FALSE
    <3>1. Packing
      BY <2>2, <2>4 DEF MvArch, Packing
    <3>2. mpc \in {"create", "waitCreate"}
      BY <2>2 DEF ChildAtWork, Creating, Downloading
    <3>3. num \in Nat
      BY <2>1, <2>2, Constants
    <3> QED
      BY <2>1, <2>2, <2>4, <3>1, <3>2, <3>3 DEF Moved
  <2> QED
    BY <2>2, <2>3, <2>4 DEF Fetched
<1> QED
  BY <1>1 DEF Unmixed

-----------------------------------------------------------------------------
(* From end to end. *)

\* What the handover from end to end rests on.
EndInv ==
    /\ TypeOK /\ Counted /\ ChildAtWork /\ Files /\ Visited
    /\ Serial /\ Moved
    /\ ~overwritten => Passes

\* The faults under which it holds: ssh, scp, tar and mv work, no process is killed, and
\* descriptors do not run out.
Reliable ==
    /\ Faults \cap {"ssh", "reply", "scp", "tar", "mv"} = {}
    /\ LocalFaults \cap {"crash", "emfile"} = {}

LEMMA ReliableSteps ==
    ASSUME Reliable
    PROVE  /\ \A kind \in {"ssh", "reply", "scp", "tar", "mv"} : ~Failing(kind)
           /\ "emfile" \notin LocalFaults
           /\ StartAgain => AllStopped
  BY DEF Reliable, Failing, StartAgain

\* Whoever renames a download without overwriting a file finds none by its name.
LEMMA OverwrittenStep ==
    ASSUME [ImporterNext]_ivars, ~overwritten'
    PROVE  ~overwritten /\ (Rename => <<"completed", num>> \notin archive)
<1>1. CASE ChildRuns
  BY <1>1 DEF ChildRuns, Rename
<1>2. CASE ~ChildRuns
  <2>1. UNCHANGED overwritten
    BY <1>2 DEF ImporterNext, ivars, SigInt, StartAgain, CrayRuns, MainRuns, UnzipRuns, HandOver,
           ParserRuns, DbRuns, remoteOnly
  <2>2. CASE MainRuns
    BY <2>2 DEF MainRuns, MainStep, MoveCompletedArchives, ListObservers, NextObserver, PassEnds,
           CountFiles, LeaveObserver, ForkCreate, handle_sigchld, Wait, CreateReturned,
           DownloadReturned, LeaveLoop, SignalUnzip, child, Rename
  <2>3. CASE StartAgain
    BY <2>3 DEF StartAgain, Restart, Rename
  <2>4. ASSUME NEW i \in DOMAIN cmds, CrayRuns(i) PROVE UNCHANGED cpc
    BY <2>4 DEF CrayRuns, CrayStep, ListOut, TarUp, MvArch, CatOut, RmOut, CmdFails, OnCray, child
  <2>5. CASE \E t \in Tar : Arrive(t)
    BY <2>1, <2>5 DEF Arrive, child, Rename
  <2>6. CASE SigInt \/ UNCHANGED ivars
    BY <2>6 DEF SigInt, Interrupt, ivars, vars, child, Rename
  <2>7. CASE UnzipRuns
    BY <2>7 DEF UnzipRuns, HandOver, UnzipFrame, child, Rename
  <2>8. CASE UNCHANGED remoteOnly
    BY <2>8 DEF remoteOnly, child, Rename
  <2>9. Rename => cpc' # cpc
    BY DEF Rename
  <2> QED
    BY <1>2, <2>1, <2>2, <2>3, <2>4, <2>5, <2>6, <2>7, <2>8, <2>9
    DEF ImporterNext, ParserRuns, DbRuns
<1> QED
  BY <1>1, <1>2

LEMMA EndStep ==
    ASSUME Reliable, EndInv, [ImporterNext]_ivars
    PROVE  EndInv' /\ (~overwritten' => Passes /\ Held \subseteq Held')
<1>1. [Next]_vars
  BY ImporterFetchStep DEF ivars
<1>2. ~Failing("ssh") /\ ~Failing("reply") /\ ~Failing("scp") /\ ~Failing("tar") /\ ~Failing("mv")
  BY ReliableSteps
<1>3. Shape
  BY TypeParts DEF EndInv, Shape
<1>4. Serial'
  <2>1. Restart => cpc # "answer"
    BY ReliableSteps, RestartAfterStop DEF EndInv, AllStopped, ChildAtWork, Creating, Downloading
  <2> QED
    BY <1>1, <1>2, <1>3, <2>1, SerialStep DEF EndInv, Shape
<1>5. Moved'
  BY <1>1, <1>2, <1>3, MovedStep DEF EndInv, Shape
<1>6. TypeOK' /\ Counted' /\ ChildAtWork' /\ Files' /\ Visited'
  BY <1>1, <1>3, TypeStep, FilesStep, VisitedStep DEF EndInv, Shape
<1>7. ASSUME ~overwritten' PROVE Passes /\ Passes' /\ Held \subseteq Held'
  <2>1. Passes /\ (Rename => <<"completed", num>> \notin archive)
    BY <1>7, OverwrittenStep DEF EndInv
  <2>2. Unmixed
    BY <1>1, <1>2, <1>3, <2>1, SerialUnmixed DEF EndInv, Shape
  <2> QED
    BY <1>1, <1>2, <1>3, <2>1, <2>2, HeldKept, PassesStep
<1> QED
  BY <1>4, <1>5, <1>6, <1>7 DEF EndInv

LEMMA EndInit == ImporterInit => EndInv
<1> SUFFICES ASSUME ImporterInit PROVE EndInv
  OBVIOUS
<1>1. Init /\ ~overwritten
  BY DEF ImporterInit
<1>2. TypeOK /\ Counted /\ ChildAtWork /\ Files /\ Visited
  BY <1>1, TypeInit, CountedInit, NumbersInit
<1>3. Serial /\ Moved
  BY <1>1 DEF Init, Serial, Moved
<1>4. Passes
  BY <1>1 DEF Init, UnzipInit, Passes, CommandPasses, DownloadPasses, UnzipPasses
<1> QED
  BY <1>2, <1>3, <1>4 DEF EndInv

\* What Spool keeps, in the words of Importer.
LocalSafe == \A c \in Csv : unpacked[c] > 0 => c \in csv \/ Local!Yield[c] \subseteq Local!Stored

LEMMA LocalSafeHolds ==
    (LocalP!Custody!Safe => LocalSafe) /\ (LocalP!Custody!Safe' => LocalSafe')
  BY SameStored DEF LocalP!Custody!Safe, LocalSafe

LEMMA LocalKeeps ==
    ASSUME [LocalP!Custody!Next]_(LocalP!Custody!vars)
    PROVE  /\ Local!Stored \subseteq Local!Stored'
           /\ \A c \in csv : c \in csv' \/ Local!Yield[c] \subseteq Local!Stored'
<1>1. Local!Stored = LocalP!Stored /\ Local!Stored' = LocalP!Stored' /\ Local!Yield = LocalP!Yield
  BY SameStored
<1>2. CASE LocalP!Custody!Next
  BY <1>1, <1>2 DEF LocalP!Custody!Next, LocalP!Custody!Keep, LocalP!Custody!Arrive,
         LocalP!Custody!Discard
<1>3. CASE UNCHANGED LocalP!Custody!vars
  BY <1>1, <1>3 DEF LocalP!Custody!vars
<1> QED
  BY <1>2, <1>3

LEMMA HeldType == ASSUME CrayType, ArchiveType PROVE Held \subseteq Csv
<1>1. TarsIn({f \in remote : f[1] = "done"}, packed) \subseteq Tar /\ aside \subseteq Tar
  BY DEF CrayType, TarsIn
<1>2. TarsIn(archive \cap Completed, content) \subseteq Tar
  BY DEF ArchiveType, TarsIn
<1> QED
  BY <1>1, <1>2, FilesOfType DEF Held

\* The rows of a file that Fetch holds are not lost, in whichever half it is.
LEMMA HeldNotLost ==
    ASSUME LocalSafe, NEW c \in Csv, c \in Held
    PROVE  Local!Yield[c] \subseteq NotLost
  BY DEF LocalSafe, NotLost

LEMMA NotLostGrows ==
    ASSUME LocalSafe', Held \subseteq Held', Held \subseteq Csv,
           [LocalP!Custody!Next]_(LocalP!Custody!vars)
    PROVE  NotLost \subseteq NotLost'
<1>1. Local!Stored' \subseteq NotLost'
  BY DEF NotLost
<1>2. \A c \in csv' : Local!Yield[c] \subseteq NotLost'
  BY DEF NotLost
<1>3. \A c \in csv : Local!Yield[c] \subseteq NotLost'
  BY <1>1, <1>2, LocalKeeps
<1>4. ASSUME NEW c \in Held PROVE Local!Yield[c] \subseteq NotLost'
  <2>1. c \in Csv /\ c \in Held'
    BY <1>4
  <2>2. CASE unpacked'[c] > 0
    BY <1>1, <1>2, <2>1, <2>2 DEF LocalSafe
  <2>3. CASE ~(unpacked'[c] > 0)
    BY <2>1, <2>3 DEF NotLost
  <2> QED
    BY <2>2, <2>3
<1>5. Local!Stored \subseteq NotLost'
  BY <1>1, LocalKeeps
<1> QED
  BY <1>3, <1>4, <1>5 DEF NotLost

\* Each step of the program changes one half of it only, but for the csv files handed over.
LEMMA OneHalf ==
    ASSUME [ImporterNext]_ivars
    PROVE  UNCHANGED <<results, listed>> \/ UNCHANGED localOnly
<1>1. CASE (\E t \in Tar : Arrive(t) /\ UNCHANGED localOnly) \/ ChildRuns \/ MainRuns
  BY <1>1 DEF ChildRuns, MainRuns
<1>2. ASSUME NEW i \in DOMAIN cmds, CrayRuns(i) PROVE UNCHANGED localOnly
  BY <1>2 DEF CrayRuns
<1>3. CASE SigInt \/ StartAgain \/ UNCHANGED ivars
  BY <1>3 DEF SigInt, Interrupt, StartAgain, Restart, ivars, vars, cray
<1>4. CASE UnzipRuns
  BY <1>4 DEF UnzipRuns, HandOver, UnzipFrame, cray
<1>5. CASE UNCHANGED remoteOnly
  BY <1>5 DEF remoteOnly, cray
<1> QED
  BY <1>1, <1>2, <1>3, <1>4, <1>5 DEF ImporterNext, ParserRuns, DbRuns

LEMMA EndToEndStep ==
    ASSUME Reliable, EndInv, LocalSafe, LocalSafe', [ImporterNext]_ivars,
           [LocalP!Custody!Next]_(LocalP!Custody!vars)
    PROVE  [EndToEnd!Next \/ overwritten']_(EndToEnd!vars)
<1> SUFFICES ASSUME ~overwritten' PROVE EndToEnd!Next
  OBVIOUS
<1>1. Passes /\ Held \subseteq Held'
  BY EndStep
<1>2. CrayType /\ Files /\ CommandPasses /\ ArchiveType
  BY <1>1, TypeParts DEF EndInv, Passes
<1>3. [Next]_vars
  BY ImporterFetchStep DEF ivars
<1>4. Held \subseteq Csv
  BY <1>2, HeldType
<1>5. CASE UNCHANGED <<results, listed>>
  <2>1. NotLost \subseteq NotLost'
    BY <1>1, <1>4, NotLostGrows
  <2> QED
    BY <1>5, <2>1 DEF EndToEnd!Next, EndToEnd!Keep
<1>6. ASSUME ~UNCHANGED <<results, listed>>, UNCHANGED <<unpacked, Held>> PROVE UNCHANGED NotLost
  <2>1. UNCHANGED localOnly
    BY <1>6, OneHalf
  <2>2. UNCHANGED Local!Stored
    BY <2>1 DEF localOnly, Local!Stored, Local!InError
  <2> QED
    BY <1>6, <2>1, <2>2 DEF NotLost, localOnly
<1>7. ASSUME NEW t \in Tar, ~UNCHANGED <<results, listed>>,
             results' = results \cup {t}, results' \ listed' = (results \ listed) \cup {t},
             UNCHANGED <<unpacked, Held>>
      PROVE  EndToEnd!Next
  BY <1>6, <1>7 DEF EndToEnd!Next, EndToEnd!Arrive
<1>8. ASSUME NEW gone \in SUBSET Tar, FilesOf(gone) \subseteq Held, ~UNCHANGED <<results, listed>>,
             results' = results, results' \ listed' = (results \ listed) \ gone,
             UNCHANGED <<unpacked, Held>>
      PROVE  EndToEnd!Next
  <2>1. \A t \in gone : Records({t}) \subseteq NotLost
    <3> SUFFICES ASSUME NEW t \in gone, NEW c \in FilesOf({t}) PROVE Local!Yield[c] \subseteq NotLost
      BY DEF Records
    <3>1. c \in Held
      BY <1>8 DEF FilesOf
    <3> QED
      BY <1>4, <3>1, HeldNotLost
  <2>2. EndToEnd!Discard(gone)
    BY <1>6, <1>8, <2>1 DEF EndToEnd!Discard
  <2> QED
    BY <2>2 DEF EndToEnd!Next
<1> QED
  BY <1>2, <1>3, <1>5, <1>7, <1>8, Listing

LEMMA EndToEndInit == ImporterInit /\ LocalP!Custody!Init => EndToEnd!Init
<1> SUFFICES ASSUME ImporterInit, LocalP!Custody!Init PROVE EndToEnd!Init
  OBVIOUS
<1>1. results = {} /\ remote = {} /\ aside = {} /\ archive = {} /\ \A c \in Csv : unpacked[c] = 0
  BY DEF ImporterInit, Init, UnzipInit
<1>2. Held = {}
  BY <1>1 DEF Held, FilesOf, TarsIn
<1>3. Local!Stored = {} /\ csv = {}
  BY SameStored DEF LocalP!Custody!Init
<1> QED
  BY <1>1, <1>2, <1>3 DEF EndToEnd!Init, NotLost

\* From the Cray to the database, through both halves of the program, SIGINT and every further
\* start of it: a tar that is on a .done list has its rows in an archive, in csv/, sql/ or
\* error/ or in the database, until a download of the new run overwrites an archive of the
\* last.  Without the first assumption that is not so: two commands with one number may run at
\* a time, or mv may overwrite an archive on the Cray.
THEOREM ImporterHandsOver ==
    ASSUME Reliable
    PROVE  ImporterSpec => HandsOverEndToEnd
<1>1. ImporterSpec => LocalP!HandsOver
  <2>1. LocalP!Spec => LocalP!HandsOver
    BY LocalP!SpoolHandsOver, SpoolConstantsHold, ReliableSteps
    DEF LocalP!SpoolHandsOver, LocalP!SpoolAssumption, SpoolConstants
  <2> QED
    BY <2>1, ImporterImports, LocalSpec, PTL
<1>2. LocalP!Custody!Spec => []LocalP!Custody!Safe
  <2>1. LocalP!Custody!Init => LocalP!Custody!Safe
    BY DEF LocalP!Custody!Init, LocalP!Custody!Safe
  <2>2. LocalP!Custody!Safe /\ [LocalP!Custody!Next]_(LocalP!Custody!vars) => LocalP!Custody!Safe'
    BY DEF LocalP!Custody!Safe, LocalP!Custody!Next, LocalP!Custody!vars, LocalP!Custody!Keep,
           LocalP!Custody!Arrive, LocalP!Custody!Discard
  <2> QED
    BY <2>1, <2>2, PTL DEF LocalP!Custody!Spec
<1>3. EndInv /\ LocalP!Custody!Safe /\ LocalP!Custody!Safe' /\ [ImporterNext]_ivars
          /\ [LocalP!Custody!Next]_(LocalP!Custody!vars)
         => EndInv' /\ [EndToEnd!Next \/ overwritten']_(EndToEnd!vars)
  <2> SUFFICES ASSUME EndInv, LocalP!Custody!Safe, LocalP!Custody!Safe', [ImporterNext]_ivars,
                      [LocalP!Custody!Next]_(LocalP!Custody!vars)
               PROVE  EndInv' /\ [EndToEnd!Next \/ overwritten']_(EndToEnd!vars)
    OBVIOUS
  <2> QED
    BY EndStep, EndToEndStep, LocalSafeHolds
<1> QED
  BY <1>1, <1>2, <1>3, EndInit, EndToEndInit, PTL
  DEF ImporterSpec, HandsOverEndToEnd, LocalP!HandsOver, LocalP!Custody!Spec

-----------------------------------------------------------------------------
(* Nothing is imported twice. *)

\* As long as the program is only stopped and started again, one command runs at a time, unzip.sh
\* unpacks nothing twice, and so the steps of Spool are undisturbed.
StopInv ==
    /\ TypeOK /\ Counted /\ ChildAtWork /\ Tallied
    /\ OnlyStopped => Serial /\ OnceParts /\ LocalP!StageInv

LEMMA StopInit == ImporterInit => StopInv
<1> SUFFICES ASSUME ImporterInit PROVE StopInv
  OBVIOUS
<1>1. Init /\ LocalP!Init
  BY SameInit DEF ImporterInit
<1>2. LocalP!StageInv
  BY <1>1, LocalP!StageInit, SpoolConstantsHold
  DEF LocalP!StageInit, LocalP!SpoolAssumption, SpoolConstants
<1>3. Serial
  BY <1>1 DEF Init, Serial
<1> QED
  BY <1>1, <1>2, <1>3, TypeInit, CountedInit, TalliedInit, OnceInit DEF StopInv

\* The child waits for the only command that runs.
LEMMA SerialAlone == Serial => Alone
  BY DEF Serial, Alone

LEMMA StopStep ==
    ASSUME OneTable = FALSE, StopInv, [ImporterNext]_ivars
    PROVE  StopInv'
<1>1. [Next]_vars /\ TypeOK /\ Counted /\ ChildAtWork /\ Tallied
  BY ImporterFetchStep DEF ivars, StopInv
<1>2. TypeOK' /\ Counted' /\ ChildAtWork' /\ Tallied'
  BY <1>1, TypeStep, OnlyStoppedStep
<1>3. ASSUME OnlyStopped' PROVE Serial' /\ OnceParts' /\ LocalP!StageInv'
  <2>1. /\ OnlyStopped /\ (StartAgain => AllStopped)
        /\ \A kind \in FaultKinds \ {"sigint", "restart"} : ~Failing(kind)
        /\ localFaults' # localFaults => SigInt \/ StartAgain
    BY <1>1, <1>3, OnlyStoppedStep
  <2>2. ~Failing("reply") /\ ~Failing("reaped")
    BY <2>1 DEF FaultKinds
  <2>3. Serial /\ OnceParts /\ LocalP!StageInv
    BY <2>1 DEF StopInv
  <2>4. ArchiveType /\ UnzipType /\ CrayType /\ MainType
    BY <1>1, TypeParts
  <2>5. Restart => mpc = "exited" /\ upc = "exited"
    BY <1>1, <2>1, RestartAfterStop DEF AllStopped
  <2>6. Serial'
    <3>1. Restart => cpc # "answer"
      BY <1>1, <2>5 DEF ChildAtWork, Creating, Downloading
    <3> QED
      BY <1>1, <2>2, <2>3, <2>4, <3>1, SerialStep
  <2>7. OnceParts'
    BY <1>1, <2>2, <2>3, <2>4, <2>5, SerialAlone, OncePartsStep
  <2>8. \A c \in Csv : unpacked'[c] <= 1
    <3>1. unpacked' \in [Csv -> Nat]
      BY <1>2 DEF TypeOK, UnzipTypeOK
    <3> QED
      BY <2>7, <3>1 DEF OnceParts, Apart
  <2>9. LocalP!Undisturbed
    <3>1. SigInt => LocalP!Interrupt
      BY SameFaults DEF SigInt
    <3>2. StartAgain => LocalP!Restart /\ LocalP!Stopped
      BY <2>1, SameFaults, SameOperators DEF StartAgain, AllStopped, Local!Stopped, LocalP!Stopped
    <3> QED
      BY <2>1, <2>8, <3>1, <3>2 DEF LocalP!Undisturbed
  <2>10. [LocalP!Next]_(LocalP!vars)
    BY ImporterLocalNext, SameStep
  <2>11. LocalP!StageInv'
    BY <2>3, <2>9, <2>10, LocalP!StageStep, SpoolConstantsHold
    DEF LocalP!StageStep, LocalP!SpoolAssumption, SpoolConstants
  <2> QED
    BY <2>6, <2>7, <2>11
<1> QED
  BY <1>2, <1>3 DEF StopInv

\* However answers of the Cray, SIGINT and further starts of the program fall together with the
\* archives under way, with the batches of the parsers and with the files of the database
\* process: a program with a table for each minute that was only stopped and started again has
\* imported nothing twice, and a file is in error/ only for a row that the server refuses.
THEOREM ImporterImportedOnce ==
    ASSUME OneTable = FALSE
    PROVE  ImporterSpec => []ImportedOnce
<1>1. StopInv /\ [ImporterNext]_ivars => StopInv'
  BY StopStep
<1>2. StopInv => ImportedOnce
  <2> SUFFICES ASSUME OnlyStopped, LocalP!Rejected PROVE ImportedOnce
    BY DEF StopInv, LocalP!StageInv, LocalP!ImportInv, ImportedOnce
  <2>1. Local!Minutes = LocalP!Minutes
    BY SameOperators
  <2>2. \A s : Local!RecsOf(s) = LocalP!RecsOf(s)
    BY Zenon DEF Local!RecsOf, LocalP!RecsOf, Local!Rec, LocalP!Rec, Local!Parts, LocalP!Parts
  <2> QED
    BY <2>1, <2>2 DEF ImportedOnce, LocalP!Rejected, LocalP!Refused
<1> QED
  BY <1>1, <1>2, StopInit, PTL DEF ImporterSpec
=============================================================================
