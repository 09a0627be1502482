---------------------------- MODULE FetchProofs ----------------------------
(***************************************************************************)
(* Theorems about Fetch, for every set of tars, every number of archives   *)
(* and every bound on faults and restarts.                                 *)
(***************************************************************************)
EXTENDS Fetch, FiniteSetTheorems, TLAPS

(* The faults: those of a kind are numbered from 1 without a gap. *)

Counted ==
    /\ faults \subseteq FaultKinds \X (1 .. MaxFaults)
    /\ IsFiniteSet(faults) /\ Cardinality(faults) <= MaxFaults
    /\ \A kind \in FaultKinds :
           /\ Times(kind) \in Nat
           /\ {n \in 1 .. MaxFaults : <<kind, n>> \in faults} = 1 .. Times(kind)

LEMMA CountedInit == Init => Counted /\ \A kind \in FaultKinds : Times(kind) = 0
<1> SUFFICES ASSUME Init PROVE Counted /\ \A kind \in FaultKinds : Times(kind) = 0
  OBVIOUS
<1>1. faults = {} /\ MaxFaults \in Nat
  BY UnzipAssumption DEF Init, UnzipInit
<1>2. \A kind \in FaultKinds : {n \in 1 .. MaxFaults : <<kind, n>> \in faults} = {}
  BY <1>1
<1>3. \A kind \in FaultKinds : Times(kind) = 0
  BY <1>2, FS_EmptySet DEF Times
<1> QED
  BY <1>1, <1>2, <1>3, FS_EmptySet DEF Counted

\* A fault of a kind is one more of that kind and none of another.
LEMMA FaultCounts ==
    ASSUME Counted, NEW kind, Failing(kind)
    PROVE  /\ Counted' /\ faults \subseteq faults'
           /\ kind \in FaultKinds /\ Times(kind)' = Times(kind) + 1
           /\ \A other \in FaultKinds \ {kind} : Times(other)' = Times(other)
<1> DEFINE Ns(k) == {n \in 1 .. MaxFaults : <<k, n>> \in faults}
           n1 == Times(kind) + 1
<1>1. kind \in FaultKinds /\ MaxFaults \in Nat /\ Times(kind) \in Nat
  BY UnzipAssumption DEF Failing, Counted
<1>2. faults' = faults \cup {<<kind, n1>>} /\ Cardinality(faults) < MaxFaults
  BY DEF Failing
<1>3. Cardinality(Ns(kind)) <= Cardinality(faults)
  <2> DEFINE f == [n \in Ns(kind) |-> <<kind, n>>]
  <2>1. f \in Injection(Ns(kind), faults)
    BY DEF Injection, IsInjective
  <2> QED
    BY <2>1, FS_Injection DEF Counted
<1>4. Times(kind) = Cardinality(Ns(kind)) /\ Cardinality(faults) \in Nat
  BY FS_CardinalityType DEF Times, Counted
<1>5. n1 \in 1 .. MaxFaults
  BY <1>1, <1>2, <1>3, <1>4
<1>6. <<kind, n1>> \notin faults
  BY <1>1, <1>5 DEF Counted
<1>7. /\ IsFiniteSet(faults') /\ Cardinality(faults') = Cardinality(faults) + 1
      /\ faults' \subseteq FaultKinds \X (1 .. MaxFaults)
  BY <1>1, <1>2, <1>5, <1>6, FS_AddElement DEF Counted
<1>8. ASSUME NEW other \in FaultKinds \ {kind}
      PROVE  /\ Times(other)' = Times(other)
             /\ {n \in 1 .. MaxFaults : <<other, n>> \in faults'} = Ns(other)
  <2>1. {n \in 1 .. MaxFaults : <<other, n>> \in faults'} = Ns(other)
    BY <1>2, <1>8
  <2> QED
    BY <2>1 DEF Times
<1>9. {n \in 1 .. MaxFaults : <<kind, n>> \in faults'} = 1 .. n1
  <2>1. \A n \in 1 .. MaxFaults : <<kind, n>> \in faults' <=> n \in Ns(kind) \/ n = n1
    BY <1>2
  <2>2. Ns(kind) = 1 .. Times(kind)
    BY <1>1 DEF Counted
  <2> QED
    BY <1>1, <1>5, <2>1, <2>2
<1>10. Times(kind)' = n1
  <2>1. Times(kind)' = Cardinality(1 .. n1)
    BY <1>9 DEF Times
  <2> QED
    BY <1>1, <2>1, FS_Interval
<1>11. \A k \in FaultKinds : /\ Times(k)' \in Nat
                             /\ {n \in 1 .. MaxFaults : <<k, n>> \in faults'} = 1 .. Times(k)'
  BY <1>1, <1>8, <1>9, <1>10 DEF Counted
<1>12. Counted'
  <2>1. Cardinality(faults') <= MaxFaults
    BY <1>1, <1>2, <1>4, <1>7
  <2> QED
    BY <1>7, <1>11, <2>1 DEF Counted
<1> QED
  BY <1>1, <1>2, <1>8, <1>10, <1>12

LEMMA CountedSame ==
    ASSUME UNCHANGED faults
    PROVE  /\ Counted => Counted'
           /\ \A kind \in FaultKinds : Times(kind)' = Times(kind)
  BY DEF Counted, Times

-----------------------------------------------------------------------------
(* The parts of the inductive invariant. *)

Creating == mpc \in {"create", "waitCreate"}
Downloading == mpc \in {"download", "waitDownload"}

\* Main has a child while it waits for one, of the sort it waits for.
ChildAtWork ==
    /\ Creating => cpc \in {"ssh", "answer", "ended", "reaped"}
    /\ Downloading => cpc \in {"scp", "rename", "delete", "ended", "reaped"}
    /\ ~Creating /\ ~Downloading => cpc = "none"
    /\ cpc # "none" => num \in Num

\* A file that is not there holds nothing, and nothing is packed that was not there.
Files ==
    /\ \A a \in Name \ archive : content[a] = {}
    /\ \A f \in RemoteName \ remote : packed[f] = {}
    /\ \A f \in RemoteName : packed[f] \subseteq results
    /\ listed \subseteq results

\* What unzip.sh works on, and has still to work on, is there.
Visited ==
    /\ names \cap Completed \subseteq archive
    /\ upc \in {"extract", "move", "remove"} => current \in archive \ names

\* An archive is under way, from the fork until scp writes it.
Underway == IF Creating \/ cpc = "scp" THEN 1 ELSE 0

Room ==
    /\ IsFiniteSet(archive)
    /\ Cardinality(archive \ {Exit}) + Underway <= MaxLocalArchives + Times("opendir")

\* The latest command is the one Main's child waits for, or waited for.
Latest == Len(cmds) > 0 /\ cmds[Len(cmds)].num = num

\* A command's number is its own, and the latest is Main's.
CmdNumbers ==
    /\ \A i \in DOMAIN cmds : cmds[i].num <= num /\ (cpc = "ssh" => cmds[i].num < num)
    /\ \A i, j \in DOMAIN cmds : i < j => cmds[i].num < cmds[j].num
    /\ cpc = "answer" => Latest

\* A file on the Cray has the number of the command that made it.
RemoteNumbers ==
    \A f \in remote : \E i \in DOMAIN cmds :
        /\ cmds[i].num = f[2]
        /\ f[1] = "done" => cmds[i].at \in {"cat", "rm", "ok", "failed"}

\* A name in archive/ has a number that Main has used.
ArchiveNumbers ==
    \A n \in Num :
        /\ <<"completed", n>> \in archive =>
               n <= num /\ (Creating \/ cpc \in {"scp", "rename"} => n < num)
        /\ <<"done", n>> \in archive => n <= num /\ (Creating \/ cpc = "scp" => n < num)

\* The child has the archive in archive/, and may delete it on the Cray.
Fetched == cpc = "delete" \/ (cpc = "rename" /\ <<"done", num>> \in archive)

\* Then the command has made it, though it may still be running if its answer was lost.
Made ==
    Fetched => \E i \in DOMAIN cmds :
                   cmds[i].num = num /\ cmds[i].at \in {"cat", "rm", "ok", "failed"}

\* Until the program is started again each number stands for one command and one archive.
Numbers == ~Happened("restart") => CmdNumbers /\ RemoteNumbers /\ ArchiveNumbers /\ Made

Unpacked == {c \in Csv : unpacked[c] > 0}
LocalHeld == FilesOf(TarsIn(archive \cap Completed, content)) \cup Unpacked

\* A command marks tars as done when they are held.
CommandPasses ==
    \A i \in DOMAIN cmds :
        LET n == cmds[i].num IN
        /\ cmds[i].at = "mv" => packed[<<"arch", n>>] = packed[<<"out", n>>]
        /\ cmds[i].at = "cat" => FilesOf(packed[<<"out", n>>]) \subseteq Held

\* downloadArchive deletes an archive when what is in it is on the local disk.
DownloadPasses ==
    /\ cpc = "rename" /\ <<"done", num>> \in archive =>
           packed[<<"done", num>>] \subseteq content[<<"done", num>>]
    /\ cpc = "delete" => FilesOf(packed[<<"done", num>>]) \subseteq LocalHeld

\* unzip.sh removes an archive when what is in it is in csv/.
UnzipPasses ==
    /\ upc = "move" => FilesOf(content[current]) \subseteq tmp \cup Unpacked
    /\ upc = "remove" => FilesOf(content[current]) \subseteq Unpacked

\* Every stage of an archive's way holds what the stage before it held; so it is until tars are
\* lost.
Passes == CommandPasses /\ DownloadPasses /\ UnzipPasses
Passed == ~Damaged => Passes

\* The step mixes no two archives up: of two commands with one number one has ended, mv and
\* rename replace nothing, the child's archive is left alone once it has downloaded it, and what it
\* finds in archive/ under its name is not an old download.
Unmixed ==
    /\ \A i \in DOMAIN cmds : CrayStep(i) =>
           /\ \A j \in DOMAIN cmds \ {i} :
                  cmds[j].at \in {"ok", "failed"} \/ cmds[j].num # cmds[i].num
           /\ MvArch(i) => <<"done", cmds[i].num>> \notin remote
           /\ MvArch(i) /\ Fetched => cmds[i].num # num
    /\ Rename => <<"completed", num>> \notin archive
    /\ Scp => <<"done", num>> \notin archive \/ ~Failing("ssh")

\* The csv files that have reached the local disk.
LocalCsv == FilesOf(TarsIn(Name, content)) \cup tmp \cup Unpacked

\* They are in tars that will not be packed again.
Known == LocalCsv \subseteq FilesOf(listed)

\* A csv file is in one place of archive/, tmp/ and csv/ only.
Apart ==
    /\ \A a, b \in Name : a # b => FilesOf(content[a]) \cap FilesOf(content[b]) = {}
    /\ \A c \in Csv : unpacked[c] <= (IF c \in tmp THEN 0 ELSE 1)
    /\ \A c \in tmp \cup Unpacked : \A a \in Name :
           c \in FilesOf(content[a]) => a = current /\ upc \in {"move", "remove"}

\* The child has got the answer "ok", or waits for the answer.
Confirmed == cpc = "scp" \/ (Creating /\ cpc = "ended" /\ cexit = 0)
Awaited == cpc = "answer" \/ Confirmed

\* What the command that the child waits for has packed is marked as done when it answers.
Marked ==
    Awaited =>
        LET at == cmds[Len(cmds)].at IN
        /\ at = "mv" => packed[<<"arch", num>>] \subseteq packed[<<"out", num>>]
        /\ at = "cat" => packed[<<"done", num>>] \subseteq packed[<<"out", num>>]
        /\ at \in {"rm", "ok"} => packed[<<"done", num>>] \subseteq listed

\* What may still be downloaded is not on the local disk yet.
Fresh ==
    /\ cpc # "reaped"
    /\ Awaited => Latest
    /\ Confirmed => cmds[Len(cmds)].at = "ok"
    /\ Awaited =>
           LET at == cmds[Len(cmds)].at IN
           /\ at \in {"tar", "mv", "cat", "rm"} => FilesOf(packed[<<"out", num>>]) \cap LocalCsv = {}
           /\ at \in {"cat", "rm", "ok"} => FilesOf(packed[<<"done", num>>]) \cap LocalCsv = {}

\* No other command can touch the archive that the child waits for.
Alone ==
    Awaited => \A i \in DOMAIN cmds :
                   i = Len(cmds) \/ cmds[i].at \in {"ok", "failed"} \/ cmds[i].num # num

OnceParts == Known /\ Apart /\ Marked /\ Fresh
Once == ~Happened("restart") /\ ~Happened("reaped") => OnceParts

-----------------------------------------------------------------------------
(* Types. *)

ArchiveType == archive \subseteq Name /\ content \in [Name -> SUBSET Tar]

UnzipType ==
    /\ upc \in {"start", "tidy", "scan", "each", "extract", "move", "remove", "exited"}
    /\ names \subseteq Name
    /\ current \in IF upc \in {"extract", "move", "remove"} THEN Completed
                ELSE Completed \cup {Exit}
    /\ tmp \subseteq Csv
    /\ unpacked \in [Csv -> Nat]

CrayType ==
    /\ results \subseteq Tar /\ listed \subseteq Tar /\ aside \subseteq Tar
    /\ remote \subseteq RemoteName
    /\ packed \in [RemoteName -> SUBSET Tar]
    /\ cmds \in Seq([num : Num, observer : Observer, at : CmdAt])

MainType ==
    /\ mpc \in {"start", "list", "observers", "count", "throttle", "create", "waitCreate",
                "download", "waitDownload", "exit", "exited"}
    /\ todo \subseteq Observer /\ observer \in Observer
    /\ num \in 0 .. MaxNum
    /\ status \in {0, 1}

ChildType ==
    /\ cexit \in {0, 1}
    /\ cpc \in {"none", "ssh", "answer", "scp", "rename", "delete", "ended", "reaped"}

LEMMA TypeParts ==
    Counted => (TypeOK <=> /\ ArchiveType /\ UnzipType /\ CrayType /\ MainType /\ ChildType
                           /\ interrupted \in BOOLEAN)
  BY Zenon DEF Counted, TypeOK, UnzipTypeOK, ArchiveType, UnzipType, CrayType, MainType, ChildType

LEMMA Constants ==
    /\ MaxNum \in Nat /\ Num = 1 .. MaxNum /\ Num \subseteq Nat \ {0} /\ MaxFaults \in Nat
    /\ \A n \in Num : <<"done", n>> \in Name /\ <<"completed", n>> \in Name
    /\ \A n \in Num : <<"out", n>> \in RemoteName /\ <<"arch", n>> \in RemoteName
                          /\ <<"done", n>> \in RemoteName
    /\ Exit \in Name /\ Exit \notin Completed /\ Completed \subseteq Name
  BY UnzipAssumption DEF Num, Name, RemoteName, Completed, Exit

LEMMA FilesOfType == \A tars \in SUBSET Tar : FilesOf(tars) \subseteq Csv
  BY UnzipAssumption DEF FilesOf

\* A group of variables that a step leaves alone keeps its types.
LEMMA TypeFrame ==
    /\ ArchiveType /\ UNCHANGED archiveDir => ArchiveType'
    /\ UnzipType /\ UNCHANGED uvars => UnzipType'
    /\ CrayType /\ UNCHANGED cray => CrayType'
    /\ MainType /\ UNCHANGED mvars => MainType'
    /\ ChildType /\ UNCHANGED child => ChildType'
<1>1. ArchiveType /\ UNCHANGED archiveDir => ArchiveType'
  BY DEF ArchiveType, archiveDir
<1>2. UnzipType /\ UNCHANGED uvars => UnzipType'
  BY DEF UnzipType, uvars
<1>3. CrayType /\ UNCHANGED cray => CrayType'
  BY DEF CrayType, cray
<1>4. MainType /\ UNCHANGED mvars => MainType'
  BY DEF MainType, mvars
<1>5. ChildType /\ UNCHANGED child => ChildType'
  BY DEF ChildType, child
<1> QED
  BY <1>1, <1>2, <1>3, <1>4, <1>5

LEMMA TypeInit == Init => TypeOK /\ ChildAtWork
<1> SUFFICES ASSUME Init PROVE TypeOK /\ ChildAtWork
  OBVIOUS
<1>1. ArchiveType /\ UnzipType
  BY Constants DEF Init, UnzipInit, ArchiveType, UnzipType
<1>2. CrayType /\ MainType /\ ChildType
  BY Constants DEF Init, CrayType, MainType, ChildType
<1>3. interrupted \in BOOLEAN
  BY Zenon DEF Init
<1>4. ChildAtWork
  BY DEF Init, ChildAtWork, Creating, Downloading
<1> QED
  BY <1>1, <1>2, <1>3, <1>4, CountedInit, TypeParts

\* A step of unzip.sh, of the Cray, of Main's child or of Main counts one fault or none.
LEMMA FaultOrNot == [Next]_vars => UNCHANGED faults \/ \E kind \in Faults : Failing(kind)
<1> SUFFICES ASSUME [Next]_vars, faults' # faults PROVE \E kind \in Faults : Failing(kind)
  OBVIOUS
<1>1. CASE (\E t \in Tar : Arrive(t)) \/ Interrupt \/ Restart \/ UNCHANGED vars
  BY <1>1 DEF Arrive, Interrupt, Restart, Failing, vars
<1>2. ASSUME NEW i \in DOMAIN cmds, CrayStep(i) PROVE \E kind \in Faults : Failing(kind)
  BY <1>2 DEF CrayStep, ListOut, TarUp, MvArch, CatOut, RmOut, CmdFails, Failing
<1>3. CASE ChildStep
  BY <1>3 DEF ChildStep, SendCreate, CreateEnds, NoAnswer, Scp, Rename, RenameFails, DeleteRemote,
              ChildEnds, Failing
<1>4. CASE MainStep
  BY <1>4 DEF MainStep, MoveCompletedArchives, ListObservers, NextObserver, PassEnds, CountFiles,
              LeaveObserver, ForkCreate, handle_sigchld, Wait, CreateReturned, DownloadReturned,
              LeaveLoop, SignalUnzip, Failing
<1>5. CASE UnzipStep
  BY <1>5 DEF UnzipStep, UnzipAlone, UnzipStart, Tidy, TidyEnds, Scan, UnzipExit, Pick, ScanEnds,
              Extract, MoveFile, MoveEnds, Remove, Failing
<1> QED
  BY <1>1, <1>2, <1>3, <1>4, <1>5 DEF Next

LEMMA CountedStep ==
    ASSUME Counted, [Next]_vars
    PROVE  Counted' /\ \A kind \in FaultKinds : Happened(kind) => Happened(kind)'
<1>1. \A kind \in FaultKinds : Times(kind) \in Nat
  BY DEF Counted
<1>2. CASE UNCHANGED faults
  BY <1>2, CountedSame DEF Happened
<1>3. ASSUME NEW kind \in Faults, Failing(kind)
      PROVE  Counted' /\ \A k \in FaultKinds : Happened(k) => Happened(k)'
  BY <1>1, <1>3, FaultCounts DEF Happened
<1> QED
  BY <1>2, <1>3, FaultOrNot

Cmd == [num : Num, observer : Observer, at : CmdAt]

LEMMA Element == ASSUME NEW S, NEW q \in Seq(S), NEW i \in DOMAIN q PROVE q[i] \in S
  OBVIOUS

\* The types of what the Cray keeps.
LEMMA CrayTypeStep ==
    ASSUME ArchiveType, UnzipType, CrayType, MainType, NEW i \in DOMAIN cmds, CrayStep(i)
    PROVE  CrayType' /\ UNCHANGED <<archiveDir, uvars, mvars, child, interrupted>>
<1>1. /\ cmds[i] \in [num : Num, observer : Observer, at : CmdAt] /\ cmds[i].num \in Num
      /\ Pending(cmds[i].observer) \subseteq Tar
  <2>1. cmds[i] \in [num : Num, observer : Observer, at : CmdAt]
    BY Element DEF CrayType, Cmd
  <2>2. Pending(cmds[i].observer) \subseteq Tar
    BY DEF CrayType, Pending
  <2> QED
    BY <2>1, <2>2
<1>2. \A at \in CmdAt : Advance(i, at) => cmds' \in Seq([num : Num, observer : Observer, at : CmdAt])
  BY <1>1 DEF Advance, CrayType
<1>3. UNCHANGED <<archiveDir, uvars, results, aside, mvars, child, interrupted>>
  BY DEF CrayStep, ListOut, TarUp, MvArch, CatOut, RmOut, CmdFails, OnCray
<1>4. ASSUME NEW f \in RemoteName, NEW tars \in SUBSET Tar, Put(f, tars)
      PROVE  remote' \subseteq RemoteName /\ packed' \in [RemoteName -> SUBSET Tar]
  BY <1>4 DEF Put, CrayType
<1>5. /\ cmds' \in Seq([num : Num, observer : Observer, at : CmdAt])
      /\ listed' \subseteq Tar
      /\ remote' \subseteq RemoteName /\ packed' \in [RemoteName -> SUBSET Tar]
  <2> USE Constants
  <2>1. CASE ListOut(i)
    BY <1>1, <1>2, <1>4, <2>1 DEF ListOut, CmdAt, CrayType
  <2>2. CASE TarUp(i)
    BY <1>1, <1>2, <1>4, <2>2 DEF TarUp, CmdAt, CrayType
  <2>3. CASE MvArch(i)
    BY <1>1, <1>2, <2>3 DEF MvArch, CmdAt, CrayType
  <2>4. CASE CatOut(i)
    BY <1>1, <1>2, <2>4 DEF CatOut, CmdAt, CrayType
  <2>5. CASE RmOut(i)
    BY <1>1, <1>2, <2>5 DEF RmOut, CmdAt, CrayType
  <2>6. CASE CmdFails(i)
    BY <1>1, <1>2, <2>6 DEF CmdFails, CmdAt, CrayType
  <2> QED
    BY <2>1, <2>2, <2>3, <2>4, <2>5, <2>6 DEF CrayStep
<1> QED
  BY <1>3, <1>5 DEF CrayType

LEMMA PutFileType ==
    ASSUME ArchiveType, NEW a \in Name, NEW tars \in SUBSET Tar, PutFile(a, tars)
    PROVE  ArchiveType'
  BY DEF PutFile, ArchiveType

LEMMA DeleteFileType == ASSUME ArchiveType, NEW a \in Name, DeleteFile(a) PROVE ArchiveType'
  BY DEF DeleteFile, ArchiveType

\* The types of what unzip.sh changes.
LEMMA UnzipTypeStep ==
    ASSUME ArchiveType, UnzipType, UnzipStep
    PROVE  ArchiveType' /\ UnzipType' /\ UNCHANGED <<cray, mvars, child, interrupted>>
<1>1. UNCHANGED <<cray, mvars, child, interrupted>>
  BY DEF UnzipStep, UnzipFrame
<1>2. ArchiveType'
  <2>1. ASSUME NEW a \in names, DeleteFile(a) PROVE ArchiveType'
    BY <2>1, DeleteFileType DEF UnzipType
  <2>2. CASE Remove
    BY <2>2, DeleteFileType, Constants DEF Remove, UnzipType
  <2>3. CASE UnzipExit
    BY <2>3, DeleteFileType, Constants DEF UnzipExit
  <2>4. CASE UNCHANGED archiveDir
    BY <2>4, TypeFrame
  <2> QED
    BY <2>1, <2>2, <2>3, <2>4 DEF UnzipStep, UnzipAlone, UnzipStart, Tidy, TidyEnds, Scan, Pick,
                                  ScanEnds, Extract, MoveFile, MoveEnds
<1>3. UnzipType'
  <2> USE Constants DEF UnzipType
  <2>1. CASE UnzipStart \/ Tidy \/ TidyEnds \/ Scan \/ UnzipExit \/ ScanEnds
    BY <2>1 DEF UnzipStart, Tidy, TidyEnds, Scan, UnzipExit, ScanEnds, ArchiveType
  <2>2. CASE Pick
    BY <2>2 DEF Pick, Unpackable
  <2>3. CASE Extract
    <3>1. FilesOf(content[current]) \subseteq Csv
      BY <2>3, FilesOfType DEF Extract, ArchiveType
    <3> QED
      BY <2>3, <3>1 DEF Extract
  <2>4. CASE \E c \in Csv : MoveFile(c)
    BY <2>4 DEF MoveFile
  <2>5. CASE MoveEnds \/ Remove
    BY <2>5 DEF MoveEnds, Remove
  <2> QED
    BY <2>1, <2>2, <2>3, <2>4, <2>5 DEF UnzipStep, UnzipAlone
<1> QED
  BY <1>1, <1>2, <1>3

\* The types of what Main's child changes.
LEMMA ChildTypeStep ==
    ASSUME ArchiveType, CrayType, MainType, ChildType, ChildAtWork, ChildStep
    PROVE  /\ ArchiveType' /\ CrayType' /\ ChildType'
           /\ UNCHANGED <<uvars, mvars, interrupted>>
<1> USE Constants
<1>0. /\ num \in Num
      /\ packed[<<"done", num>>] \subseteq Tar
  <2>1. num \in Num
    BY DEF ChildStep, SendCreate, CreateEnds, NoAnswer, Scp, Rename, RenameFails, DeleteRemote,
           ChildAtWork
  <2> QED
    BY <2>1 DEF CrayType
<1>1. UNCHANGED <<uvars, mvars, interrupted>>
  BY DEF ChildStep, SendCreate, CreateEnds, NoAnswer, Scp, Rename, RenameFails, DeleteRemote
<1>2. ChildType'
  BY DEF ChildStep, SendCreate, CreateEnds, NoAnswer, Scp, Rename, RenameFails, DeleteRemote,
         ChildEnds, CreateCode, ChildType
<1>3. ArchiveType'
  <2>1. CASE Scp
    <3>1. \A tars \in SUBSET Tar : PutFile(<<"done", num>>, tars) => ArchiveType'
      BY <1>0, PutFileType
    <3> QED
      BY <1>0, <2>1, <3>1, TypeFrame DEF Scp
  <2>2. CASE Rename
    BY <1>0, <2>2 DEF Rename, ArchiveType
  <2>3. CASE UNCHANGED archiveDir
    BY <2>3, TypeFrame
  <2> QED
    BY <2>1, <2>2, <2>3 DEF ChildStep, SendCreate, CreateEnds, NoAnswer, RenameFails, DeleteRemote
<1>4. CrayType'
  <2>1. CASE SendCreate
    <3>1. [num |-> num, observer |-> observer, at |-> "head"] \in Cmd
      BY <1>0 DEF MainType, Cmd, CmdAt
    <3>2. cmds' \in Seq(Cmd)
      BY <2>1, <3>1 DEF SendCreate, CrayType, Cmd
    <3> QED
      BY <2>1, <3>2 DEF SendCreate, CrayType, Cmd
  <2>2. CASE DeleteRemote
    BY <1>0, <2>2 DEF DeleteRemote, CrayType
  <2>3. CASE UNCHANGED cray
    BY <2>3, TypeFrame
  <2> QED
    BY <2>1, <2>2, <2>3 DEF ChildStep, CreateEnds, NoAnswer, Scp, Rename, RenameFails
<1> QED
  BY <1>1, <1>2, <1>3, <1>4

\* The types of what Main changes.
LEMMA MainTypeStep ==
    ASSUME ArchiveType, CrayType, MainType, ChildType, MainStep
    PROVE  /\ ArchiveType' /\ CrayType' /\ MainType' /\ ChildType'
           /\ UNCHANGED <<uvars, interrupted>>
<1> USE Constants
<1>1. UNCHANGED <<uvars, interrupted>>
  BY DEF MainStep, MoveCompletedArchives, ListObservers, NextObserver, PassEnds, CountFiles,
         LeaveObserver, ForkCreate, handle_sigchld, Wait, CreateReturned, DownloadReturned,
         LeaveLoop, SignalUnzip
<1>2. ArchiveType'
  <2>1. CASE SignalUnzip
    BY <2>1, PutFileType DEF SignalUnzip
  <2>2. CASE ~SignalUnzip
    <3>1. UNCHANGED archiveDir
      BY <2>2 DEF MainStep, MoveCompletedArchives, ListObservers, NextObserver, PassEnds,
                  CountFiles, LeaveObserver, ForkCreate, handle_sigchld, Wait, CreateReturned,
                  DownloadReturned, LeaveLoop
    <3> QED
      BY <3>1, TypeFrame
  <2> QED
    BY <2>1, <2>2
<1>3. CrayType'
  <2>1. CASE MoveCompletedArchives
    BY <2>1 DEF MoveCompletedArchives, CrayType
  <2>2. CASE ~MoveCompletedArchives
    <3>1. UNCHANGED cray
      BY <2>2 DEF MainStep, ListObservers, NextObserver, PassEnds, CountFiles, LeaveObserver,
                  ForkCreate, handle_sigchld, Wait, CreateReturned, DownloadReturned, LeaveLoop,
                  SignalUnzip
    <3> QED
      BY <3>1, TypeFrame
  <2> QED
    BY <2>1, <2>2
<1>4. ChildType'
  BY DEF MainStep, MoveCompletedArchives, ListObservers, NextObserver, PassEnds, CountFiles,
         LeaveObserver, ForkCreate, handle_sigchld, Wait, CreateReturned, DownloadReturned,
         LeaveLoop, SignalUnzip, ChildType, child
<1>5. MainType'
  <2> USE DEF MainType
  <2>1. CASE MoveCompletedArchives \/ ListObservers \/ NextObserver \/ PassEnds \/ CountFiles
    BY <2>1 DEF MoveCompletedArchives, ListObservers, NextObserver, PassEnds, CountFiles
  <2>2. CASE LeaveObserver \/ ForkCreate \/ Wait \/ LeaveLoop \/ SignalUnzip
    BY <2>2 DEF LeaveObserver, ForkCreate, Wait, LeaveLoop, SignalUnzip
  <2>3. CASE CreateReturned \/ DownloadReturned
    BY <2>3 DEF CreateReturned, DownloadReturned, WaitStatus, ChildType
  <2>4. CASE handle_sigchld
    BY <2>4 DEF handle_sigchld, mvars
  <2> QED
    BY <2>1, <2>2, <2>3, <2>4 DEF MainStep
<1> QED
  BY <1>1, <1>2, <1>3, <1>4, <1>5

LEMMA ChildAtWorkStep ==
    ASSUME MainType, ChildType, ChildAtWork, [Next]_vars
    PROVE  ChildAtWork'
<1> USE Constants DEF ChildAtWork, Creating, Downloading
<1>1. CASE UNCHANGED <<mpc, num, cpc>>
  BY <1>1
<1>2. CASE ChildStep
  <2>1. UNCHANGED mvars
    BY <1>2 DEF ChildStep, SendCreate, CreateEnds, NoAnswer, Scp, Rename, RenameFails, DeleteRemote
  <2> QED
    BY <1>2, <2>1 DEF ChildStep, SendCreate, CreateEnds, NoAnswer, Scp, Rename, RenameFails,
                      DeleteRemote, ChildEnds, mvars
<1>3. CASE MainStep
  <2>1. CASE MoveCompletedArchives \/ ListObservers \/ NextObserver \/ PassEnds \/ CountFiles
    BY <2>1 DEF MoveCompletedArchives, ListObservers, NextObserver, PassEnds, CountFiles, child
  <2>2. CASE LeaveObserver \/ ForkCreate \/ Wait \/ LeaveLoop \/ SignalUnzip
    BY <2>2 DEF LeaveObserver, ForkCreate, Wait, LeaveLoop, SignalUnzip, child, MainType,
           StopsWaiting
  <2>3. CASE CreateReturned \/ DownloadReturned
    BY <2>3 DEF CreateReturned, DownloadReturned
  <2>4. CASE handle_sigchld
    BY <2>4 DEF handle_sigchld, mvars
  <2> QED
    BY <1>3, <2>1, <2>2, <2>3, <2>4 DEF MainStep
<1>4. CASE Restart
  BY <1>4 DEF Restart
<1>5. ASSUME NEW i \in DOMAIN cmds, CrayStep(i) PROVE UNCHANGED <<mpc, num, cpc>>
  BY <1>5 DEF CrayStep, ListOut, TarUp, MvArch, CatOut, RmOut, CmdFails, OnCray, mvars, child
<1>6. CASE (\E t \in Tar : Arrive(t)) \/ Interrupt \/ UnzipStep \/ UNCHANGED vars
  BY <1>1, <1>6 DEF Arrive, Interrupt, UnzipStep, UnzipFrame, mvars, child, vars
<1> QED
  BY <1>1, <1>2, <1>3, <1>4, <1>5, <1>6 DEF Next

LEMMA TypePartsAfter ==
    ASSUME Counted', ArchiveType', UnzipType', CrayType', MainType', ChildType',
           interrupted' \in BOOLEAN
    PROVE  TypeOK'
  BY Zenon DEF Counted, TypeOK, UnzipTypeOK, ArchiveType, UnzipType, CrayType, MainType, ChildType

LEMMA TypeStep ==
    ASSUME TypeOK, Counted, ChildAtWork, [Next]_vars
    PROVE  TypeOK' /\ Counted' /\ ChildAtWork'
<1>0. /\ ArchiveType /\ UnzipType /\ CrayType /\ MainType /\ ChildType
      /\ interrupted \in BOOLEAN
  BY Zenon, TypeParts
<1>c. Counted' /\ ChildAtWork'
  BY <1>0, CountedStep, ChildAtWorkStep
<1>1. CASE (\E t \in Tar : Arrive(t)) \/ Interrupt \/ UNCHANGED vars
  <2>1. UNCHANGED <<archiveDir, uvars, mvars, child>>
    BY <1>1 DEF Arrive, Interrupt, vars
  <2>2. CrayType'
    <3>1. CASE UNCHANGED cray
      BY <1>0, <3>1, TypeFrame
    <3>2. ASSUME NEW t \in Tar, Arrive(t) PROVE CrayType'
      BY <1>0, <3>2 DEF Arrive, CrayType
    <3> QED
      BY <1>1, <3>1, <3>2 DEF Interrupt, vars
  <2>3. interrupted' \in BOOLEAN
    BY <1>0, <1>1, Zenon DEF Arrive, Interrupt, vars
  <2> QED
    BY <1>0, <1>c, <2>1, <2>2, <2>3, TypeFrame, TypePartsAfter
<1>2. CASE Restart
  <2>1. UNCHANGED <<archiveDir, cray>>
    BY <1>2 DEF Restart
  <2>2. UnzipType' /\ MainType' /\ ChildType'
    BY <1>0, <1>2, Constants DEF Restart, UnzipType, MainType, ChildType
  <2>3. interrupted' \in BOOLEAN
    BY <1>2, Zenon DEF Restart
  <2> QED
    BY <1>0, <1>c, <2>1, <2>2, <2>3, TypeFrame, TypePartsAfter
<1>3. ASSUME NEW i \in DOMAIN cmds, CrayStep(i)
      PROVE  TypeOK' /\ Counted' /\ ChildAtWork'
  <2>1. CrayType' /\ UNCHANGED <<archiveDir, uvars, mvars, child, interrupted>>
    BY <1>0, <1>3, CrayTypeStep
  <2>4. interrupted' \in BOOLEAN
    BY <1>0, <2>1, Zenon
  <2> QED
    BY <1>0, <1>c, <2>1, <2>4, TypeFrame, TypePartsAfter
<1>4. CASE ChildStep
  <2>1. ArchiveType' /\ CrayType' /\ ChildType' /\ UNCHANGED <<uvars, mvars, interrupted>>
    BY <1>0, <1>4, ChildTypeStep
  <2>4. interrupted' \in BOOLEAN
    BY <1>0, <2>1, Zenon
  <2> QED
    BY <1>0, <1>c, <2>1, <2>4, TypeFrame, TypePartsAfter
<1>5. CASE MainStep
  <2>1. /\ ArchiveType' /\ CrayType' /\ MainType' /\ ChildType'
        /\ UNCHANGED <<uvars, interrupted>>
    BY <1>0, <1>5, MainTypeStep
  <2>4. interrupted' \in BOOLEAN
    BY <1>0, <2>1, Zenon
  <2> QED
    BY <1>0, <1>c, <2>1, <2>4, TypeFrame, TypePartsAfter
<1>6. CASE UnzipStep
  <2>1. ArchiveType' /\ UnzipType' /\ UNCHANGED <<cray, mvars, child, interrupted>>
    BY <1>0, <1>6, UnzipTypeStep
  <2>4. interrupted' \in BOOLEAN
    BY <1>0, <2>1, Zenon
  <2> QED
    BY <1>0, <1>c, <2>1, <2>4, TypeFrame, TypePartsAfter
<1> QED
  BY <1>1, <1>2, <1>3, <1>4, <1>5, <1>6 DEF Next

\* Every variable of Fetch keeps its type: in particular the commands on the Cray and the names
\* in archive/ are of archives that Main asked for, and the faults stay within their bound.
THEOREM FetchTypeOK == Spec => []TypeOK
  BY TypeInit, CountedInit, TypeStep, PTL DEF Spec

-----------------------------------------------------------------------------
(* Backpressure. *)

LEMMA RoomInit == Init => Room
<1> SUFFICES ASSUME Init PROVE Room
  OBVIOUS
<1>1. archive \ {Exit} = {} /\ archive = {} /\ Underway = 0
  BY DEF Init, UnzipInit, Underway, Creating
<1>2. Times("opendir") = 0
  BY CountedInit DEF FaultKinds
<1> QED
  BY <1>1, <1>2, FS_EmptySet, FetchAssumption DEF Room

\* Faults are only added to.
LEMMA TimesGrow ==
    ASSUME Counted, [Next]_vars
    PROVE  /\ Times("opendir") \in Nat /\ Times("opendir")' \in Nat
           /\ Times("opendir") <= Times("opendir")'
<1>1. "opendir" \in FaultKinds /\ Times("opendir") \in Nat
  BY DEF Counted, FaultKinds
<1>2. CASE UNCHANGED faults
  BY <1>1, <1>2, CountedSame
<1>3. ASSUME NEW kind \in Faults, Failing(kind)
      PROVE  Times("opendir")' \in Nat /\ Times("opendir") <= Times("opendir")'
  <2>1. Times("opendir")' = Times("opendir") \/ Times("opendir")' = Times("opendir") + 1
    BY <1>1, <1>3, FaultCounts
  <2> QED
    BY <1>1, <2>1
<1> QED
  BY <1>1, <1>2, <1>3, FaultOrNot

LEMMA RoomType ==
    ASSUME Room, Counted
    PROVE  /\ Cardinality(archive \ {Exit}) \in Nat /\ Underway \in {0, 1}
           /\ Times("opendir") \in Nat /\ MaxLocalArchives \in Nat
<1>1. IsFiniteSet(archive \ {Exit})
  BY FS_RemoveElement DEF Room
<1> QED
  BY <1>1, FS_CardinalityType, FetchAssumption DEF Underway, Counted, FaultKinds

\* A step after which there are no more archives, and none more under way.
LEMMA RoomKept ==
    ASSUME Room, Counted, [Next]_vars, archive' \ {Exit} \subseteq archive \ {Exit},
           Underway' <= Underway
    PROVE  Room'
<1> DEFINE before == archive \ {Exit}
           after == archive' \ {Exit}
<1>1. IsFiniteSet(before)
  BY FS_RemoveElement DEF Room
<1>2. IsFiniteSet(after) /\ Cardinality(after) <= Cardinality(before) /\ Cardinality(after) \in Nat
  BY <1>1, FS_Subset, FS_CardinalityType
<1>3. IsFiniteSet(archive')
  <2>1. CASE Exit \in archive'
    <3>1. archive' = after \cup {Exit}
      BY <2>1
    <3> QED
      BY <1>2, <3>1, FS_AddElement
  <2>2. CASE Exit \notin archive'
    <3>1. archive' = after
      BY <2>2
    <3> QED
      BY <1>2, <3>1
  <2> QED
    BY <2>1, <2>2
<1>4. Cardinality(after) + Underway' <= MaxLocalArchives + Times("opendir")'
  <2>1. Cardinality(before) + Underway <= MaxLocalArchives + Times("opendir")
    BY DEF Room
  <2>2. Underway' \in {0, 1}
    BY DEF Underway
  <2> HIDE DEF before, after
  <2> QED
    BY <1>2, <2>1, <2>2, RoomType, TimesGrow DEF before
<1> QED
  BY <1>3, <1>4 DEF Room

\* Main forks only if there is room, or if it could not count.
LEMMA RoomFork == ASSUME Room, Counted, ChildAtWork, [Next]_vars, ForkCreate PROVE Room'
<1> DEFINE before == archive \ {Exit}
<1>1. Underway = 0 /\ Underway' = 1 /\ archive' = archive
  BY DEF ForkCreate, ChildAtWork, Underway, Creating, Downloading, archiveDir
<1>2. IsFiniteSet(archive) /\ Cardinality(before) <= Cardinality(archive)
  BY FS_Subset DEF Room
<1>3. Cardinality(archive) \in Nat
  BY <1>2, FS_CardinalityType
<1>4. CASE HasRoom
  BY <1>1, <1>2, <1>3, <1>4, RoomType, TimesGrow DEF Room, HasRoom
<1>5. CASE Failing("opendir")
  <2>1. Times("opendir")' = Times("opendir") + 1
    BY <1>5, FaultCounts
  <2> QED
    BY <1>1, <1>2, <2>1, RoomType DEF Room
<1> QED
  BY <1>4, <1>5 DEF ForkCreate

\* scp writes the archive that was under way.
LEMMA RoomScp == ASSUME Room, Counted, ChildAtWork, [Next]_vars, Scp PROVE Room'
<1> DEFINE before == archive \ {Exit}
           done == <<"done", num>>
<1>1. Underway = 1 /\ Underway' = 0
  BY DEF Scp, ChildAtWork, Underway, Creating, Downloading, mvars
<1>2. archive' = archive \/ archive' = archive \cup {done}
  BY DEF Scp, PutFile, archiveDir
<1>3. CASE archive' = archive
  BY <1>1, <1>3, RoomKept
<1>4. CASE archive' = archive \cup {done}
  <2>1. IsFiniteSet(archive')
    BY <1>4, FS_AddElement DEF Room
  <2>2. archive' \ {Exit} = before \cup {done}
    BY <1>4 DEF Exit
  <2>3. IsFiniteSet(before)
    BY FS_RemoveElement DEF Room
  <2>4. Cardinality(archive' \ {Exit}) <= Cardinality(before) + 1
    <3>1. Cardinality(before \cup {done})
             = IF done \in before THEN Cardinality(before) ELSE Cardinality(before) + 1
      BY <2>3, FS_AddElement
    <3> QED
      BY <2>2, <3>1, RoomType
  <2>5. Cardinality(archive' \ {Exit}) \in Nat
    BY <2>2, <2>3, FS_AddElement, FS_CardinalityType
  <2>6. Cardinality(before) + 1 <= MaxLocalArchives + Times("opendir")
    BY <1>1 DEF Room
  <2> HIDE DEF before
  <2>7. Cardinality(archive' \ {Exit}) + 0 <= MaxLocalArchives + Times("opendir")'
    BY <2>4, <2>5, <2>6, RoomType, TimesGrow DEF before
  <2> QED
    BY <1>1, <2>1, <2>7 DEF Room
<1> QED
  BY <1>2, <1>3, <1>4

\* rename takes one name away and adds one.
LEMMA RoomRename == ASSUME Room, Counted, [Next]_vars, Rename PROVE Room'
<1> DEFINE before == archive \ {Exit}
           done == <<"done", num>>
           completed == <<"completed", num>>
<1>1. archive' = (archive \ {done}) \cup {completed} /\ done \in before
  BY DEF Rename, Exit
<1>2. Underway' = Underway
  BY DEF Rename, Underway, Creating, mvars
<1>3. IsFiniteSet(archive')
  BY <1>1, FS_AddElement, FS_RemoveElement DEF Room
<1>4. archive' \ {Exit} = (before \ {done}) \cup {completed}
  BY <1>1 DEF Exit
<1>5. IsFiniteSet(before)
  BY FS_RemoveElement DEF Room
<1>6. /\ IsFiniteSet(before \ {done})
      /\ Cardinality(before \ {done}) = Cardinality(before) - 1
  BY <1>1, <1>5, FS_RemoveElement
<1> HIDE DEF before, done, completed
<1>7. Cardinality(archive' \ {Exit}) <= Cardinality(before)
  <2>1. Cardinality(before) \in Nat
    BY <1>5, FS_CardinalityType
  <2>2. Cardinality((before \ {done}) \cup {completed})
           \in {Cardinality(before \ {done}), Cardinality(before \ {done}) + 1}
    BY <1>6, FS_AddElement
  <2> DEFINE after == archive' \ {Exit}
             rest == before \ {done}
  <2>3. Cardinality(after) \in {Cardinality(rest), Cardinality(rest) + 1}
    BY <1>4, <2>2
  <2>4. Cardinality(rest) = Cardinality(before) - 1
    BY <1>6
  <2> HIDE DEF after, rest
  <2>5. Cardinality(after) <= Cardinality(before)
    BY <2>1, <2>3, <2>4
  <2> QED
    BY <2>5 DEF after
<1>8. Cardinality(archive' \ {Exit}) \in Nat
  BY <1>4, <1>6, FS_AddElement, FS_CardinalityType
<1>9. Cardinality(archive' \ {Exit}) + Underway <= MaxLocalArchives + Times("opendir")'
  BY <1>7, <1>8, RoomType, TimesGrow DEF Room, before
<1> QED
  BY <1>2, <1>3, <1>9 DEF Room

LEMMA RoomStep == ASSUME Room, Counted, ChildAtWork, [Next]_vars PROVE Room'
<1>1. CASE UNCHANGED <<archive, mpc, cpc>>
  BY <1>1, RoomKept DEF Underway, Creating
<1>2. CASE ChildStep
  <2>1. CASE Scp \/ Rename
    BY <2>1, RoomScp, RoomRename
  <2>2. CASE ~Scp /\ ~Rename
    <3>1. UNCHANGED <<archive, mpc>> /\ (cpc' = "scp" => cpc = "scp")
      BY <1>2, <2>2 DEF ChildStep, SendCreate, CreateEnds, NoAnswer, RenameFails, DeleteRemote,
                        ChildEnds, archiveDir, mvars
    <3> QED
      BY <3>1, RoomKept DEF Underway, Creating
  <2> QED
    BY <2>1, <2>2
<1>3. CASE MainStep
  <2>1. CASE ForkCreate
    BY <2>1, RoomFork
  <2>2. CASE ~ForkCreate
    <3>1. archive' \ {Exit} \subseteq archive \ {Exit}
      BY <1>3, <2>2 DEF MainStep, MoveCompletedArchives, ListObservers, NextObserver, PassEnds,
             CountFiles, LeaveObserver, handle_sigchld, Wait, CreateReturned, DownloadReturned,
             LeaveLoop, SignalUnzip, PutFile, archiveDir
    <3>2. Underway' <= Underway
      <4>1. (Creating \/ cpc = "scp")' => Creating \/ cpc = "scp"
        BY <1>3, <2>2 DEF MainStep, MoveCompletedArchives, ListObservers, NextObserver, PassEnds,
               CountFiles, LeaveObserver, handle_sigchld, Wait, CreateReturned, DownloadReturned,
               LeaveLoop, SignalUnzip, Creating, child, mvars
      <4> QED
        BY <4>1 DEF Underway, Creating
    <3> QED
      BY <3>1, <3>2, RoomKept
  <2> QED
    BY <2>1, <2>2
<1>4. CASE Restart
  <2>1. archive' = archive /\ Underway' = 0 /\ Underway \in {0, 1}
    BY <1>4 DEF Restart, archiveDir, Underway, Creating
  <2> QED
    BY <2>1, RoomKept
<1>5. CASE UnzipStep
  <2>1. archive' \subseteq archive /\ Underway' = Underway
    BY <1>5 DEF UnzipStep, UnzipFrame, mvars, child, UnzipAlone, UnzipStart, Tidy, TidyEnds, Scan,
           UnzipExit, Pick, ScanEnds, Extract, MoveFile, MoveEnds, Remove, DeleteFile, archiveDir,
           Underway, Creating
  <2> QED
    BY <2>1, RoomKept DEF Underway
<1>6. ASSUME NEW i \in DOMAIN cmds, CrayStep(i) PROVE UNCHANGED <<archive, mpc, cpc>>
  BY <1>6 DEF CrayStep, ListOut, TarUp, MvArch, CatOut, RmOut, CmdFails, OnCray, mvars, child,
              archiveDir
<1>7. CASE (\E t \in Tar : Arrive(t)) \/ Interrupt \/ UNCHANGED vars
  BY <1>1, <1>7 DEF Arrive, Interrupt, mvars, child, archiveDir, vars
<1> QED
  BY <1>1, <1>2, <1>3, <1>4, <1>5, <1>6, <1>7 DEF Next

\* However often Main is started again and whatever fails, archive/ never holds more archives
\* than maxLocalArchives, and one more for each time that Main could not count them.
THEOREM FetchBackpressure == Spec => []Backpressure
<1>1. Init => Room /\ Counted /\ TypeOK /\ ChildAtWork
  BY RoomInit, CountedInit, TypeInit
<1>2. Room /\ Counted /\ TypeOK /\ ChildAtWork /\ [Next]_vars
         => Room' /\ Counted' /\ TypeOK' /\ ChildAtWork'
  BY RoomStep, TypeStep
<1>3. Room /\ Counted => Backpressure
  BY RoomType DEF Room, Backpressure
<1> QED
  BY <1>1, <1>2, <1>3, PTL DEF Spec

-----------------------------------------------------------------------------
(* Files hold what was packed. *)

\* The steps in which unzip.sh leaves archive/ alone.
LEMMA UnzipDeletes ==
    ASSUME UnzipType, UnzipStep
    PROVE  \/ UNCHANGED archiveDir
           \/ \E a \in Name : DeleteFile(a) /\ (a \in Completed => Remove /\ a = current)
<1>1. CASE Tidy
  BY <1>1 DEF Tidy, Unfinished, UnzipType
<1>2. CASE UnzipExit
  BY <1>2, Constants DEF UnzipExit
<1>3. CASE Remove
  BY <1>3, Constants DEF Remove, UnzipType
<1>4. CASE ~Tidy /\ ~UnzipExit /\ ~Remove
  BY <1>4 DEF UnzipStep, UnzipAlone, UnzipStart, TidyEnds, Scan, Pick, ScanEnds, Extract,
              MoveFile, MoveEnds
<1> QED
  BY <1>1, <1>2, <1>3, <1>4

LEMMA VisitedStep ==
    ASSUME UnzipType, Visited, [Next]_vars
    PROVE  Visited'
<1> USE DEF Visited
<1>1. CASE UNCHANGED <<upc, names, current>> /\ archive \cap Completed \subseteq archive'
  BY <1>1 DEF UnzipType
<1>2. CASE UnzipStep
  <2>1. CASE UNCHANGED archiveDir
    BY <1>2, <2>1 DEF archiveDir, UnzipStep, UnzipAlone, UnzipStart, Tidy, TidyEnds, Scan,
           UnzipExit, Pick, Unpackable, ScanEnds, Extract, MoveFile, MoveEnds, Remove, UnzipType
  <2>2. CASE Tidy
    BY <2>2, Constants DEF Tidy, DeleteFile, Unfinished, archiveDir
  <2>3. CASE UnzipExit
    BY <2>3, Constants DEF UnzipExit, DeleteFile
  <2>4. CASE Remove
    BY <2>4 DEF Remove, DeleteFile, UnzipType
  <2> QED
    BY <1>2, <2>1, <2>2, <2>3, <2>4 DEF UnzipStep, UnzipAlone, UnzipStart, TidyEnds, Scan, Pick,
           ScanEnds, Extract, MoveFile, MoveEnds
<1>3. CASE ChildStep
  <2>1. UNCHANGED uvars
    BY <1>3 DEF ChildStep, SendCreate, CreateEnds, NoAnswer, Scp, Rename, RenameFails, DeleteRemote
  <2>2. archive \cap Completed \subseteq archive'
    BY <1>3 DEF ChildStep, SendCreate, CreateEnds, NoAnswer, Scp, Rename, RenameFails,
           DeleteRemote, PutFile, archiveDir, Completed
  <2> QED
    BY <1>1, <2>1, <2>2 DEF uvars
<1>4. CASE MainStep
  <2>1. UNCHANGED uvars /\ archive \subseteq archive'
    BY <1>4 DEF MainStep, MoveCompletedArchives, ListObservers, NextObserver, PassEnds, CountFiles,
           LeaveObserver, ForkCreate, handle_sigchld, Wait, CreateReturned, DownloadReturned,
           LeaveLoop, SignalUnzip, PutFile, archiveDir
  <2> QED
    BY <1>1, <2>1 DEF uvars
<1>5. CASE Restart
  BY <1>5 DEF Restart
<1>6. ASSUME NEW i \in DOMAIN cmds, CrayStep(i) PROVE UNCHANGED <<archiveDir, uvars>>
  BY <1>6 DEF CrayStep, ListOut, TarUp, MvArch, CatOut, RmOut, CmdFails, OnCray
<1>7. CASE (\E t \in Tar : Arrive(t)) \/ Interrupt \/ UNCHANGED vars
  BY <1>1, <1>7 DEF Arrive, Interrupt, vars, uvars, archiveDir
<1> QED
  BY <1>1, <1>2, <1>3, <1>4, <1>5, <1>6, <1>7 DEF Next, uvars, archiveDir

LEMMA FilesStep ==
    ASSUME ArchiveType, UnzipType, CrayType, MainType, ChildAtWork, Files, [Next]_vars
    PROVE  Files'
<1> USE DEF Files
<1>1. ASSUME NEW i \in DOMAIN cmds, CrayStep(i) PROVE Files'
  <2>1. UNCHANGED <<archiveDir, results>>
    BY <1>1 DEF CrayStep, ListOut, TarUp, MvArch, CatOut, RmOut, CmdFails, OnCray
  <2>2. cmds[i] \in Cmd
    BY Element DEF CrayType, Cmd
  <2>3. /\ \A k \in {"out", "arch", "done"} : <<k, cmds[i].num>> \in RemoteName
        /\ Pending(cmds[i].observer) \subseteq results
    BY <2>2, Constants DEF Cmd, Pending
  <2>4. /\ \A f \in RemoteName \ remote' : packed'[f] = {}
        /\ \A f \in RemoteName : packed'[f] \subseteq results
        /\ listed' \subseteq results
    <3> USE DEF CrayType
    <3>1. CASE ListOut(i)
      BY <2>3, <3>1 DEF ListOut, Put
    <3>2. CASE TarUp(i)
      BY <2>3, <3>2 DEF TarUp, Put
    <3>3. CASE MvArch(i)
      BY <2>3, <3>3 DEF MvArch
    <3>4. CASE CatOut(i)
      BY <2>3, <3>4 DEF CatOut
    <3>5. CASE RmOut(i)
      BY <2>3, <3>5 DEF RmOut
    <3>6. CASE CmdFails(i)
      BY <3>6 DEF CmdFails
    <3> QED
      BY <1>1, <3>1, <3>2, <3>3, <3>4, <3>5, <3>6 DEF CrayStep
  <2> QED
    BY <2>1, <2>4 DEF archiveDir
<1>2. CASE ChildStep
  <2>1. num \in Num /\ <<"done", num>> \in Name /\ <<"done", num>> \in RemoteName
    BY <1>2, Constants DEF ChildStep, SendCreate, CreateEnds, NoAnswer, Scp, Rename, RenameFails,
           DeleteRemote, ChildAtWork
  <2>2. UNCHANGED <<results, listed>>
    BY <1>2 DEF ChildStep, SendCreate, CreateEnds, NoAnswer, Scp, Rename, RenameFails,
           DeleteRemote, cray
  <2>3. \A a \in Name \ archive' : content'[a] = {}
    BY <1>2, <2>1 DEF ChildStep, SendCreate, CreateEnds, NoAnswer, Scp, Rename, RenameFails,
           DeleteRemote, PutFile, archiveDir, ArchiveType
  <2>4. /\ \A f \in RemoteName \ remote' : packed'[f] = {}
        /\ \A f \in RemoteName : packed'[f] \subseteq results
    BY <1>2, <2>1 DEF ChildStep, SendCreate, CreateEnds, NoAnswer, Scp, Rename, RenameFails,
           DeleteRemote, cray, CrayType
  <2> QED
    BY <2>2, <2>3, <2>4
<1>3. CASE MainStep
  <2>1. UNCHANGED <<results, listed>>
    BY <1>3 DEF MainStep, MoveCompletedArchives, ListObservers, NextObserver, PassEnds, CountFiles,
           LeaveObserver, ForkCreate, handle_sigchld, Wait, CreateReturned, DownloadReturned,
           LeaveLoop, SignalUnzip, cray
  <2>2. \A a \in Name \ archive' : content'[a] = {}
    BY <1>3 DEF MainStep, MoveCompletedArchives, ListObservers, NextObserver, PassEnds, CountFiles,
           LeaveObserver, ForkCreate, handle_sigchld, Wait, CreateReturned, DownloadReturned,
           LeaveLoop, SignalUnzip, archiveDir, PutFile, ArchiveType
  <2>3. /\ \A f \in RemoteName \ remote' : packed'[f] = {}
        /\ \A f \in RemoteName : packed'[f] \subseteq results
    BY <1>3 DEF MainStep, MoveCompletedArchives, ListObservers, NextObserver, PassEnds, CountFiles,
           LeaveObserver, ForkCreate, handle_sigchld, Wait, CreateReturned, DownloadReturned,
           LeaveLoop, SignalUnzip, cray, CrayType
  <2> QED
    BY <2>1, <2>2, <2>3
<1>4. CASE UnzipStep
  <2>1. UNCHANGED cray
    BY <1>4 DEF UnzipStep, UnzipFrame
  <2>2. \A a \in Name \ archive' : content'[a] = {}
    BY <1>4, UnzipDeletes DEF DeleteFile, archiveDir, ArchiveType
  <2> QED
    BY <2>1, <2>2 DEF cray
<1>5. CASE (\E t \in Tar : Arrive(t)) \/ Interrupt \/ Restart \/ UNCHANGED vars
  BY <1>5 DEF Arrive, Interrupt, Restart, vars, cray, archiveDir
<1> QED
  BY <1>1, <1>2, <1>3, <1>4, <1>5 DEF Next

-----------------------------------------------------------------------------
(* Numbers. *)

\* A command takes a step, or fails, and keeps its number; the others stay as they are.
LEMMA CrayMoves ==
    ASSUME CrayType, NEW i \in DOMAIN cmds, CrayStep(i)
    PROVE  /\ Len(cmds') = Len(cmds) /\ DOMAIN cmds' = DOMAIN cmds
           /\ \A j \in DOMAIN cmds : cmds'[j].num = cmds[j].num
           /\ \A j \in DOMAIN cmds \ {i} : cmds'[j].at = cmds[j].at
           /\ cmds[i].num \in Num
           /\ \/ cmds[i].at = "head" /\ cmds'[i].at = "tar" /\ ListOut(i)
              \/ cmds[i].at = "tar" /\ cmds'[i].at = "mv" /\ TarUp(i)
              \/ cmds[i].at = "mv" /\ cmds'[i].at = "cat" /\ MvArch(i)
              \/ cmds[i].at = "cat" /\ cmds'[i].at = "rm" /\ CatOut(i)
              \/ cmds[i].at = "rm" /\ cmds'[i].at = "ok" /\ RmOut(i)
              \/ /\ cmds[i].at \in {"head", "tar", "mv", "cat", "rm"} /\ cmds'[i].at = "failed"
                 /\ CmdFails(i)
<1>1. cmds[i] \in Cmd /\ cmds \in Seq(Cmd)
  BY Element DEF CrayType, Cmd
<1>2. ASSUME NEW at, Advance(i, at)
      PROVE  /\ Len(cmds') = Len(cmds) /\ DOMAIN cmds' = DOMAIN cmds
             /\ \A j \in DOMAIN cmds : cmds'[j].num = cmds[j].num
             /\ \A j \in DOMAIN cmds \ {i} : cmds'[j].at = cmds[j].at
             /\ cmds'[i].at = at
  BY <1>1, <1>2 DEF Advance, Cmd
<1> QED
  BY <1>1, <1>2 DEF CrayStep, ListOut, TarUp, MvArch, CatOut, RmOut, CmdFails, Cmd

LEMMA RestartHappens == Counted /\ Restart => Happened("restart")'
<1> SUFFICES ASSUME Counted, Restart PROVE Happened("restart")'
  OBVIOUS
<1>1. "restart" \in FaultKinds /\ Failing("restart")
  BY DEF Restart, FaultKinds
<1>2. Times("restart")' = Times("restart") + 1 /\ Times("restart") \in Nat
  BY <1>1, FaultCounts DEF Counted
<1> QED
  BY <1>2 DEF Happened

LEMMA CmdNumbersStep ==
    ASSUME CrayType, MainType, ChildType, ChildAtWork, CmdNumbers, [Next]_vars, ~Restart
    PROVE  CmdNumbers'
<1> USE DEF CmdNumbers, Latest
<1>1. CASE UNCHANGED <<cmds, num, mpc, child>>
  BY <1>1 DEF child
<1>2. ASSUME NEW i \in DOMAIN cmds, CrayStep(i) PROVE CmdNumbers'
  <2>1. UNCHANGED <<mpc, num, cpc, cexit>>
    BY <1>2 DEF CrayStep, ListOut, TarUp, MvArch, CatOut, RmOut, CmdFails, OnCray, mvars, child
  <2>2. Len(cmds) \in DOMAIN cmds \/ Len(cmds) = 0
    BY DEF CrayType
  <2> QED
    BY <1>2, <2>1, <2>2, CrayMoves
<1>3. CASE SendCreate
  <2>1. UNCHANGED <<mpc, num>> /\ cpc = "ssh" /\ cpc' = "answer"
    BY <1>3 DEF SendCreate, mvars
  <2>2. cmds \in Seq(Cmd) /\ cmds' \in Seq(Cmd)
    BY <1>3, <2>1, Constants DEF SendCreate, CrayType, Cmd, MainType, CmdAt, ChildAtWork
  <2>3. /\ Len(cmds') = Len(cmds) + 1 /\ cmds'[Len(cmds')].num = num
        /\ \A i \in DOMAIN cmds : cmds'[i] = cmds[i]
        /\ \A i \in DOMAIN cmds' : i \in DOMAIN cmds \/ i = Len(cmds')
        /\ \A i \in DOMAIN cmds : i < Len(cmds')
    BY <1>3, <2>2 DEF SendCreate
  <2>4. num \in Nat
    BY Constants DEF MainType
  <2>5. \A i \in DOMAIN cmds' : cmds'[i].num <= num
    BY <2>1, <2>3, <2>4
  <2>6. \A i, j \in DOMAIN cmds' : i < j => cmds'[i].num < cmds'[j].num
    <3> SUFFICES ASSUME NEW i \in DOMAIN cmds', NEW j \in DOMAIN cmds', i < j
                 PROVE  cmds'[i].num < cmds'[j].num
      OBVIOUS
    <3>1. Len(cmds') \in Nat /\ i \in Nat /\ j \in Nat
      BY <2>2
    <3>2. i \in DOMAIN cmds
      BY <2>3, <3>1
    <3>3. CASE j \in DOMAIN cmds
      BY <2>3, <3>2, <3>3
    <3>4. CASE j = Len(cmds')
      BY <2>1, <2>3, <3>2, <3>4
    <3> QED
      BY <2>3, <3>3, <3>4
  <2> QED
    BY <2>1, <2>2, <2>3, <2>5, <2>6
<1>4. CASE ChildStep /\ ~SendCreate
  <2>1. UNCHANGED <<cmds, num, mpc>>
    BY <1>4 DEF ChildStep, CreateEnds, NoAnswer, Scp, Rename, RenameFails, DeleteRemote, mvars, cray
  <2>2. cpc' \notin {"ssh", "answer"}
    BY <1>4 DEF ChildStep, CreateEnds, NoAnswer, Scp, Rename, RenameFails, DeleteRemote, ChildEnds
  <2> QED
    BY <2>1, <2>2
<1>5. CASE ForkCreate
  <2>1. num' = num + 1 /\ cpc' = "ssh" /\ cmds' = cmds
    BY <1>5 DEF ForkCreate, cray
  <2>2. \A i \in DOMAIN cmds : cmds[i].num \in Nat /\ num \in Nat
    <3>1. \A i \in DOMAIN cmds : cmds[i] \in Cmd
      BY Element DEF CrayType, Cmd
    <3> QED
      BY <3>1, Constants DEF MainType, Cmd
  <2> QED
    BY <2>1, <2>2
<1>6. CASE CreateReturned
  <2>1. UNCHANGED <<cmds, num>> /\ cpc' # "ssh" /\ cpc' # "answer"
    BY <1>6 DEF CreateReturned, cray
  <2> QED
    BY <2>1
<1>7. CASE MainStep /\ ~ForkCreate /\ ~CreateReturned
  <2>1. UNCHANGED <<cmds, num>>
    BY <1>7 DEF MainStep, MoveCompletedArchives, ListObservers, NextObserver, PassEnds, CountFiles,
           LeaveObserver, handle_sigchld, Wait, DownloadReturned, LeaveLoop, SignalUnzip, cray,
           mvars
  <2>2. cpc' \in {cpc, "none", "reaped"}
    BY <1>7 DEF MainStep, MoveCompletedArchives, ListObservers, NextObserver, PassEnds, CountFiles,
           LeaveObserver, handle_sigchld, Wait, DownloadReturned, LeaveLoop, SignalUnzip, child
  <2> QED
    BY <2>1, <2>2
<1>8. CASE UnzipStep \/ (\E t \in Tar : Arrive(t)) \/ Interrupt \/ UNCHANGED vars
  BY <1>1, <1>8 DEF UnzipStep, UnzipFrame, Arrive, Interrupt, vars, cray, mvars
<1> QED
  BY <1>2, <1>3, <1>4, <1>5, <1>6, <1>7, <1>8 DEF Next

LEMMA RemoteNumbersStep ==
    ASSUME CrayType, MainType, ChildAtWork, RemoteNumbers, [Next]_vars
    PROVE  RemoteNumbers'
<1> USE DEF RemoteNumbers
<1>1. ASSUME NEW i \in DOMAIN cmds, CrayStep(i) PROVE RemoteNumbers'
  <2>1. ASSUME NEW f \in remote
        PROVE  \E j \in DOMAIN cmds' :
                  /\ cmds'[j].num = f[2]
                  /\ f[1] = "done" => cmds'[j].at \in {"cat", "rm", "ok", "failed"}
    <3>1. PICK j \in DOMAIN cmds : /\ cmds[j].num = f[2]
                                   /\ f[1] = "done" => cmds[j].at \in {"cat", "rm", "ok", "failed"}
      BY <2>1
    <3>2. j \in DOMAIN cmds' /\ cmds'[j].num = f[2]
      BY <1>1, <3>1, CrayMoves
    <3>3. f[1] = "done" => cmds'[j].at \in {"cat", "rm", "ok", "failed"}
      BY <1>1, <3>1, CrayMoves
    <3> QED
      BY <3>2, <3>3
  <2>2. ASSUME NEW f \in remote', f \notin remote
        PROVE  f[2] = cmds[i].num /\ (f[1] = "done" => cmds'[i].at = "cat")
    <3>1. CASE ListOut(i) \/ TarUp(i)
      BY <2>2, <3>1 DEF ListOut, TarUp, Put
    <3>2. CASE MvArch(i) /\ cmds'[i].at = "cat"
      BY <2>2, <3>2 DEF MvArch
    <3>3. CASE CatOut(i) \/ RmOut(i) \/ CmdFails(i)
      BY <2>2, <3>3 DEF CatOut, RmOut, CmdFails
    <3> QED
      BY <1>1, <3>1, <3>2, <3>3, CrayMoves
  <2> QED
    BY <1>1, <2>1, <2>2, CrayMoves
<1>2. CASE SendCreate
  <2>1. cmds \in Seq(Cmd) /\ remote' = remote
    BY <1>2 DEF SendCreate, CrayType, Cmd
  <2>2. \A i \in DOMAIN cmds : i \in DOMAIN cmds' /\ cmds'[i] = cmds[i]
    BY <1>2, <2>1 DEF SendCreate
  <2> QED
    BY <2>1, <2>2
<1>3. CASE cmds' = cmds /\ remote' \subseteq remote
  BY <1>3
<1>4. CASE ChildStep /\ ~SendCreate
  BY <1>3, <1>4 DEF ChildStep, CreateEnds, NoAnswer, Scp, Rename, RenameFails, DeleteRemote, cray
<1>5. CASE MainStep
  BY <1>3, <1>5 DEF MainStep, MoveCompletedArchives, ListObservers, NextObserver, PassEnds,
         CountFiles, LeaveObserver, ForkCreate, handle_sigchld, Wait, CreateReturned,
         DownloadReturned, LeaveLoop, SignalUnzip, cray
<1>6. CASE UnzipStep \/ Restart \/ (\E t \in Tar : Arrive(t)) \/ Interrupt \/ UNCHANGED vars
  BY <1>3, <1>6 DEF UnzipStep, UnzipFrame, Restart, Arrive, Interrupt, vars, cray
<1> QED
  BY <1>1, <1>2, <1>4, <1>5, <1>6 DEF Next

LEMMA ArchiveNumbersStep ==
    ASSUME MainType, UnzipType, ChildType, ChildAtWork, ArchiveNumbers, [Next]_vars, ~Restart
    PROVE  ArchiveNumbers'
<1> USE DEF ArchiveNumbers, Creating, Downloading
<1>1. CASE UNCHANGED <<num, mpc, cpc>> /\ archive' \subseteq archive
  BY <1>1
<1>2. CASE Scp \/ Rename
  <2>1. num \in Num /\ num' = num /\ mpc' = mpc /\ ~Creating
    BY <1>2 DEF Scp, Rename, ChildAtWork, mvars
  <2>2. \A n \in Num : n \in Nat /\ num \in Nat
    BY <2>1, Constants
  <2> SUFFICES ASSUME NEW n \in Num
               PROVE  /\ <<"completed", n>> \in archive' =>
                             n <= num /\ (cpc' \in {"scp", "rename"} => n < num)
                      /\ <<"done", n>> \in archive' => n <= num /\ (cpc' = "scp" => n < num)
    BY <2>1
  <2>3. CASE Scp
    <3>1. /\ <<"completed", n>> \in archive' => <<"completed", n>> \in archive
          /\ <<"done", n>> \in archive' => <<"done", n>> \in archive \/ n = num
          /\ cpc = "scp" /\ cpc' = "rename"
      BY <2>3 DEF Scp, PutFile, archiveDir
    <3> QED
      BY <2>1, <2>2, <3>1
  <2>4. CASE Rename
    <3>1. /\ <<"completed", n>> \in archive' => <<"completed", n>> \in archive \/ n = num
          /\ <<"done", n>> \in archive' => <<"done", n>> \in archive
          /\ cpc = "rename" /\ cpc' = "delete"
      BY <2>4 DEF Rename
    <3> QED
      BY <2>1, <2>2, <3>1
  <2> QED
    BY <1>2, <2>3, <2>4
<1>3. CASE ChildStep /\ ~Scp /\ ~Rename
  <2>1. UNCHANGED <<archive, num, mpc>> /\ cpc' \notin {"scp", "rename"}
    BY <1>3 DEF ChildStep, SendCreate, CreateEnds, NoAnswer, RenameFails, DeleteRemote, ChildEnds,
           archiveDir, mvars
  <2>2. Creating' <=> Creating
    BY <2>1
  <2>3. SUFFICES ASSUME NEW n \in Num
                 PROVE  /\ <<"completed", n>> \in archive => n <= num /\ (Creating => n < num)
                        /\ <<"done", n>> \in archive => n <= num /\ (Creating => n < num)
    BY <2>1, <2>2
  <2> QED
    OBVIOUS
<1>4. CASE ForkCreate
  <2>1. num' = num + 1 /\ archive' = archive /\ num \in Nat
    BY <1>4, Constants DEF ForkCreate, archiveDir, MainType
  <2>2. \A n \in Num : n \in Nat /\ (n <= num => n < num' /\ n <= num')
    BY <2>1, Constants
  <2>3. \A n \in Num : <<"completed", n>> \in archive' => n < num' /\ n <= num'
    BY <2>1, <2>2
  <2>4. \A n \in Num : <<"done", n>> \in archive' => n < num' /\ n <= num'
    BY <2>1, <2>2
  <2> QED
    BY <2>3, <2>4
<1>5. CASE CreateReturned
  <2>1. num' = num /\ archive' = archive /\ Creating
    BY <1>5 DEF CreateReturned, archiveDir
  <2> QED
    BY <2>1
<1>6. CASE MainStep /\ ~ForkCreate /\ ~CreateReturned
  <2>1. archive' \subseteq archive \cup {Exit} /\ num' = num
    BY <1>6 DEF MainStep, MoveCompletedArchives, ListObservers, NextObserver, PassEnds, CountFiles,
           LeaveObserver, handle_sigchld, Wait, DownloadReturned, LeaveLoop, SignalUnzip, PutFile,
           archiveDir, mvars
  <2>2. cpc' \in {cpc, "none", "reaped"} /\ (Creating' => Creating)
    BY <1>6 DEF MainStep, MoveCompletedArchives, ListObservers, NextObserver, PassEnds, CountFiles,
           LeaveObserver, handle_sigchld, Wait, DownloadReturned, LeaveLoop, SignalUnzip, child,
           mvars
  <2> QED
    BY <2>1, <2>2 DEF Exit
<1>7. ASSUME NEW i \in DOMAIN cmds, CrayStep(i) PROVE UNCHANGED <<archiveDir, num, mpc, cpc>>
  BY <1>7 DEF CrayStep, ListOut, TarUp, MvArch, CatOut, RmOut, CmdFails, OnCray, mvars, child
<1>8. CASE UnzipStep
  <2>1. UNCHANGED <<num, mpc, cpc>>
    BY <1>8 DEF UnzipStep, UnzipFrame, mvars, child
  <2>2. archive' \subseteq archive
    BY <1>8, UnzipDeletes DEF DeleteFile, archiveDir
  <2> QED
    BY <1>1, <2>1, <2>2
<1>9. CASE (\E t \in Tar : Arrive(t)) \/ Interrupt \/ UNCHANGED vars
  BY <1>1, <1>9 DEF Arrive, Interrupt, vars, archiveDir, mvars, child
<1> QED
  BY <1>1, <1>2, <1>3, <1>4, <1>5, <1>6, <1>7, <1>8, <1>9 DEF Next, archiveDir

LEMMA MadeStep ==
    ASSUME UnzipType, CrayType, MainType, ChildAtWork, RemoteNumbers, ArchiveNumbers, Made,
           [Next]_vars, ~Restart
    PROVE  Made'
<1> USE DEF Made, Fetched
<1> DEFINE Past == {"cat", "rm", "ok", "failed"}
\* The commands only go on, and no step but the child's own brings an archive under its name.
<1>1. ASSUME UNCHANGED <<num, cpc>>, archive' \subseteq archive \cup {Exit},
             \A i \in DOMAIN cmds : /\ i \in DOMAIN cmds' /\ cmds'[i].num = cmds[i].num
                                    /\ cmds[i].at \in Past => cmds'[i].at \in Past
      PROVE  Made'
  <2> SUFFICES ASSUME Fetched'
               PROVE  \E i \in DOMAIN cmds' : cmds'[i].num = num /\ cmds'[i].at \in Past
    BY <1>1
  <2>1. Fetched
    BY <1>1 DEF Exit
  <2>2. PICK i \in DOMAIN cmds : cmds[i].num = num /\ cmds[i].at \in Past
    BY <2>1
  <2>3. i \in DOMAIN cmds' /\ cmds'[i].num = num /\ cmds'[i].at \in Past
    BY <1>1, <2>2
  <2> QED
    BY <2>3
<1>2. ASSUME NEW i \in DOMAIN cmds, CrayStep(i) PROVE Made'
  <2>1. UNCHANGED <<archiveDir, mvars, child>>
    BY <1>2 DEF CrayStep, ListOut, TarUp, MvArch, CatOut, RmOut, CmdFails, OnCray
  <2> QED
    BY <1>1, <1>2, <2>1, CrayMoves DEF archiveDir, mvars, child
<1>3. CASE Scp
  <2>1. num \in Num /\ cpc = "scp"
    BY <1>3 DEF Scp, ChildAtWork
  <2>2. <<"done", num>> \notin archive
    <3>1. num \in Nat
      BY <2>1, Constants
    <3>2. ASSUME <<"done", num>> \in archive PROVE num < num
      BY <2>1, <3>2 DEF ArchiveNumbers
    <3> QED
      BY <3>1, <3>2
  <2>3. UNCHANGED <<num, cmds>> /\ cpc' = "rename"
    BY <1>3 DEF Scp, mvars, cray
  <2>4. <<"done", num>> \in archive' => <<"done", num>> \in remote
    BY <1>3, <2>2 DEF Scp, archiveDir
  <2>5. <<"done", num>> \in remote =>
            \E i \in DOMAIN cmds : cmds[i].num = num /\ cmds[i].at \in Past
    BY DEF RemoteNumbers
  <2> QED
    BY <2>3, <2>4, <2>5
<1>4. CASE Rename
  BY <1>4 DEF Rename, mvars, cray
<1>5. CASE ChildStep /\ ~Scp /\ ~Rename
  <2>1. cpc' \notin {"rename", "delete"}
    BY <1>5 DEF ChildStep, SendCreate, CreateEnds, NoAnswer, RenameFails, DeleteRemote, ChildEnds
  <2> QED
    BY <2>1
<1>6. CASE MainStep
  <2>1. cpc' \in {"rename", "delete"} => UNCHANGED <<cpc, num, archive, cmds>>
    BY <1>6 DEF MainStep, MoveCompletedArchives, ListObservers, NextObserver, PassEnds, CountFiles,
           LeaveObserver, ForkCreate, handle_sigchld, Wait, CreateReturned, DownloadReturned,
           LeaveLoop, SignalUnzip, cray, child, mvars, archiveDir, ChildAtWork, Creating,
           Downloading
  <2> QED
    BY <2>1
<1>7. CASE UnzipStep
  <2>1. UNCHANGED <<num, cpc, cmds>>
    BY <1>7 DEF UnzipStep, UnzipFrame, mvars, child, cray
  <2>2. archive' \subseteq archive
    BY <1>7, UnzipDeletes DEF DeleteFile, archiveDir
  <2> QED
    BY <1>1, <2>1, <2>2
<1>8. CASE (\E t \in Tar : Arrive(t)) \/ Interrupt \/ UNCHANGED vars
  <2>1. UNCHANGED <<num, cpc, cmds, archive>>
    BY <1>8 DEF Arrive, Interrupt, vars, archiveDir, mvars, child, cray
  <2> QED
    BY <1>1, <2>1
<1> QED
  BY <1>2, <1>3, <1>4, <1>5, <1>6, <1>7, <1>8 DEF Next

LEMMA NumbersInit == Init => Files /\ Visited /\ Numbers
<1> SUFFICES ASSUME Init PROVE Files /\ Visited /\ Numbers
  OBVIOUS
<1>1. Files /\ Visited
  BY DEF Init, UnzipInit, Files, Visited
<1>2. CmdNumbers /\ RemoteNumbers /\ ArchiveNumbers /\ Made
  BY DEF Init, UnzipInit, CmdNumbers, RemoteNumbers, ArchiveNumbers, Made, Fetched
<1> QED
  BY <1>1, <1>2 DEF Numbers

LEMMA NumbersStep ==
    ASSUME TypeOK, Counted, ChildAtWork, Numbers, [Next]_vars
    PROVE  Numbers'
<1> SUFFICES ASSUME ~Happened("restart")'
             PROVE  CmdNumbers' /\ RemoteNumbers' /\ ArchiveNumbers' /\ Made'
  BY DEF Numbers
<1>1. ~Restart /\ ~Happened("restart")
  BY CountedStep, RestartHappens DEF FaultKinds
<1>2. UnzipType /\ CrayType /\ MainType /\ ChildType
  BY TypeParts
<1> QED
  BY <1>1, <1>2, CmdNumbersStep, RemoteNumbersStep, ArchiveNumbersStep, MadeStep DEF Numbers

-----------------------------------------------------------------------------
(* Handover. *)

LEMMA Undamaged ==
    ASSUME Counted, [Next]_vars, ~Damaged'
    PROVE  /\ ~Damaged /\ ~Happened("restart") /\ ~Restart
           /\ \A kind \in {"scp", "tar", "mv"} : ~Failing(kind)
<1>1. \A kind \in {"scp", "tar", "mv", "restart"} : ~Happened(kind)' /\ kind \in FaultKinds
  BY DEF Damaged, FaultKinds
<1>2. \A kind \in {"scp", "tar", "mv", "restart"} : ~Happened(kind)
  BY <1>1, CountedStep
<1>3. ASSUME NEW kind \in {"scp", "tar", "mv"}, Failing(kind) PROVE FALSE
  <2>1. Times(kind)' = Times(kind) + 1 /\ Times(kind) \in Nat
    BY <1>1, <1>3, FaultCounts DEF Counted
  <2> QED
    BY <1>1, <2>1 DEF Happened
<1> QED
  BY <1>1, <1>2, <1>3, RestartHappens DEF Damaged

\* A command touches no file with another number.
LEMMA CrayLocal ==
    ASSUME CrayType, NEW i \in DOMAIN cmds, CrayStep(i),
           NEW f \in RemoteName, f[2] # cmds[i].num
    PROVE  packed'[f] = packed[f] /\ (f \in remote' <=> f \in remote)
<1>1. /\ f # <<"out", cmds[i].num>> /\ f # <<"arch", cmds[i].num>>
      /\ f # <<"done", cmds[i].num>>
  OBVIOUS
<1> USE <1>1 DEF CrayType
<1>2. CASE ListOut(i)
  BY <1>2 DEF ListOut, Put
<1>3. CASE TarUp(i)
  BY <1>3 DEF TarUp, Put
<1>4. CASE MvArch(i)
  BY <1>4 DEF MvArch
<1>5. CASE CatOut(i) \/ RmOut(i) \/ CmdFails(i)
  BY <1>5 DEF CatOut, RmOut, CmdFails
<1> QED
  BY <1>2, <1>3, <1>4, <1>5 DEF CrayStep

\* Two commands have two numbers.
LEMMA NumbersDiffer ==
    ASSUME CrayType, CmdNumbers, NEW i \in DOMAIN cmds, NEW j \in DOMAIN cmds, i # j
    PROVE  cmds[i].num # cmds[j].num
<1>1. i \in Nat /\ j \in Nat
  BY DEF CrayType
<1>2. cmds[i] \in Cmd /\ cmds[j] \in Cmd
  BY Element DEF CrayType, Cmd
<1>3. cmds[i].num \in Nat /\ cmds[j].num \in Nat
  BY <1>2, Constants DEF Cmd
<1> QED
  BY <1>1, <1>3 DEF CmdNumbers

LEMMA LocalGrows ==
    ASSUME Unpacked \subseteq Unpacked',
           \A a \in archive \cap Completed : \A t \in content[a] :
               CsvOf[t] \subseteq Unpacked' \/ \E b \in archive' \cap Completed : t \in content'[b]
    PROVE  LocalHeld \subseteq LocalHeld'
<1> SUFFICES ASSUME NEW c \in LocalHeld PROVE c \in LocalHeld'
  OBVIOUS
<1>1. CASE c \in Unpacked
  BY <1>1 DEF LocalHeld
<1>2. ASSUME NEW a \in archive \cap Completed, NEW t \in content[a], c \in CsvOf[t]
      PROVE  c \in LocalHeld'
  BY <1>2 DEF LocalHeld, FilesOf, TarsIn
<1> QED
  BY <1>1, <1>2 DEF LocalHeld, FilesOf, TarsIn

LEMMA HeldGrows ==
    ASSUME LocalHeld \subseteq LocalHeld',
           aside \subseteq aside',
           \A f \in remote : f[1] = "done" => \A t \in packed[f] :
               \/ CsvOf[t] \subseteq LocalHeld'
               \/ t \in aside'
               \/ f \in remote' /\ t \in packed'[f]
    PROVE  Held \subseteq Held'
<1>1. LocalHeld' \subseteq Held'
  BY DEF LocalHeld, Held, FilesOf, TarsIn, Unpacked
<1> SUFFICES ASSUME NEW c \in Held PROVE c \in Held'
  OBVIOUS
<1>2. CASE c \in LocalHeld
  BY <1>1, <1>2
<1>3. ASSUME NEW t \in aside, c \in CsvOf[t] PROVE c \in Held'
  BY <1>3 DEF Held, FilesOf
<1>4. ASSUME NEW f \in remote, f[1] = "done", NEW t \in packed[f], c \in CsvOf[t]
      PROVE  c \in Held'
  <2>1. CASE CsvOf[t] \subseteq LocalHeld'
    BY <1>1, <1>4, <2>1
  <2>2. CASE t \in aside'
    BY <1>4, <2>2 DEF Held, FilesOf
  <2>3. CASE f \in remote' /\ t \in packed'[f]
    BY <1>4, <2>3 DEF Held, FilesOf, TarsIn
  <2> QED
    BY <1>4, <2>1, <2>2, <2>3
<1>5. c \in LocalHeld \/ (\E t \in aside : c \in CsvOf[t])
        \/ (\E f \in remote : f[1] = "done" /\ \E t \in packed[f] : c \in CsvOf[t])
  BY DEF LocalHeld, Held, FilesOf, TarsIn, Unpacked
<1> QED
  BY <1>2, <1>3, <1>4, <1>5

\* A command gives up nothing that is held: the archive that mv makes has a new name.
LEMMA CrayHeld ==
    ASSUME CrayType, Unmixed, NEW i \in DOMAIN cmds, CrayStep(i)
    PROVE  Held \subseteq Held' /\ LocalHeld \subseteq LocalHeld'
<1>1. UNCHANGED <<archive, content, unpacked, aside>>
  BY DEF CrayStep, ListOut, TarUp, MvArch, CatOut, RmOut, CmdFails, OnCray, archiveDir, uvars
<1>2. ASSUME NEW f \in remote, f[1] = "done" PROVE f \in remote' /\ packed'[f] = packed[f]
  <2>1. f \in RemoteName /\ f = <<"done", f[2]>>
    BY <1>2 DEF CrayType, RemoteName
  <2>2. CASE f[2] # cmds[i].num
    BY <2>1, <2>2, CrayLocal
  <2>3. CASE f[2] = cmds[i].num
    <3>1. ~MvArch(i)
      BY <2>1, <2>3 DEF Unmixed
    <3> QED
      BY <1>2, <2>1, <3>1 DEF CrayStep, ListOut, TarUp, CatOut, RmOut, CmdFails, Put, CrayType
  <2> QED
    BY <2>2, <2>3
<1>3. LocalHeld \subseteq LocalHeld'
  BY <1>1, LocalGrows DEF Unpacked
<1> QED
  BY <1>1, <1>2, <1>3, HeldGrows

\* The child deletes an archive on the Cray when it is on the local disk, and rename replaces
\* none.
LEMMA ChildHeld ==
    ASSUME ArchiveType, CrayType, MainType, ChildAtWork, Unmixed, DownloadPasses, ChildStep
    PROVE  Held \subseteq Held' /\ LocalHeld \subseteq LocalHeld'
<1>1. UNCHANGED <<unpacked, aside, num>>
  BY DEF ChildStep, SendCreate, CreateEnds, NoAnswer, Scp, Rename, RenameFails, DeleteRemote, uvars,
         cray, mvars
<1>2. num \in Num
  BY DEF ChildStep, SendCreate, CreateEnds, NoAnswer, Scp, Rename, RenameFails, DeleteRemote,
         ChildAtWork
<1>3. <<"done", num>> \in Name /\ <<"completed", num>> \in Completed /\ Completed \subseteq Name
      /\ <<"done", num>> \notin Completed
  BY <1>2, Constants DEF Completed
<1>4. LocalHeld \subseteq LocalHeld'
  <2>1. CASE UNCHANGED archiveDir
    BY <1>1, <2>1, LocalGrows DEF Unpacked, archiveDir
  <2>2. CASE \E tars : PutFile(<<"done", num>>, tars)
    <3>1. \A a \in archive \cap Completed : a \in archive' /\ content'[a] = content[a]
      BY <1>3, <2>2 DEF PutFile, ArchiveType
    <3> QED
      BY <1>1, <3>1, LocalGrows DEF Unpacked
  <2>3. CASE Rename
    <3>1. <<"completed", num>> \notin archive
      BY <2>3 DEF Unmixed
    <3>2. \A a \in archive \cap Completed : a \in archive' /\ content'[a] = content[a]
      BY <1>3, <2>3, <3>1 DEF Rename, ArchiveType
    <3> QED
      BY <1>1, <3>2, LocalGrows DEF Unpacked
  <2> QED
    BY <2>1, <2>2, <2>3 DEF ChildStep, SendCreate, CreateEnds, NoAnswer, Scp, RenameFails,
                            DeleteRemote, archiveDir
<1>5. CASE UNCHANGED <<remote, packed>>
  BY <1>1, <1>4, <1>5, HeldGrows
<1>6. CASE DeleteRemote
  <2>1. \A t \in packed[<<"done", num>>] : CsvOf[t] \subseteq LocalHeld'
    BY <1>4, <1>6 DEF DeleteRemote, DownloadPasses, FilesOf
  <2>2. \A f \in remote \ {<<"done", num>>} : f \in remote' /\ packed'[f] = packed[f]
    BY <1>6 DEF DeleteRemote, CrayType
  <2> QED
    BY <1>1, <1>4, <2>1, <2>2, HeldGrows
<1> QED
  BY <1>4, <1>5, <1>6 DEF ChildStep, SendCreate, CreateEnds, NoAnswer, Scp, Rename, RenameFails,
         cray

\* Main moves archives out of the way and gives up none.
LEMMA MainHeld ==
    ASSUME ArchiveType, CrayType, MainStep
    PROVE  Held \subseteq Held' /\ LocalHeld \subseteq LocalHeld'
<1>1. unpacked' = unpacked
  BY DEF MainStep, MoveCompletedArchives, ListObservers, NextObserver, PassEnds, CountFiles,
         LeaveObserver, ForkCreate, handle_sigchld, Wait, CreateReturned, DownloadReturned,
         LeaveLoop, SignalUnzip, uvars
<1>2. UNCHANGED archiveDir \/ PutFile(Exit, {})
  BY DEF MainStep, MoveCompletedArchives, ListObservers, NextObserver, PassEnds, CountFiles,
         LeaveObserver, ForkCreate, handle_sigchld, Wait, CreateReturned, DownloadReturned,
         LeaveLoop, SignalUnzip
<1>3. \A a \in archive \cap Completed : a \in archive' /\ content'[a] = content[a]
  BY <1>2, Constants DEF PutFile, ArchiveType, archiveDir
<1>4. LocalHeld \subseteq LocalHeld'
  BY <1>1, <1>3, LocalGrows DEF Unpacked
<1>5. CASE UNCHANGED <<remote, packed, aside>>
  BY <1>4, <1>5, HeldGrows
<1>6. CASE ~UNCHANGED <<remote, packed, aside>>
  <2> DEFINE left == {f \in remote : f[1] = "done"}
  <2>1. aside' = aside \cup UNION {packed[f] : f \in left}
    BY <1>6 DEF MainStep, MoveCompletedArchives, ListObservers, NextObserver, PassEnds, CountFiles,
           LeaveObserver, ForkCreate, handle_sigchld, Wait, CreateReturned, DownloadReturned,
           LeaveLoop, SignalUnzip, cray
  <2> QED
    BY <1>4, <2>1, HeldGrows
<1> QED
  BY <1>4, <1>5, <1>6

\* unzip.sh removes an archive when what is in it is in csv/.
LEMMA UnzipHeld ==
    ASSUME ArchiveType, UnzipType, UnzipPasses, UnzipStep
    PROVE  Held \subseteq Held' /\ LocalHeld \subseteq LocalHeld'
<1>1. UNCHANGED <<remote, packed, aside>>
  BY DEF UnzipStep, UnzipFrame, cray
<1>2. Unpacked \subseteq Unpacked'
  BY DEF UnzipStep, UnzipAlone, UnzipStart, Tidy, TidyEnds, Scan, UnzipExit, Pick, ScanEnds,
         Extract, MoveFile, MoveEnds, Remove, Unpacked, UnzipType
<1>3. CASE UNCHANGED archiveDir
  BY <1>1, <1>2, <1>3, LocalGrows, HeldGrows DEF archiveDir
<1>4. ASSUME NEW a \in Name, DeleteFile(a), a \in Completed => Remove /\ a = current
      PROVE  Held \subseteq Held' /\ LocalHeld \subseteq LocalHeld'
  <2>1. \A b \in archive \ {a} : b \in archive' /\ content'[b] = content[b]
    BY <1>4 DEF DeleteFile, ArchiveType
  <2>2. a \in Completed => \A t \in content[a] : CsvOf[t] \subseteq Unpacked'
    BY <1>2, <1>4 DEF Remove, UnzipPasses, FilesOf
  <2>3. LocalHeld \subseteq LocalHeld'
    BY <1>2, <2>1, <2>2, LocalGrows
  <2> QED
    BY <1>1, <2>3, HeldGrows
<1> QED
  BY <1>3, <1>4, UnzipDeletes

LEMMA CrayPasses ==
    ASSUME CrayType, MainType, ChildAtWork, Unmixed, Held \subseteq Held', CommandPasses,
           NEW i \in DOMAIN cmds, CrayStep(i)
    PROVE  CommandPasses'
<1> SUFFICES ASSUME NEW j \in DOMAIN cmds
             PROVE  /\ cmds'[j].at = "mv" =>
                           packed'[<<"arch", cmds[j].num>>] = packed'[<<"out", cmds[j].num>>]
                    /\ cmds'[j].at = "cat" => FilesOf(packed'[<<"out", cmds[j].num>>]) \subseteq Held'
  BY CrayMoves DEF CommandPasses, FilesOf
<1>1. cmds[j].num \in Num
  <2>1. cmds[j] \in Cmd
    BY Element DEF CrayType, Cmd
  <2> QED
    BY <2>1 DEF Cmd
<1>2. CASE j # i /\ cmds[j].at \notin {"ok", "failed"}
  <2>1. cmds[j].num # cmds[i].num /\ cmds'[j].at = cmds[j].at
    BY <1>2, CrayMoves DEF Unmixed
  <2>2. /\ packed'[<<"arch", cmds[j].num>>] = packed[<<"arch", cmds[j].num>>]
        /\ packed'[<<"out", cmds[j].num>>] = packed[<<"out", cmds[j].num>>]
    BY <1>1, <2>1, CrayLocal, Constants
  <2> QED
    BY <2>1, <2>2 DEF CommandPasses
<1>3. CASE j = i /\ TarUp(i)
  BY <1>1, <1>3, CrayMoves, Constants DEF TarUp, Put, CrayType
<1>4. CASE j = i /\ MvArch(i)
  <2> DEFINE n == cmds[i].num
  <2>1. cmds[i].at = "mv" /\ cmds'[i].at # "mv"
    BY <1>4, CrayMoves DEF MvArch
  <2>2. /\ packed'[<<"out", n>>] = packed[<<"out", n>>]
        /\ packed'[<<"done", n>>] = packed[<<"arch", n>>] /\ <<"done", n>> \in remote'
    BY <1>1, <1>4, Constants DEF MvArch, CrayType
  <2>3. packed[<<"arch", n>>] = packed[<<"out", n>>]
    BY <2>1 DEF CommandPasses
  <2>4. packed'[<<"out", n>>] = packed'[<<"done", n>>]
    BY <2>2, <2>3
  <2>5. FilesOf(packed'[<<"out", n>>]) \subseteq Held'
    BY <2>2, <2>4 DEF Held, FilesOf, TarsIn
  <2> QED
    BY <1>4, <2>1, <2>5
<1>5. CASE j = i /\ ~TarUp(i) /\ ~MvArch(i)
  BY <1>5, CrayMoves
<1>6. CASE j # i /\ cmds[j].at \in {"ok", "failed"}
  BY <1>6, CrayMoves
<1> QED
  BY <1>2, <1>3, <1>4, <1>5, <1>6

\* Whoever is not on the Cray leaves the lists and the archives under construction alone.
LEMMA CommandPassesKept ==
    ASSUME CrayType, Held \subseteq Held', CommandPasses,
           \A f \in RemoteName : f[1] # "done" => packed'[f] = packed[f],
           cmds' = cmds \/ SendCreate
    PROVE  CommandPasses'
<1> SUFFICES ASSUME NEW j \in DOMAIN cmds', cmds'[j].at \in {"mv", "cat"}
             PROVE  /\ cmds'[j].at = "mv" =>
                           packed'[<<"arch", cmds'[j].num>>] = packed'[<<"out", cmds'[j].num>>]
                    /\ cmds'[j].at = "cat" => FilesOf(packed'[<<"out", cmds'[j].num>>]) \subseteq Held'
  BY DEF CommandPasses, FilesOf
<1>1. j \in DOMAIN cmds /\ cmds'[j] = cmds[j]
  BY DEF SendCreate, CrayType
<1>2. cmds[j].num \in Num
  <2>1. cmds[j] \in Cmd
    BY <1>1, Element DEF CrayType, Cmd
  <2> QED
    BY <2>1 DEF Cmd
<1>3. /\ packed'[<<"arch", cmds[j].num>>] = packed[<<"arch", cmds[j].num>>]
      /\ packed'[<<"out", cmds[j].num>>] = packed[<<"out", cmds[j].num>>]
  BY <1>2, Constants
<1> QED
  BY <1>1, <1>3 DEF CommandPasses

LEMMA ChildPasses ==
    ASSUME ArchiveType, CrayType, MainType, ChildAtWork, Files, Unmixed, DownloadPasses,
           LocalHeld \subseteq LocalHeld', ~Failing("scp"), ChildStep
    PROVE  DownloadPasses'
<1> DEFINE done == <<"done", num>>
           completed == <<"completed", num>>
<1>1. num \in Num /\ num' = num
  BY DEF ChildStep, SendCreate, CreateEnds, NoAnswer, Scp, Rename, RenameFails, DeleteRemote,
         ChildAtWork, mvars
<1>2. done \in Name /\ completed \in Completed /\ completed \in Name /\ done \in RemoteName
  BY <1>1, Constants DEF Completed
<1>3. CASE Scp
  <2>1. done \notin archive \/ ~Failing("ssh")
    BY <1>3 DEF Unmixed
  <2>2. cpc' = "rename" /\ packed' = packed
    BY <1>3 DEF Scp, cray
  <2>3. done \in archive' => packed[done] \subseteq content'[done]
    BY <1>2, <1>3, <2>1 DEF Scp, PutFile, archiveDir, ArchiveType, Files
  <2> QED
    BY <1>1, <2>2, <2>3 DEF DownloadPasses
<1>4. CASE Rename
  <2>1. cpc' = "delete" /\ packed' = packed /\ packed[done] \subseteq content[done]
    BY <1>4 DEF Rename, cray, DownloadPasses
  <2>2. completed \in archive' /\ content'[completed] = content[done]
    BY <1>2, <1>4 DEF Rename, ArchiveType
  <2>3. FilesOf(packed'[done]) \subseteq LocalHeld'
    BY <1>2, <2>1, <2>2 DEF LocalHeld, FilesOf, TarsIn
  <2> QED
    BY <1>1, <2>1, <2>3 DEF DownloadPasses, FilesOf
<1>5. CASE ChildStep /\ ~Scp /\ ~Rename
  <2>1. cpc' \notin {"rename", "delete"}
    BY <1>5 DEF ChildStep, SendCreate, CreateEnds, NoAnswer, RenameFails, DeleteRemote, ChildEnds
  <2> QED
    BY <2>1 DEF DownloadPasses
<1> QED
  BY <1>3, <1>4, <1>5

\* Nobody else changes what the child downloads or has downloaded.
LEMMA DownloadPassesKept ==
    ASSUME DownloadPasses, LocalHeld \subseteq LocalHeld',
           cpc' \in {"rename", "delete"} => cpc' = cpc /\ num' = num,
           Fetched' => packed'[<<"done", num>>] = packed[<<"done", num>>],
           cpc' = "rename" /\ <<"done", num>> \in archive' =>
               /\ <<"done", num>> \in archive
               /\ content'[<<"done", num>>] = content[<<"done", num>>]
    PROVE  DownloadPasses'
  BY DEF DownloadPasses, FilesOf, Fetched

LEMMA UnzipPassesStep ==
    ASSUME ArchiveType, UnzipType, UnzipPasses, UnzipStep, ~Failing("tar"), ~Failing("mv")
    PROVE  UnzipPasses'
<1>1. CASE Extract
  BY <1>1 DEF Extract, UnzipPasses, archiveDir, FilesOf
<1>2. CASE \E c \in Csv : MoveFile(c)
  <2>1. UNCHANGED <<upc, current, content>> /\ upc = "move"
    BY <1>2 DEF MoveFile, archiveDir
  <2>2. tmp \cup Unpacked \subseteq tmp' \cup Unpacked'
    BY <1>2 DEF MoveFile, Unpacked, UnzipType
  <2> QED
    BY <2>1, <2>2 DEF UnzipPasses, FilesOf
<1>3. CASE MoveEnds
  BY <1>3 DEF MoveEnds, UnzipPasses, archiveDir, FilesOf, Unpacked
<1>4. CASE UnzipStep /\ ~Extract /\ ~MoveEnds /\ ~(\E c \in Csv : MoveFile(c))
  <2>1. upc' \notin {"move", "remove"}
    BY <1>4 DEF UnzipStep, UnzipAlone, UnzipStart, Tidy, TidyEnds, Scan, UnzipExit, Pick, ScanEnds,
           Remove
  <2> QED
    BY <2>1 DEF UnzipPasses
<1> QED
  BY <1>1, <1>2, <1>3, <1>4

\* Nobody else changes the archive that unzip.sh works on.
LEMMA UnzipPassesKept ==
    ASSUME UnzipPasses, UNCHANGED uvars,
           upc \in {"move", "remove"} => content'[current] = content[current]
    PROVE  UnzipPasses'
  BY DEF UnzipPasses, uvars, FilesOf, Unpacked

LEMMA PassedInit == Init => Passed
  BY DEF Init, UnzipInit, Passed, Passes, CommandPasses, DownloadPasses, UnzipPasses

\* The types, the sources of the archives, and what unzip.sh works on.
Shape ==
    /\ ArchiveType /\ UnzipType /\ CrayType /\ MainType /\ ChildType
    /\ ChildAtWork /\ Files /\ Visited

\* As long as no archives are mixed up, nothing that is held is given up.
LEMMA HeldKept ==
    ASSUME Shape, Passes, Unmixed, [Next]_vars
    PROVE  Held \subseteq Held' /\ LocalHeld \subseteq LocalHeld'
<1>1. CASE UNCHANGED <<archiveDir, unpacked, remote, packed, aside>>
  BY <1>1, LocalGrows, HeldGrows DEF Unpacked, archiveDir
<1>2. CASE (\E t \in Tar : Arrive(t)) \/ Interrupt \/ Restart \/ UNCHANGED vars
  BY <1>1, <1>2 DEF Arrive, Interrupt, Restart, vars, cray, uvars
<1> QED
  BY <1>2, CrayHeld, ChildHeld, MainHeld, UnzipHeld DEF Next, Shape, Passes

LEMMA PassesStep ==
    ASSUME Shape, Passes, Unmixed, [Next]_vars,
           ~Failing("scp"), ~Failing("tar"), ~Failing("mv")
    PROVE  Passes'
<1> SUFFICES CommandPasses' /\ DownloadPasses' /\ UnzipPasses'
  BY DEF Passes
<1>1. ~Failing("scp") /\ ~Failing("tar") /\ ~Failing("mv") /\ Unmixed
  OBVIOUS
<1>2. /\ ArchiveType /\ UnzipType /\ CrayType /\ MainType /\ ChildType
      /\ ChildAtWork /\ CommandPasses /\ DownloadPasses /\ UnzipPasses /\ Files /\ Visited
  BY DEF Shape, Passes
<1>3. Held \subseteq Held' /\ LocalHeld \subseteq LocalHeld'
  BY HeldKept
<1>4. ASSUME NEW i \in DOMAIN cmds, CrayStep(i)
      PROVE  CommandPasses' /\ DownloadPasses' /\ UnzipPasses'
  <2>1. UNCHANGED <<archiveDir, uvars, mvars, child>>
    BY <1>4 DEF CrayStep, ListOut, TarUp, MvArch, CatOut, RmOut, CmdFails, OnCray
  <2>2. Fetched' => packed'[<<"done", num>>] = packed[<<"done", num>>]
    <3> SUFFICES ASSUME Fetched PROVE packed'[<<"done", num>>] = packed[<<"done", num>>]
      BY <2>1 DEF child, mvars, archiveDir, Fetched
    <3>1. num \in Num /\ <<"done", num>> \in RemoteName
      BY <1>2, Constants DEF ChildAtWork, Fetched
    <3>2. CASE cmds[i].num # num
      BY <1>2, <1>4, <3>1, <3>2, CrayLocal
    <3>3. CASE cmds[i].num = num
      <4>1. ~MvArch(i)
        BY <1>4, <3>3 DEF Unmixed
      <4> QED
        BY <1>2, <1>4, <3>1, <4>1 DEF CrayStep, ListOut, TarUp, CatOut, RmOut, CmdFails, Put,
               CrayType
    <3> QED
      BY <3>2, <3>3
  <2>3. DownloadPasses'
    BY <1>2, <1>3, <2>1, <2>2, DownloadPassesKept DEF child, mvars, archiveDir
  <2>4. UnzipPasses'
    BY <1>2, <2>1, UnzipPassesKept DEF archiveDir
  <2> QED
    BY <1>1, <1>2, <1>3, <1>4, <2>3, <2>4, CrayPasses
<1>5. CASE ChildStep
  <2>1. num \in Num
    BY <1>2, <1>5 DEF ChildStep, SendCreate, CreateEnds, NoAnswer, Scp, Rename, RenameFails,
           DeleteRemote, ChildAtWork
  <2>2. \A f \in RemoteName : f[1] # "done" => packed'[f] = packed[f]
    BY <1>2, <1>5 DEF ChildStep, SendCreate, CreateEnds, NoAnswer, Scp, Rename, RenameFails,
           DeleteRemote, cray, CrayType
  <2>3. cmds' = cmds \/ SendCreate
    BY <1>5 DEF ChildStep, CreateEnds, NoAnswer, Scp, Rename, RenameFails, DeleteRemote, cray
  <2>4. CommandPasses'
    BY <1>2, <1>3, <2>2, <2>3, CommandPassesKept
  <2>5. DownloadPasses'
    BY <1>1, <1>2, <1>3, <1>5, ChildPasses
  <2>6. UNCHANGED uvars
    BY <1>5 DEF ChildStep, SendCreate, CreateEnds, NoAnswer, Scp, Rename, RenameFails, DeleteRemote
  <2>7. upc \in {"move", "remove"} => content'[current] = content[current]
    <3> SUFFICES ASSUME upc \in {"move", "remove"} PROVE content'[current] = content[current]
      OBVIOUS
    <3>1. current \in archive /\ current \in Completed
      BY <1>2 DEF Visited, UnzipType
    <3>2. current # <<"done", num>> /\ current \in Name
      BY <3>1, Constants DEF Completed
    <3>3. Rename => current # <<"completed", num>>
      BY <3>1 DEF Unmixed
    <3> QED
      BY <1>2, <1>5, <3>2, <3>3 DEF ChildStep, SendCreate, CreateEnds, NoAnswer, Scp, Rename,
             RenameFails, DeleteRemote, PutFile, archiveDir, ArchiveType
  <2> QED
    BY <1>2, <2>4, <2>5, <2>6, <2>7, UnzipPassesKept
<1>6. CASE MainStep
  <2>1. \A f \in RemoteName : f[1] # "done" => packed'[f] = packed[f]
    BY <1>2, <1>6 DEF MainStep, MoveCompletedArchives, ListObservers, NextObserver, PassEnds,
           CountFiles, LeaveObserver, ForkCreate, handle_sigchld, Wait, CreateReturned,
           DownloadReturned, LeaveLoop, SignalUnzip, cray, CrayType
  <2>2. cmds' = cmds
    BY <1>6 DEF MainStep, MoveCompletedArchives, ListObservers, NextObserver, PassEnds, CountFiles,
           LeaveObserver, ForkCreate, handle_sigchld, Wait, CreateReturned, DownloadReturned,
           LeaveLoop, SignalUnzip, cray
  <2>3. CommandPasses'
    BY <1>2, <1>3, <2>1, <2>2, CommandPassesKept
  <2>4. cpc' \in {"rename", "delete"} => UNCHANGED <<cpc, num, packed, archive, content>>
    BY <1>2, <1>6 DEF MainStep, MoveCompletedArchives, ListObservers, NextObserver, PassEnds,
           CountFiles, LeaveObserver, ForkCreate, handle_sigchld, Wait, CreateReturned,
           DownloadReturned, LeaveLoop, SignalUnzip, cray, child, archiveDir, ChildAtWork,
           Creating, Downloading
  <2>5. DownloadPasses'
    BY <1>2, <1>3, <2>4, DownloadPassesKept DEF Fetched
  <2>6. UNCHANGED uvars /\ (UNCHANGED archiveDir \/ PutFile(Exit, {}))
    BY <1>6 DEF MainStep, MoveCompletedArchives, ListObservers, NextObserver, PassEnds, CountFiles,
           LeaveObserver, ForkCreate, handle_sigchld, Wait, CreateReturned, DownloadReturned,
           LeaveLoop, SignalUnzip
  <2>7. upc \in {"move", "remove"} => content'[current] = content[current]
    BY <1>2, <2>6, Constants DEF UnzipType, PutFile, ArchiveType, archiveDir
  <2> QED
    BY <1>2, <2>3, <2>5, <2>6, <2>7, UnzipPassesKept
<1>7. CASE UnzipStep
  <2>1. UNCHANGED <<cray, mvars, child>>
    BY <1>7 DEF UnzipStep, UnzipFrame
  <2>2. CommandPasses'
    BY <1>2, <1>3, <2>1, CommandPassesKept DEF cray
  <2>3. \A a \in archive' : a \in archive /\ content'[a] = content[a]
    BY <1>2, <1>7, UnzipDeletes DEF DeleteFile, archiveDir, ArchiveType
  <2>4. DownloadPasses'
    BY <1>2, <1>3, <2>1, <2>3, DownloadPassesKept DEF cray, mvars, child
  <2> QED
    BY <1>1, <1>2, <1>7, <2>2, <2>4, UnzipPassesStep
<1>8. CASE (\E t \in Tar : Arrive(t)) \/ Interrupt \/ UNCHANGED vars
  <2>1. UNCHANGED <<archiveDir, uvars, mvars, child, remote, packed, cmds>>
    BY <1>8 DEF Arrive, Interrupt, vars, cray
  <2>2. CommandPasses'
    BY <1>2, <1>3, <2>1, CommandPassesKept
  <2>3. DownloadPasses'
    BY <1>2, <1>3, <2>1, DownloadPassesKept DEF mvars, child, archiveDir
  <2>4. UnzipPasses'
    BY <1>2, <2>1, UnzipPassesKept DEF archiveDir
  <2> QED
    BY <2>2, <2>3, <2>4
<1>9. CASE Restart
  <2>1. /\ UNCHANGED <<archiveDir, unpacked, remote, packed, cmds>>
        /\ cpc' = "none" /\ upc' = "start"
    BY <1>9 DEF Restart, cray
  <2>2. CommandPasses'
    BY <1>2, <1>3, <2>1, CommandPassesKept
  <2> QED
    BY <2>1, <2>2 DEF DownloadPasses, UnzipPasses
<1> QED
  BY <1>4, <1>5, <1>6, <1>7, <1>8, <1>9 DEF Next

\* What the handover rests on.
HandoverInv == TypeOK /\ Counted /\ ChildAtWork /\ Files /\ Visited /\ Numbers /\ Passed

LEMMA HandoverShape == HandoverInv => Shape
  BY TypeParts DEF HandoverInv, Shape

\* In the first run of the program every number stands for one archive.
LEMMA NumbersUnmixed ==
    ASSUME Shape, CmdNumbers, RemoteNumbers, ArchiveNumbers, Made
    PROVE  Unmixed
<1> USE DEF Shape
<1>1. ASSUME NEW i \in DOMAIN cmds, CrayStep(i)
      PROVE  /\ \A j \in DOMAIN cmds \ {i} : cmds[j].num # cmds[i].num
             /\ MvArch(i) => <<"done", cmds[i].num>> \notin remote
             /\ MvArch(i) /\ Fetched => cmds[i].num # num
  <2>1. \A j \in DOMAIN cmds \ {i} : cmds[j].num # cmds[i].num
    BY NumbersDiffer
  <2>2. ASSUME MvArch(i), <<"done", cmds[i].num>> \in remote PROVE FALSE
    <3>1. PICK j \in DOMAIN cmds : /\ cmds[j].num = cmds[i].num
                                   /\ cmds[j].at \in {"cat", "rm", "ok", "failed"}
      BY <2>2 DEF RemoteNumbers
    <3> QED
      BY <2>1, <2>2, <3>1 DEF MvArch
  <2>3. ASSUME MvArch(i), Fetched, cmds[i].num = num PROVE FALSE
    <3>1. PICK j \in DOMAIN cmds : /\ cmds[j].num = num
                                   /\ cmds[j].at \in {"cat", "rm", "ok", "failed"}
      BY <2>3 DEF Made
    <3> QED
      BY <2>1, <2>3, <3>1 DEF MvArch
  <2> QED
    BY <2>1, <2>2, <2>3
<1>2. ASSUME cpc \in {"rename", "scp"}
      PROVE  <<"completed", num>> \notin archive /\ (cpc = "scp" => <<"done", num>> \notin archive)
  <2>1. num \in Num /\ num \in Nat
    BY <1>2, Constants DEF ChildAtWork
  <2>2. /\ <<"completed", num>> \in archive => num < num
        /\ <<"done", num>> \in archive /\ cpc = "scp" => num < num
    BY <1>2, <2>1 DEF ArchiveNumbers
  <2> QED
    BY <2>1, <2>2
<1>3. (Rename => cpc = "rename") /\ (Scp => cpc = "scp")
  BY DEF Rename, Scp
<1> QED
  BY <1>1, <1>2, <1>3 DEF Unmixed

\* Until tars are lost nothing that is held is given up.
LEMMA HeldStep ==
    ASSUME HandoverInv, [Next]_vars, ~Damaged'
    PROVE  Shape /\ Passes /\ Unmixed /\ Held \subseteq Held'
<1>1. ~Damaged /\ ~Happened("restart")
  BY Undamaged DEF HandoverInv
<1>2. Shape /\ Passes /\ CmdNumbers /\ RemoteNumbers /\ ArchiveNumbers /\ Made
  BY <1>1, HandoverShape DEF HandoverInv, Numbers, Passed
<1> QED
  BY <1>2, NumbersUnmixed, HeldKept

LEMMA PassedStep == ASSUME HandoverInv, [Next]_vars PROVE Passed'
<1> SUFFICES ASSUME ~Damaged' PROVE Passes'
  BY DEF Passed
<1>1. ~Failing("scp") /\ ~Failing("tar") /\ ~Failing("mv")
  BY Undamaged DEF HandoverInv
<1> QED
  BY <1>1, HeldStep, PassesStep

LEMMA HandoverStep == ASSUME HandoverInv, [Next]_vars PROVE HandoverInv'
<1>1. UnzipType /\ ArchiveType /\ CrayType /\ MainType
  BY TypeParts DEF HandoverInv
<1> QED
  BY <1>1, TypeStep, FilesStep, VisitedStep, NumbersStep, PassedStep DEF HandoverInv

\* What a step does to the tars that have still to be packed.
LEMMA Listing ==
    ASSUME CrayType, Files, CommandPasses, [Next]_vars
    PROVE  \/ UNCHANGED <<results, listed>>
           \/ \E t \in Tar :
                /\ results' = results \cup {t} /\ results' \ listed' = (results \ listed) \cup {t}
                /\ UNCHANGED <<unpacked, Held>>
           \/ \E gone \in SUBSET Tar :
                /\ results' = results /\ results' \ listed' = (results \ listed) \ gone
                /\ FilesOf(gone) \subseteq Held
                /\ UNCHANGED <<unpacked, Held>>
<1>2. CrayType /\ Files /\ CommandPasses
  OBVIOUS
<1>4. ASSUME NEW t \in Tar, Arrive(t)
      PROVE  /\ results' = results \cup {t} /\ results' \ listed' = (results \ listed) \cup {t}
             /\ UNCHANGED <<unpacked, Held>>
  <2>1. results' = results \cup {t} /\ listed' = listed /\ t \notin results /\ unpacked' = unpacked
    BY <1>4 DEF Arrive, uvars
  <2>2. Held' = Held
    BY <1>4 DEF Arrive, Held, FilesOf, TarsIn, archiveDir, uvars
  <2> QED
    BY <1>2, <2>1, <2>2 DEF Files
<1>5. ASSUME NEW i \in DOMAIN cmds, CatOut(i)
      PROVE  \E gone \in SUBSET Tar :
                /\ results' = results /\ results' \ listed' = (results \ listed) \ gone
                /\ FilesOf(gone) \subseteq Held
                /\ UNCHANGED <<unpacked, Held>>
  <2> DEFINE out == packed[<<"out", cmds[i].num>>]
  <2>1. out \in SUBSET Tar
    BY <1>2, <1>5 DEF CatOut, CrayType
  <2>2. FilesOf(out) \subseteq Held
    BY <1>2, <1>5 DEF CatOut, CommandPasses
  <2>3. results' = results /\ listed' = listed \cup out /\ unpacked' = unpacked
    BY <1>5 DEF CatOut, OnCray, uvars
  <2>4. Held' = Held
    BY <1>5 DEF CatOut, OnCray, Held, FilesOf, TarsIn, archiveDir, uvars
  <2> HIDE DEF out
  <2>5. results' \ listed' = (results \ listed) \ out
    BY <2>3
  <2> QED
    BY <2>1, <2>2, <2>3, <2>4, <2>5
<1>6. ASSUME NEW i \in DOMAIN cmds, CrayStep(i), ~CatOut(i) PROVE UNCHANGED <<results, listed>>
  BY <1>6 DEF CrayStep, ListOut, TarUp, MvArch, RmOut, CmdFails, OnCray
<1>7. CASE ChildStep
  BY <1>7 DEF ChildStep, SendCreate, CreateEnds, NoAnswer, Scp, Rename, RenameFails, DeleteRemote,
         cray
<1>8. CASE MainStep
  BY <1>8 DEF MainStep, MoveCompletedArchives, ListObservers, NextObserver, PassEnds, CountFiles,
         LeaveObserver, ForkCreate, handle_sigchld, Wait, CreateReturned, DownloadReturned,
         LeaveLoop, SignalUnzip, cray
<1>9. CASE UnzipStep \/ Interrupt \/ Restart \/ UNCHANGED vars
  BY <1>9 DEF UnzipStep, UnzipFrame, Interrupt, Restart, vars, cray
<1> QED
  BY <1>4, <1>5, <1>6, <1>7, <1>8, <1>9 DEF Next

\* Every step is one that a stage may take, or tars have been lost.
LEMMA CustodyStep ==
    ASSUME HandoverInv, [Next]_vars
    PROVE  [Custody!Next \/ Damaged']_(Custody!vars)
<1> SUFFICES ASSUME ~Damaged' PROVE Custody!Next
  OBVIOUS
<1>1. Shape /\ Passes /\ Held \subseteq Held'
  BY HeldStep
<1>2. CASE UNCHANGED <<results, listed>>
  BY <1>1, <1>2 DEF Custody!Next, Custody!Keep
<1>3. ASSUME NEW t \in Tar,
             results' = results \cup {t}, results' \ listed' = (results \ listed) \cup {t},
             UNCHANGED Held
      PROVE  Custody!Next
  BY <1>3 DEF Custody!Next, Custody!Arrive
<1>4. ASSUME NEW gone \in SUBSET Tar, FilesOf(gone) \subseteq Held,
             results' = results, results' \ listed' = (results \ listed) \ gone,
             UNCHANGED Held
      PROVE  Custody!Next
  <2>1. \A t \in gone : CsvOf[t] \subseteq Held
    BY <1>4 DEF FilesOf
  <2>2. Custody!Discard(gone)
    BY <1>4, <2>1 DEF Custody!Discard
  <2> QED
    BY <2>2 DEF Custody!Next
<1> QED
  BY <1>1, <1>2, <1>3, <1>4, Listing DEF Shape, Passes

\* createArchive, downloadArchive, moveCompletedArchives and unzip.sh delete a tar, or an
\* archive, only when the csv files in it are held by the stage that follows, however the
\* program, its children, unzip.sh and the commands on the Cray take turns, and whatever ssh,
\* rename or a command fails: until an unpacking or a copy stops half way or the program is
\* started again, which is when tars do get lost.
THEOREM FetchHandsOver == Spec => HandsOver
<1>1. Init => HandoverInv
  BY TypeInit, CountedInit, NumbersInit, PassedInit DEF HandoverInv
<1>2. Init => Custody!Init
  <2> SUFFICES ASSUME Init PROVE Custody!Init
    OBVIOUS
  <2>1. results = {} /\ remote = {} /\ aside = {} /\ archive = {}
    BY DEF Init, UnzipInit
  <2>2. \A c \in Csv : unpacked[c] = 0
    BY DEF Init, UnzipInit
  <2>3. Held = {}
    BY <2>1, <2>2 DEF Held, FilesOf, TarsIn
  <2> QED
    BY <2>1, <2>3 DEF Custody!Init
<1>3. HandoverInv /\ [Next]_vars => HandoverInv' /\ [Custody!Next \/ Damaged']_(Custody!vars)
  BY HandoverStep, CustodyStep
<1> QED
  BY <1>1, <1>2, <1>3, PTL DEF Spec, HandsOver

-----------------------------------------------------------------------------
(* A csv file is unpacked once. *)

LEMMA OnceKinds ==
    ASSUME Counted, [Next]_vars, ~Happened("restart")', ~Happened("reaped")'
    PROVE  ~Happened("restart") /\ ~Happened("reaped") /\ ~Restart /\ ~Failing("reaped")
<1>1. "restart" \in FaultKinds /\ "reaped" \in FaultKinds
  BY DEF FaultKinds
<1>2. ~Happened("restart") /\ ~Happened("reaped")
  BY <1>1, CountedStep
<1>3. ASSUME Failing("reaped") PROVE FALSE
  <2>1. Times("reaped")' = Times("reaped") + 1 /\ Times("reaped") \in Nat
    BY <1>1, <1>3, FaultCounts DEF Counted
  <2> QED
    BY <2>1 DEF Happened
<1> QED
  BY <1>2, <1>3, RestartHappens

\* Tars that are not marked as done have no csv file on the local disk.
LEMMA UnmarkedFresh ==
    ASSUME Known, NEW tars \in SUBSET (Tar \ listed), listed \subseteq Tar
    PROVE  FilesOf(tars) \cap LocalCsv = {}
<1> SUFFICES ASSUME NEW t \in tars, NEW c \in CsvOf[t], c \in LocalCsv PROVE FALSE
  BY DEF FilesOf
<1>1. PICK u \in listed : c \in CsvOf[u]
  BY DEF Known, FilesOf
<1> QED
  BY <1>1, TarAssumption

LEMMA KnownKept ==
    ASSUME Known, LocalCsv' \subseteq LocalCsv, listed \subseteq listed'
    PROVE  Known'
  BY DEF Known, FilesOf

LEMMA LocalParts ==
    /\ \A a \in Name : FilesOf(content[a]) \subseteq LocalCsv
    /\ tmp \subseteq LocalCsv /\ Unpacked \subseteq LocalCsv
    /\ \A c \in LocalCsv : c \in tmp \cup Unpacked \/ \E a \in Name : c \in FilesOf(content[a])
  BY DEF LocalCsv, FilesOf, TarsIn

LEMMA LocalShrinks ==
    ASSUME \A a \in Name : FilesOf(content'[a]) \subseteq LocalCsv,
           tmp' \subseteq LocalCsv, Unpacked' \subseteq LocalCsv
    PROVE  LocalCsv' \subseteq LocalCsv
<1> SUFFICES ASSUME NEW c \in LocalCsv' PROVE c \in LocalCsv
  OBVIOUS
<1>1. c \in tmp' \/ c \in Unpacked' \/ \E a \in Name : c \in FilesOf(content'[a])
  BY DEF LocalCsv, FilesOf, TarsIn
<1> QED
  BY <1>1

\* archive/ holds less, and unzip.sh works on.
LEMMA ApartKept ==
    ASSUME Apart, \A a \in Name : content'[a] \subseteq content[a],
           UNCHANGED <<tmp, unpacked>>,
           UNCHANGED <<upc, current>>
               \/ upc \notin {"move", "remove"}
               \/ (upc = "move" /\ upc' = "remove" /\ current' = current)
    PROVE  Apart'
<1>1. \A a \in Name : FilesOf(content'[a]) \subseteq FilesOf(content[a])
  BY DEF FilesOf
<1>2. \A a, b \in Name : a # b => FilesOf(content'[a]) \cap FilesOf(content'[b]) = {}
  BY <1>1 DEF Apart
<1>3. \A c \in tmp' \cup Unpacked' : \A a \in Name :
          c \in FilesOf(content'[a]) => a = current' /\ upc' \in {"move", "remove"}
  BY <1>1 DEF Apart, Unpacked
<1>4. \A c \in Csv : unpacked'[c] <= (IF c \in tmp' THEN 0 ELSE 1)
  BY DEF Apart
<1> QED
  BY <1>2, <1>3, <1>4 DEF Apart, FilesOf

\* Nobody but the command itself changes what it has packed.
LEMMA AwaitedKept ==
    ASSUME Marked, Fresh, LocalCsv' \subseteq LocalCsv, UNCHANGED <<cmds, num>>, listed \subseteq listed',
           cpc' # "reaped", Awaited' => Awaited /\ packed' = packed,
           Confirmed' => Confirmed \/ cmds[Len(cmds)].at = "ok"
    PROVE  Marked' /\ Fresh'
<1>1. Awaited' => Awaited /\ packed' = packed /\ Latest /\ Latest'
  BY DEF Fresh, Latest
<1>2. Marked'
  BY <1>1 DEF Marked
<1>3. Fresh'
  BY <1>1 DEF Fresh, FilesOf
<1> QED
  BY <1>2, <1>3

LEMMA CrayOnce ==
    ASSUME CrayType, MainType, ChildAtWork, Alone, OnceParts, NEW i \in DOMAIN cmds, CrayStep(i)
    PROVE  OnceParts'
<1> USE DEF OnceParts
<1> DEFINE n == cmds[i].num
           out == <<"out", num>>
           arch == <<"arch", num>>
           done == <<"done", num>>
           at == cmds[Len(cmds)].at
<1>1. UNCHANGED <<archive, content, upc, current, tmp, unpacked, num, mpc, cpc, cexit>>
  BY DEF CrayStep, ListOut, TarUp, MvArch, CatOut, RmOut, CmdFails, OnCray, archiveDir, uvars,
         mvars, child
<1>2. listed \subseteq listed' /\ listed \subseteq Tar
  BY DEF CrayStep, ListOut, TarUp, MvArch, CatOut, RmOut, CmdFails, CrayType
<1>3. LocalCsv' = LocalCsv
  BY <1>1 DEF LocalCsv, FilesOf, TarsIn, Unpacked
<1>4. Known' /\ Apart'
  BY <1>1, <1>2, <1>3, KnownKept, ApartKept
<1>5. (Awaited' <=> Awaited) /\ (Confirmed' <=> Confirmed)
  BY <1>1 DEF Awaited, Confirmed, Creating
<1>6. ASSUME Awaited
      PROVE  /\ num \in Num /\ Len(cmds) \in DOMAIN cmds /\ cmds[Len(cmds)].num = num
             /\ out \in RemoteName /\ arch \in RemoteName /\ done \in RemoteName
  <2>1. num \in Num
    BY <1>6 DEF Awaited, Confirmed, ChildAtWork
  <2>2. Latest
    BY <1>6 DEF Fresh
  <2> QED
    BY <2>1, <2>2, Constants DEF Latest, CrayType
<1>7. ASSUME Awaited PROVE Latest'
  BY <1>1, <1>6, <1>7, CrayMoves DEF Latest
<1>8. CASE ~Awaited
  BY <1>1, <1>4, <1>5, <1>8 DEF Marked, Fresh, Awaited
<1>9. CASE Awaited /\ i # Len(cmds)
  <2>1. cmds'[Len(cmds')].at = at /\ Len(cmds') = Len(cmds)
    BY <1>6, <1>9, CrayMoves
  <2>2. n # num
    <3>1. cmds[i].at \notin {"ok", "failed"}
      BY CrayMoves
    <3> QED
      BY <1>9, <3>1 DEF Alone
  <2>3. packed'[out] = packed[out] /\ packed'[arch] = packed[arch] /\ packed'[done] = packed[done]
    BY <1>6, <1>9, <2>2, CrayLocal
  <2>4. Marked'
    BY <1>1, <1>2, <1>9, <2>1, <2>3 DEF Marked
  <2>5. Fresh'
    BY <1>1, <1>3, <1>5, <1>7, <1>9, <2>1, <2>3 DEF Fresh, FilesOf
  <2> QED
    BY <1>4, <2>4, <2>5
<1>10. CASE Awaited /\ i = Len(cmds)
  <2> DEFINE new == cmds'[i].at
  <2>1. n = num /\ Len(cmds') = Len(cmds) /\ cmds'[Len(cmds')].at = new /\ at # "ok"
    BY <1>6, <1>10, CrayMoves
  <2>2. ~Confirmed
    BY <1>10, <2>1 DEF Fresh
  <2>3. packed \in [RemoteName -> SUBSET Tar]
    BY DEF CrayType
  <2>4. CASE ListOut(i) /\ new = "tar"
    <3>1. packed'[out] \subseteq Tar \ listed
      BY <1>6, <1>10, <2>1, <2>3, <2>4 DEF ListOut, Put, Pending, CrayType
    <3>2. FilesOf(packed'[out]) \cap LocalCsv = {}
      BY <1>2, <3>1, UnmarkedFresh
    <3> QED
      BY <1>1, <1>3, <1>4, <1>5, <1>7, <1>10, <2>1, <2>2, <2>4, <3>2 DEF Marked, Fresh, FilesOf
  <2>5. CASE TarUp(i) /\ new = "mv"
    <3>1. packed'[arch] = packed[out] /\ packed'[out] = packed[out] /\ at = "tar"
      BY <1>6, <1>10, <2>1, <2>3, <2>5 DEF TarUp, Put
    <3> QED
      BY <1>1, <1>3, <1>4, <1>5, <1>7, <1>10, <2>1, <2>2, <2>5, <3>1 DEF Marked, Fresh, FilesOf
  <2>6. CASE MvArch(i) /\ new = "cat"
    <3>1. packed'[done] = packed[arch] /\ packed'[out] = packed[out] /\ at = "mv"
      BY <1>6, <1>10, <2>1, <2>3, <2>6 DEF MvArch
    <3>2. packed[arch] \subseteq packed[out] /\ FilesOf(packed[out]) \cap LocalCsv = {}
      BY <1>10, <3>1 DEF Marked, Fresh
    <3>3. FilesOf(packed'[done]) \cap LocalCsv = {}
      BY <3>1, <3>2 DEF FilesOf
    <3> QED
      BY <1>1, <1>3, <1>4, <1>5, <1>7, <1>10, <2>1, <2>2, <2>6, <3>1, <3>2, <3>3 DEF Marked, Fresh,
             FilesOf
  <2>7. CASE CatOut(i) /\ new = "rm"
    <3>1. packed' = packed /\ listed' = listed \cup packed[out] /\ at = "cat"
      BY <1>6, <1>10, <2>1, <2>7 DEF CatOut
    <3> QED
      BY <1>1, <1>3, <1>4, <1>5, <1>7, <1>10, <2>1, <2>2, <2>7, <3>1 DEF Marked, Fresh, FilesOf
  <2>8. CASE RmOut(i) /\ new = "ok"
    <3>1. packed'[done] = packed[done] /\ listed' = listed /\ at = "rm"
      BY <1>6, <1>10, <2>1, <2>3, <2>8 DEF RmOut
    <3> QED
      BY <1>1, <1>3, <1>4, <1>5, <1>7, <1>10, <2>1, <2>2, <2>8, <3>1 DEF Marked, Fresh, FilesOf
  <2>9. CASE new = "failed"
    BY <1>1, <1>4, <1>5, <1>7, <1>10, <2>1, <2>2, <2>9 DEF Marked, Fresh
  <2> QED
    BY <2>4, <2>5, <2>6, <2>7, <2>8, <2>9, CrayMoves
<1> QED
  BY <1>8, <1>9, <1>10

\* A command that has just reached the Cray has packed nothing yet.
LEMMA SendOnce ==
    ASSUME CrayType, OnceParts, SendCreate
    PROVE  OnceParts'
<1> USE DEF OnceParts
<1>1. UNCHANGED <<archive, content, upc, current, tmp, unpacked, listed, packed, mpc, num>>
  BY DEF SendCreate, archiveDir, uvars, mvars
<1>2. cpc' = "answer" /\ Latest' /\ cmds'[Len(cmds')].at = "head"
  <2> DEFINE new == [num |-> num, observer |-> observer, at |-> "head"]
  <2>1. cmds' = Append(cmds, new) /\ cpc' = "answer" /\ num' = num
    BY DEF SendCreate, mvars
  <2>2. Len(cmds') = Len(cmds) + 1 /\ cmds'[Len(cmds) + 1] = new /\ Len(cmds) \in Nat
    BY <2>1 DEF CrayType
  <2> QED
    BY <2>1, <2>2 DEF Latest
<1>3. LocalCsv' = LocalCsv
  BY <1>1 DEF LocalCsv, FilesOf, TarsIn, Unpacked
<1>4. Known' /\ Apart'
  BY <1>1, <1>3, KnownKept, ApartKept
<1>5. Marked'
  BY <1>2 DEF Marked
<1>6. Fresh'
  BY <1>2 DEF Fresh, Confirmed, Creating
<1> QED
  BY <1>4, <1>5, <1>6

\* What scp writes is marked as done and is nowhere else.
LEMMA ScpOnce ==
    ASSUME ArchiveType, UnzipType, ChildAtWork, OnceParts, Scp
    PROVE  OnceParts'
<1> USE DEF OnceParts
<1> DEFINE done == <<"done", num>>
<1>1. /\ UNCHANGED <<upc, current, tmp, unpacked, listed, packed, cmds, mpc, num>>
      /\ cpc = "scp" /\ cpc' = "rename" /\ num \in Num
  BY DEF Scp, uvars, cray, mvars, ChildAtWork
<1>2. done \in Name /\ done \notin Completed /\ done \in RemoteName
  BY <1>1, Constants DEF Completed
<1>3. /\ packed[done] \subseteq listed
      /\ FilesOf(packed[done]) \cap LocalCsv = {}
  <2>1. Awaited /\ Confirmed
    BY <1>1 DEF Awaited, Confirmed
  <2> QED
    BY <2>1 DEF Marked, Fresh
<1>4. \/ content' = content
      \/ /\ content'[done] \subseteq packed[done]
         /\ \A a \in Name \ {done} : content'[a] = content[a]
  BY <1>2 DEF Scp, PutFile, archiveDir, ArchiveType
<1>5. FilesOf(content'[done]) \subseteq FilesOf(content[done]) \/ FilesOf(content'[done]) \subseteq FilesOf(packed[done])
  BY <1>4 DEF FilesOf
<1>6. \A a \in Name \ {done} : FilesOf(content'[a]) = FilesOf(content[a])
  BY <1>4
<1>7. Known'
  <2>1. FilesOf(packed[done]) \subseteq FilesOf(listed)
    BY <1>3 DEF FilesOf
  <2>2. \A a \in Name : FilesOf(content'[a]) \subseteq FilesOf(listed)
    BY <1>5, <1>6, <2>1, LocalParts DEF Known
  <2>3. tmp' \subseteq FilesOf(listed) /\ Unpacked' \subseteq FilesOf(listed)
    BY <1>1, LocalParts DEF Known, Unpacked
  <2>4. \A c \in LocalCsv' : c \in tmp' \cup Unpacked' \/ \E a \in Name : c \in FilesOf(content'[a])
    BY DEF LocalCsv, FilesOf, TarsIn
  <2>5. LocalCsv' \subseteq FilesOf(listed)
    BY <2>2, <2>3, <2>4
  <2> QED
    BY <1>1, <2>5 DEF Known, FilesOf
<1>8. Apart'
  <2>1. \A a, b \in Name : a # b => FilesOf(content'[a]) \cap FilesOf(content'[b]) = {}
    <3>1. \A a \in Name \ {done} : FilesOf(content[a]) \cap FilesOf(content'[done]) = {}
      BY <1>2, <1>3, <1>5, LocalParts DEF Apart
    <3> QED
      BY <1>6, <3>1 DEF Apart
  <2>2. \A c \in tmp \cup Unpacked : \A a \in Name :
            c \in FilesOf(content'[a]) => a = current /\ upc \in {"move", "remove"}
    BY <1>2, <1>3, <1>5, <1>6, LocalParts DEF Apart
  <2> QED
    BY <1>1, <2>1, <2>2 DEF Apart, FilesOf, Unpacked
<1>9. ~Awaited' /\ ~Confirmed'
  BY <1>1 DEF Awaited, Confirmed
<1>10. Marked' /\ Fresh'
  BY <1>1, <1>9 DEF Marked, Fresh
<1> QED
  BY <1>7, <1>8, <1>10

LEMMA RenameOnce ==
    ASSUME ArchiveType, UnzipType, ChildAtWork, OnceParts, Rename
    PROVE  OnceParts'
<1> USE DEF OnceParts
<1> DEFINE done == <<"done", num>>
           completed == <<"completed", num>>
<1>1. /\ UNCHANGED <<upc, current, tmp, unpacked, listed, packed, cmds, mpc, num>>
      /\ cpc = "rename" /\ cpc' = "delete" /\ num \in Num
  BY DEF Rename, uvars, cray, mvars, ChildAtWork
<1>2. done \in Name /\ done \notin Completed /\ completed \in Name /\ done # completed
  BY <1>1, Constants DEF Completed
<1>3. /\ content'[completed] = content[done] /\ content'[done] = {}
      /\ \A a \in Name \ {done, completed} : content'[a] = content[a]
  BY <1>2 DEF Rename, ArchiveType
<1>4. FilesOf(content'[done]) = {}
  BY <1>3 DEF FilesOf
<1>5. LocalCsv' \subseteq LocalCsv
  BY <1>1, <1>2, <1>3, <1>4, LocalParts, LocalShrinks DEF Unpacked
<1>6. Known'
  BY <1>1, <1>5, KnownKept
<1>7. Apart'
  <2>1. \A a, b \in Name : a # b => FilesOf(content'[a]) \cap FilesOf(content'[b]) = {}
    <3> SUFFICES ASSUME NEW a \in Name, NEW b \in Name, a # b
                 PROVE  FilesOf(content'[a]) \cap FilesOf(content'[b]) = {}
      OBVIOUS
    <3>1. CASE a = done \/ b = done
      BY <1>4, <3>1
    <3>2. CASE a # done /\ b # done
      BY <1>2, <1>3, <3>2 DEF Apart
    <3> QED
      BY <3>1, <3>2
  <2>2. \A c \in tmp \cup Unpacked : c \notin FilesOf(content[done])
    BY <1>2, Constants DEF Apart, UnzipType
  <2>3. \A c \in tmp \cup Unpacked : \A a \in Name :
            c \in FilesOf(content'[a]) => a = current /\ upc \in {"move", "remove"}
    <3> SUFFICES ASSUME NEW c \in tmp \cup Unpacked, NEW a \in Name, c \in FilesOf(content'[a])
                 PROVE  a = current /\ upc \in {"move", "remove"}
      OBVIOUS
    <3>1. a # done /\ a # completed
      BY <1>3, <1>4, <2>2
    <3> QED
      BY <1>3, <3>1 DEF Apart
  <2> QED
    BY <1>1, <2>1, <2>3 DEF Apart, FilesOf, Unpacked
<1>8. Marked' /\ Fresh'
  BY <1>1 DEF Marked, Fresh, Awaited, Confirmed
<1> QED
  BY <1>6, <1>7, <1>8

\* The other steps of the child add nothing to the local disk.
LEMMA ChildOnce ==
    ASSUME ArchiveType, UnzipType, CrayType, ChildAtWork, OnceParts, ChildStep
    PROVE  OnceParts'
<1>1. CASE ChildStep /\ ~SendCreate /\ ~Scp /\ ~Rename
  <2> USE DEF OnceParts
  <2>1. UNCHANGED <<archive, content, upc, current, tmp, unpacked, listed, cmds, mpc, num>>
    BY <1>1 DEF ChildStep, CreateEnds, NoAnswer, RenameFails, DeleteRemote, archiveDir, uvars, cray,
           mvars
  <2>2. LocalCsv' = LocalCsv
    BY <2>1 DEF LocalCsv, FilesOf, TarsIn, Unpacked
  <2>3. Known' /\ Apart'
    BY <2>1, <2>2, KnownKept, ApartKept
  <2>4. cpc' = "ended"
    BY <1>1 DEF ChildStep, CreateEnds, NoAnswer, RenameFails, DeleteRemote, ChildEnds
  <2>5. ASSUME Awaited'
        PROVE  packed' = packed /\ cpc = "answer" /\ cmds[Len(cmds)].at = "ok"
    <3>1. mpc \in {"create", "waitCreate"} /\ cexit' = 0
      BY <2>1, <2>4, <2>5 DEF Awaited, Confirmed, Creating
    <3>2. CreateEnds
      BY <1>1, <3>1 DEF ChildStep, NoAnswer, RenameFails, DeleteRemote, ChildEnds, ChildAtWork,
                        Creating
    <3> QED
      BY <3>1, <3>2 DEF CreateEnds, ChildEnds, CreateCode, cray
  <2>6. Confirmed' => Awaited'
    BY DEF Awaited
  <2>7. Marked' /\ Fresh'
    BY <2>1, <2>2, <2>4, <2>5, <2>6, AwaitedKept DEF Awaited
  <2> QED
    BY <2>3, <2>7
<1> QED
  BY <1>1, SendOnce, ScpOnce, RenameOnce

\* Main takes the answer "ok" for what it is, and no step of Main adds to archive/ but
\* bb_exit_unzip.
LEMMA MainOnce ==
    ASSUME ArchiveType, ChildAtWork, OnceParts, MainStep, ~Failing("reaped")
    PROVE  OnceParts'
<1> USE DEF OnceParts
<1>1. UNCHANGED <<upc, current, tmp, unpacked, listed, cmds>>
  BY DEF MainStep, MoveCompletedArchives, ListObservers, NextObserver, PassEnds, CountFiles,
         LeaveObserver, ForkCreate, handle_sigchld, Wait, CreateReturned, DownloadReturned,
         LeaveLoop, SignalUnzip, uvars, cray
<1>2. UNCHANGED archiveDir \/ PutFile(Exit, {})
  BY DEF MainStep, MoveCompletedArchives, ListObservers, NextObserver, PassEnds, CountFiles,
         LeaveObserver, ForkCreate, handle_sigchld, Wait, CreateReturned, DownloadReturned,
         LeaveLoop, SignalUnzip
<1>3. \A a \in Name : content'[a] \subseteq content[a]
  BY <1>2 DEF PutFile, archiveDir, ArchiveType
<1>4. LocalCsv' \subseteq LocalCsv
  <2>1. \A a \in Name : FilesOf(content'[a]) \subseteq FilesOf(content[a])
    BY <1>3 DEF FilesOf
  <2> QED
    BY <1>1, <2>1, LocalParts, LocalShrinks DEF Unpacked
<1>5. Known' /\ Apart'
  BY <1>1, <1>3, <1>4, KnownKept, ApartKept
<1>6. CASE CreateReturned
  <2>1. /\ UNCHANGED <<num, packed, cexit>> /\ Creating /\ cpc = "ended"
        /\ \/ cexit = 0 /\ cpc' = "scp"
           \/ cpc' = "none" /\ mpc' = "count"
    BY <1>6 DEF CreateReturned, WaitStatus, Fresh, Creating, cray
  <2>2. (Awaited' => Awaited) /\ (Confirmed' => Confirmed)
    BY <2>1 DEF Awaited, Confirmed
  <2>3. Marked' /\ Fresh'
    BY <1>1, <1>4, <2>1, <2>2, AwaitedKept
  <2> QED
    BY <1>5, <2>3
<1>7. CASE ForkCreate
  <2>1. cpc' = "ssh"
    BY <1>7 DEF ForkCreate
  <2> QED
    BY <1>5, <2>1 DEF Marked, Fresh, Awaited, Confirmed
<1>8. CASE MoveCompletedArchives
  <2>1. cpc' = "none"
    BY <1>8 DEF MoveCompletedArchives, ChildAtWork, Creating, Downloading, child
  <2> QED
    BY <1>5, <2>1 DEF Marked, Fresh, Awaited, Confirmed
<1>9. CASE MainStep /\ ~CreateReturned /\ ~ForkCreate /\ ~MoveCompletedArchives
  <2>1. /\ num' = num /\ (cpc' = cpc \/ cpc' = "none") /\ cexit' = cexit /\ packed' = packed
        /\ (Creating' => Creating)
    BY <1>9 DEF MainStep, ListObservers, NextObserver, PassEnds, CountFiles,
           LeaveObserver, handle_sigchld, Wait, DownloadReturned, LeaveLoop, SignalUnzip, cray,
           child, Creating
  <2>2. (Awaited' => Awaited) /\ (Confirmed' => Confirmed) /\ cpc' # "reaped"
    BY <2>1 DEF Awaited, Confirmed, Fresh
  <2>3. Marked' /\ Fresh'
    BY <1>1, <1>4, <2>1, <2>2, AwaitedKept
  <2> QED
    BY <1>5, <2>3
<1> QED
  BY <1>6, <1>7, <1>8, <1>9

\* unzip.sh moves a csv file from one place to the next.
LEMMA UnzipOnce ==
    ASSUME ArchiveType, UnzipType, OnceParts, UnzipStep
    PROVE  OnceParts'
<1> USE DEF OnceParts
<1>1. UNCHANGED <<listed, packed, cmds, mpc, num, cpc, cexit>>
  BY DEF UnzipStep, UnzipFrame, cray, mvars, child
<1>2. \A a \in Name : content'[a] \subseteq content[a]
  BY UnzipDeletes DEF DeleteFile, archiveDir, ArchiveType
<1>3. \A a \in Name : FilesOf(content'[a]) \subseteq FilesOf(content[a])
  BY <1>2 DEF FilesOf
<1>4. Apart' /\ tmp' \subseteq LocalCsv /\ Unpacked' \subseteq LocalCsv
  <2>1. CASE UnzipStart
    <3>1. /\ UNCHANGED <<content, current, unpacked>> /\ tmp' = {}
          /\ upc = "start"
      BY <2>1 DEF UnzipStart, archiveDir
    <3>2. \A c \in Csv : unpacked[c] <= 1 /\ unpacked[c] \in Nat
      BY DEF Apart, UnzipType
    <3> QED
      BY <3>1, <3>2, LocalParts DEF Apart, Unpacked, FilesOf
  <2>2. CASE Tidy \/ TidyEnds \/ Scan \/ UnzipExit \/ Pick \/ ScanEnds
    <3>1. UNCHANGED <<tmp, unpacked>> /\ upc \notin {"move", "remove"}
      BY <2>2 DEF Tidy, TidyEnds, Scan, UnzipExit, Pick, ScanEnds
    <3> QED
      BY <1>2, <3>1, ApartKept, LocalParts DEF Unpacked
  <2>3. CASE Extract
    <3>1. /\ UNCHANGED <<content, current, unpacked>> /\ upc = "extract" /\ upc' = "move"
          /\ tmp \subseteq tmp' /\ tmp' \subseteq tmp \cup FilesOf(content[current])
      BY <2>3 DEF Extract, archiveDir
    <3>2. current \in Name
      BY <3>1, Constants DEF UnzipType
    <3>3. \A c \in tmp \cup Unpacked : \A a \in Name : c \notin FilesOf(content[a])
      BY <3>1 DEF Apart
    <3>4. \A c \in tmp' \cup Unpacked : \A a \in Name : c \in FilesOf(content[a]) => a = current
      BY <3>1, <3>2, <3>3 DEF Apart
    <3>5. \A c \in Csv : unpacked[c] <= (IF c \in tmp' THEN 0 ELSE 1)
      <4>1. \A c \in Csv : c \in tmp' \ tmp => unpacked[c] = 0
        BY <3>1, <3>2, <3>3 DEF Unpacked, UnzipType
      <4> QED
        BY <3>1, <4>1 DEF Apart
    <3> QED
      BY <3>1, <3>2, <3>4, <3>5, LocalParts DEF Apart, FilesOf, Unpacked
  <2>4. ASSUME NEW c \in Csv, MoveFile(c)
        PROVE  Apart' /\ tmp' \subseteq LocalCsv /\ Unpacked' \subseteq LocalCsv
    <3>1. /\ UNCHANGED <<content, upc, current>> /\ c \in tmp /\ tmp' = tmp \ {c}
          /\ unpacked' = [unpacked EXCEPT ![c] = unpacked[c] + 1]
      BY <2>4 DEF MoveFile, archiveDir
    <3>2. tmp' \cup Unpacked' \subseteq tmp \cup Unpacked
      BY <3>1 DEF Unpacked, UnzipType
    <3>3. \A d \in Csv : unpacked'[d] <= (IF d \in tmp' THEN 0 ELSE 1)
      BY <3>1 DEF Apart, UnzipType
    <3>4. \A d \in tmp' \cup Unpacked' : \A a \in Name :
              d \in FilesOf(content[a]) => a = current /\ upc \in {"move", "remove"}
      BY <3>2 DEF Apart
    <3> QED
      BY <3>1, <3>2, <3>3, <3>4, LocalParts DEF Apart, FilesOf
  <2>5. CASE MoveEnds
    <3>1. UNCHANGED <<content, current, tmp, unpacked>> /\ upc = "move" /\ upc' = "remove"
      BY <2>5 DEF MoveEnds, archiveDir
    <3> QED
      BY <1>2, <3>1, ApartKept, LocalParts DEF Unpacked
  <2>6. CASE Remove
    <3>1. /\ UNCHANGED <<tmp, unpacked>> /\ current \in Name /\ content'[current] = {}
          /\ \A a \in Name \ {current} : content'[a] = content[a]
      BY <2>6, Constants DEF Remove, DeleteFile, UnzipType, ArchiveType
    <3>2. FilesOf(content'[current]) = {}
      BY <3>1 DEF FilesOf
    <3>3. \A c \in tmp \cup Unpacked : \A a \in Name : c \notin FilesOf(content'[a])
      BY <3>1, <3>2 DEF Apart
    <3>4. \A a, b \in Name : a # b => FilesOf(content'[a]) \cap FilesOf(content'[b]) = {}
      BY <1>3 DEF Apart
    <3> QED
      BY <3>1, <3>3, <3>4, LocalParts DEF Apart, FilesOf, Unpacked
  <2> QED
    BY <2>1, <2>2, <2>3, <2>4, <2>5, <2>6 DEF UnzipStep, UnzipAlone
<1>5. LocalCsv' \subseteq LocalCsv
  BY <1>3, <1>4, LocalParts, LocalShrinks
<1>6. Known'
  BY <1>1, <1>5, KnownKept
<1>7. cpc' # "reaped" /\ (Awaited' => Awaited) /\ (Confirmed' => Confirmed)
  BY <1>1 DEF Fresh, Awaited, Confirmed, Creating
<1>8. Marked' /\ Fresh'
  BY <1>1, <1>5, <1>7, AwaitedKept
<1> QED
  BY <1>4, <1>6, <1>8

\* The next run of the program finds the archives and csv files where the last one left them.
LEMMA RestartOnce ==
    ASSUME OnceParts, Restart, upc \notin {"move", "remove"}
    PROVE  OnceParts'
<1> USE DEF OnceParts
<1>1. UNCHANGED <<content, tmp, unpacked, listed>> /\ upc' = "start" /\ cpc' = "none"
  BY DEF Restart, archiveDir, cray
<1>2. LocalCsv' = LocalCsv
  BY <1>1 DEF LocalCsv, FilesOf, TarsIn, Unpacked
<1>3. Known' /\ Apart'
  BY <1>1, <1>2, KnownKept, ApartKept
<1>4. Marked' /\ Fresh'
  BY <1>1 DEF Marked, Fresh, Awaited, Confirmed
<1> QED
  BY <1>3, <1>4

\* No step brings a csv file to a second place, unless the program is started again while
\* unzip.sh works on an archive.
LEMMA OncePartsStep ==
    ASSUME ArchiveType, UnzipType, CrayType, MainType, ChildAtWork, Alone, OnceParts, [Next]_vars,
           ~Failing("reaped"), Restart => upc \notin {"move", "remove"}
    PROVE  OnceParts'
<1>1. CASE (\E t \in Tar : Arrive(t)) \/ Interrupt \/ UNCHANGED vars
  <2>1. UNCHANGED <<content, upc, current, tmp, unpacked, listed, packed, cmds, mpc, num, cpc, cexit>>
    BY <1>1 DEF Arrive, Interrupt, vars, archiveDir, uvars, cray, mvars, child
  <2>2. LocalCsv' = LocalCsv
    BY <2>1 DEF LocalCsv, FilesOf, TarsIn, Unpacked
  <2>3. Known' /\ Apart'
    BY <2>1, <2>2, KnownKept, ApartKept DEF OnceParts
  <2>4. cpc' # "reaped" /\ (Awaited' => Awaited) /\ (Confirmed' => Confirmed)
    BY <2>1 DEF OnceParts, Fresh, Awaited, Confirmed, Creating
  <2>5. Marked' /\ Fresh'
    BY <2>1, <2>2, <2>4, AwaitedKept DEF OnceParts
  <2> QED
    BY <2>3, <2>5 DEF OnceParts
<1> QED
  BY <1>1, RestartOnce, CrayOnce, ChildOnce, MainOnce, UnzipOnce DEF Next

\* What the promise to unpack once rests on.
OnceInv == TypeOK /\ Counted /\ ChildAtWork /\ Files /\ Numbers /\ Once

LEMMA OnceInit == Init => OnceInv /\ OnceParts
<1> SUFFICES ASSUME Init PROVE OnceInv /\ OnceParts
  OBVIOUS
<1>1. /\ content = [a \in Name |-> {}] /\ tmp = {} /\ unpacked = [c \in Csv |-> 0] /\ cmds = <<>>
      /\ cpc = "none"
  BY DEF Init, UnzipInit
<1>2. \A a \in Name : FilesOf(content[a]) = {}
  BY <1>1 DEF FilesOf
<1>3. Unpacked = {} /\ LocalCsv = {}
  BY <1>1, <1>2, LocalParts DEF Unpacked
<1>4. OnceParts
  BY <1>1, <1>2, <1>3 DEF OnceParts, Known, Apart, Marked, Fresh, Awaited, Confirmed
<1> QED
  BY <1>4, TypeInit, CountedInit, NumbersInit DEF OnceInv, Once

\* Until the program is started again a number is that of one command.
LEMMA NumbersAlone ==
    ASSUME CrayType, CmdNumbers, Fresh
    PROVE  Alone
<1> SUFFICES ASSUME Awaited, NEW i \in DOMAIN cmds, i # Len(cmds) PROVE cmds[i].num # num
  BY DEF Alone
<1>1. Latest /\ Len(cmds) \in DOMAIN cmds
  BY DEF Fresh, Latest, CrayType
<1> QED
  BY <1>1, NumbersDiffer DEF Latest

LEMMA OnceStep == ASSUME OnceInv, [Next]_vars PROVE OnceInv'
<1>1. /\ ArchiveType /\ UnzipType /\ CrayType /\ MainType /\ ChildType /\ ChildAtWork /\ Files
  BY TypeParts DEF OnceInv
<1>2. TypeOK' /\ Counted' /\ ChildAtWork' /\ Files' /\ Numbers'
  BY <1>1, TypeStep, FilesStep, NumbersStep DEF OnceInv
<1>3. ASSUME ~Happened("restart")', ~Happened("reaped")' PROVE OnceParts'
  <2>1. /\ ~Happened("restart") /\ ~Happened("reaped") /\ ~Restart /\ ~Failing("reaped")
    BY <1>3, OnceKinds DEF OnceInv
  <2>2. OnceParts /\ Alone
    BY <1>1, <2>1, NumbersAlone DEF OnceInv, Once, OnceParts, Numbers
  <2> QED
    BY <1>1, <2>1, <2>2, OncePartsStep
<1> QED
  BY <1>2, <1>3 DEF OnceInv, Once

\* However answers get lost and however often Main asks again, no csv file reaches csv/ twice:
\* until the program is started again, or handle_sigchld takes an exit status from Main.
THEOREM FetchUnpackedOnce == Spec => []UnpackedOnce
<1>1. OnceInv => UnpackedOnce
  <2> SUFFICES ASSUME OnceInv, ~Happened("restart"), ~Happened("reaped"), NEW c \in Csv
               PROVE  unpacked[c] <= 1
    BY DEF UnpackedOnce
  <2>1. UnzipType /\ Apart
    BY TypeParts DEF OnceInv, Once, OnceParts
  <2> QED
    BY <2>1 DEF Apart, UnzipType
<1> QED
  BY <1>1, OnceInit, OnceStep, PTL DEF Spec
=============================================================================
