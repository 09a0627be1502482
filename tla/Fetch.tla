------------------------------- MODULE Fetch -------------------------------
(***************************************************************************)
(* The remote half of the importer: Main asks the Cray over ssh which tars *)
(* are new, has it pack some of them into an archive, and downloads the    *)
(* archive for unzip.sh.  Packing and downloading run in child processes   *)
(* that SIGINT does not reach.  The Cray keeps, for each observer, a list  *)
(* of the tars that have been packed; a tar on it is never packed again.   *)
(***************************************************************************)
EXTENDS Unzip

CONSTANTS
    Observer,          \* the directories with results on the Cray
    ObserverOf,        \* the one each tar is in
    TarFiles,          \* Config::tarFilesProArchive
    MaxLocalArchives,  \* Config::maxLocalArchives
    MaxRestarts        \* bound: how often the program is started again

\* "sigint": SIGINT reaches Main.  "restart": every local process is killed, or has come to
\* its end, and the program is started again.  "ssh": an ssh does not reach the Cray.
\* "reply": its answer is lost and what it asked for goes on.  "remote": a command fails on
\* the Cray.  "scp": scp ends early.  "fs": the local rename fails.  "opendir": archive/ cannot
\* be listed.  "reaped": a child ends before Main waits for it, and handle_sigchld takes its
\* exit status.

ASSUME FetchAssumption ==
    /\ ObserverOf \in [Tar -> Observer]
    /\ TarFiles \in Nat \ {0} /\ MaxLocalArchives \in Nat \ {0} /\ MaxRestarts \in Nat

\* The files of command n on the Cray: out<n>, bb_archive<n>.tgz and bb_done_archive<n>.tgz.
RemoteName == {"out", "arch", "done"} \X Num

VARIABLES
    results,     \* the tars in remote_results_dir
    listed,      \* the tars in the .done lists
    remote,      \* the files in remote_working_path
    packed,      \* the tars that each of them holds or names
    aside,       \* the tars in completed_but_not_removed/
    cmds,        \* the createArchive commands, in the order they reached the Cray
    mpc,         \* where Main is
    todo,        \* the observers of its list that it has still to visit
    observer,    \* the one it visits
    num,         \* the number of its latest archive
    status,      \* what waitpid stored last
    cpc,         \* where the child is
    cexit,       \* its exit status
    interrupted  \* Main has seen SIGINT

cray == <<results, listed, remote, packed, aside, cmds>>
mvars == <<mpc, todo, observer, num, status>>
child == <<cpc, cexit>>
vars == <<archiveDir, uvars, faults, cray, mvars, child, interrupted>>

CmdAt == {"head", "tar", "mv", "cat", "rm", "ok", "failed"}

TypeOK ==
    /\ UnzipTypeOK
    /\ results \subseteq Tar /\ listed \subseteq Tar /\ aside \subseteq Tar
    /\ remote \subseteq RemoteName
    /\ packed \in [RemoteName -> SUBSET Tar]
    /\ cmds \in Seq([num : Num, observer : Observer, at : CmdAt])
    /\ mpc \in {"start", "list", "observers", "count", "throttle", "create", "waitCreate",
                "download", "waitDownload", "exit", "exited"}
    /\ todo \subseteq Observer /\ observer \in Observer
    /\ num \in 0 .. MaxNum
    /\ status \in {0, 1} /\ cexit \in {0, 1}
    /\ cpc \in {"none", "ssh", "answer", "scp", "rename", "delete", "ended", "reaped"}
    /\ interrupted \in BOOLEAN

Init ==
    /\ UnzipInit
    /\ results = {} /\ listed = {} /\ aside = {}
    /\ remote = {} /\ packed = [f \in RemoteName |-> {}] /\ cmds = <<>>
    /\ mpc = "start" /\ todo = {} /\ observer \in Observer /\ num = 0 /\ status = 0
    /\ cpc = "none" /\ cexit = 0
    /\ interrupted = FALSE

-----------------------------------------------------------------------------
(* The surroundings. *)

\* The decoder on the Cray finishes a tar.
Arrive(t) ==
    /\ t \notin results
    /\ results' = results \cup {t}
    /\ UNCHANGED <<archiveDir, uvars, faults, listed, remote, packed, aside, cmds, mvars, child,
                   interrupted>>

Interrupt ==
    /\ ~interrupted /\ Failing("sigint")
    /\ interrupted' = TRUE
    /\ UNCHANGED <<archiveDir, uvars, cray, mvars, child>>

\* What runs on the Cray does not stop with the program.
Restart ==
    /\ Times("restart") < MaxRestarts /\ Failing("restart")
    /\ mpc' = "start" /\ todo' = {} /\ num' = 0 /\ status' = 0
    /\ cpc' = "none" /\ cexit' = 0
    /\ upc' = "start" /\ names' = {} /\ current' = Exit
    /\ interrupted' = FALSE
    /\ UNCHANGED <<archiveDir, tmp, unpacked, cray, observer>>

-----------------------------------------------------------------------------
(* createArchive on the Cray: find | grep | head > out && tar && mv && cat && rm && echo ok. *)

Pending(o) == {t \in results \ listed : ObserverOf[t] = o}

Put(f, tars) ==
    /\ remote' = remote \cup {f}
    /\ packed' = [packed EXCEPT ![f] = tars]

Advance(i, at) == cmds' = [cmds EXCEPT ![i].at = at]

OnCray(i) == UNCHANGED <<archiveDir, uvars, results, aside, mvars, child, interrupted>>

ListOut(i) ==
    LET pending == Pending(cmds[i].observer) IN
    /\ cmds[i].at = "head"
    /\ \E tars \in SUBSET pending :
         /\ Cardinality(tars) = IF Cardinality(pending) < TarFiles THEN Cardinality(pending)
                                                                  ELSE TarFiles
         /\ Put(<<"out", cmds[i].num>>, tars)
    /\ Advance(i, "tar")
    /\ OnCray(i) /\ UNCHANGED <<listed, faults>>

TarUp(i) ==
    /\ cmds[i].at = "tar" /\ <<"out", cmds[i].num>> \in remote
    /\ Put(<<"arch", cmds[i].num>>, packed[<<"out", cmds[i].num>>])
    /\ Advance(i, "mv")
    /\ OnCray(i) /\ UNCHANGED <<listed, faults>>

MvArch(i) ==
    LET arch == <<"arch", cmds[i].num>>
        done == <<"done", cmds[i].num>> IN
    /\ cmds[i].at = "mv" /\ arch \in remote
    /\ remote' = (remote \ {arch}) \cup {done}
    /\ packed' = [packed EXCEPT ![done] = packed[arch], ![arch] = {}]
    /\ Advance(i, "cat")
    /\ OnCray(i) /\ UNCHANGED <<listed, faults>>

CatOut(i) ==
    /\ cmds[i].at = "cat" /\ <<"out", cmds[i].num>> \in remote
    /\ listed' = listed \cup packed[<<"out", cmds[i].num>>]
    /\ Advance(i, "rm")
    /\ OnCray(i) /\ UNCHANGED <<remote, packed, faults>>

RmOut(i) ==
    LET out == <<"out", cmds[i].num>> IN
    /\ cmds[i].at = "rm" /\ out \in remote
    /\ remote' = remote \ {out}
    /\ packed' = [packed EXCEPT ![out] = {}]
    /\ Advance(i, "ok")
    /\ OnCray(i) /\ UNCHANGED <<listed, faults>>

\* A command fails when another with the same number took its file away, or for a reason of
\* its own; && stops there.
CmdFails(i) ==
    /\ cmds[i].at \in {"head", "tar", "mv", "cat", "rm"}
    /\ \/ Failing("remote")
       \/ /\ cmds[i].at \in {"tar", "cat", "rm"} /\ <<"out", cmds[i].num>> \notin remote
          /\ UNCHANGED faults
       \/ /\ cmds[i].at = "mv" /\ <<"arch", cmds[i].num>> \notin remote
          /\ UNCHANGED faults
    /\ Advance(i, "failed")
    /\ OnCray(i) /\ UNCHANGED <<listed, remote, packed>>

CrayStep(i) == ListOut(i) \/ TarUp(i) \/ MvArch(i) \/ CatOut(i) \/ RmOut(i) \/ CmdFails(i)

-----------------------------------------------------------------------------
(* The child that Main forks for createArchive, and the one for downloadArchive. *)

\* The exit status waits for waitpid, or for handle_sigchld.
ChildEnds(code) == cexit' = code /\ cpc' = "ended"

\* ssh takes the command to the Cray.
SendCreate ==
    /\ cpc = "ssh"
    /\ cmds' = Append(cmds, [num |-> num, observer |-> observer, at |-> "head"])
    /\ cpc' = "answer"
    /\ UNCHANGED <<archiveDir, uvars, faults, results, listed, remote, packed, aside, mvars, cexit,
                   interrupted>>

\* Mutant: any answer makes createArchive return 0.
CreateCodeIgnored == 0

\* Only the answer "ok" makes createArchive return 0.
CreateCode == IF cmds[Len(cmds)].at = "ok" THEN 0 ELSE 1

CreateEnds ==
    /\ cpc = "answer" /\ cmds[Len(cmds)].at \in {"ok", "failed"}
    /\ ChildEnds(CreateCode)
    /\ UNCHANGED <<archiveDir, uvars, faults, cray, mvars, interrupted>>

\* ssh does not reach the Cray, or the connection breaks: there is no answer.
NoAnswer ==
    /\ \/ cpc = "ssh" /\ Failing("ssh")
       \/ cpc = "answer" /\ Failing("reply")
    /\ ChildEnds(1)
    /\ UNCHANGED <<archiveDir, uvars, cray, mvars, interrupted>>

\* scp of bb_done_archive<num>.tgz into archive/.  Its exit status is not looked at, and what
\* it left behind of the archive goes by the same name.
Scp ==
    LET done == <<"done", num>> IN
    /\ cpc = "scp"
    /\ \/ /\ done \in remote /\ PutFile(done, packed[done])
          /\ UNCHANGED faults
       \/ /\ done \in remote /\ Failing("scp")
          /\ \E some \in SUBSET packed[done] : PutFile(done, some)
       \/ /\ done \notin remote
          /\ UNCHANGED <<archiveDir, faults>>
       \/ /\ Failing("ssh")
          /\ UNCHANGED archiveDir
    /\ cpc' = "rename"
    /\ UNCHANGED <<uvars, cray, mvars, cexit, interrupted>>

\* rename puts completed_ in front of the name and replaces a file that has it.
Rename ==
    LET done == <<"done", num>>
        completed == <<"completed", num>> IN
    /\ cpc = "rename" /\ done \in archive
    /\ archive' = (archive \ {done}) \cup {completed}
    /\ content' = [content EXCEPT ![completed] = content[done], ![done] = {}]
    /\ cpc' = "delete"
    /\ UNCHANGED <<uvars, faults, cray, mvars, cexit, interrupted>>

\* Mutant: downloadArchive goes on after a rename that failed.
RenameFailsGoesOn ==
    /\ cpc = "rename"
    /\ \/ <<"done", num>> \notin archive /\ UNCHANGED faults
       \/ <<"done", num>> \in archive /\ Failing("fs")
    /\ cpc' = "delete"
    /\ UNCHANGED <<archiveDir, uvars, cray, mvars, cexit, interrupted>>

RenameFails ==
    /\ cpc = "rename"
    /\ \/ <<"done", num>> \notin archive /\ UNCHANGED faults
       \/ <<"done", num>> \in archive /\ Failing("fs")
    /\ ChildEnds(1)
    /\ UNCHANGED <<archiveDir, uvars, cray, mvars, interrupted>>

\* ssh rm; downloadArchive returns 0 whether or not there is an answer.
DeleteRemote ==
    LET done == <<"done", num>> IN
    /\ cpc = "delete"
    /\ \/ /\ remote' = remote \ {done}
          /\ packed' = [packed EXCEPT ![done] = {}]
          /\ UNCHANGED faults
       \/ /\ UNCHANGED <<remote, packed>>
          /\ Failing("ssh")
    /\ ChildEnds(0)
    /\ UNCHANGED <<archiveDir, uvars, results, listed, aside, cmds, mvars, interrupted>>

ChildStep ==
    \/ SendCreate \/ CreateEnds \/ NoAnswer \/ Scp \/ Rename \/ RenameFails \/ DeleteRemote

-----------------------------------------------------------------------------
(* Main. *)

\* moveCompletedArchives moves what an earlier run did not download out of the way.
MoveCompletedArchives ==
    LET left == {f \in remote : f[1] = "done"} IN
    /\ mpc = "start"
    /\ \/ /\ aside' = aside \cup UNION {packed[f] : f \in left}
          /\ remote' = remote \ left
          /\ packed' = [f \in RemoteName |-> IF f \in left THEN {} ELSE packed[f]]
          /\ UNCHANGED faults
       \/ /\ UNCHANGED <<aside, remote, packed>>
          /\ \/ interrupted /\ UNCHANGED faults
             \/ Failing("ssh")
    /\ mpc' = "list"
    /\ UNCHANGED <<archiveDir, uvars, results, listed, cmds, todo, observer, num, status, child,
                   interrupted>>

\* getObserversDirectories.  Without an answer the list is empty.
ListObservers ==
    /\ mpc = "list" /\ ~interrupted
    /\ \/ todo' = Observer /\ UNCHANGED faults
       \/ todo' = {} /\ Failing("ssh")
    /\ mpc' = "observers"
    /\ UNCHANGED <<archiveDir, uvars, cray, observer, num, status, child, interrupted>>

NextObserver ==
    /\ mpc = "observers" /\ ~interrupted
    /\ \E o \in todo : observer' = o /\ todo' = todo \ {o}
    /\ mpc' = "count"
    /\ UNCHANGED <<archiveDir, uvars, faults, cray, num, status, child, interrupted>>

PassEnds ==
    /\ mpc = "observers" /\ (todo = {} \/ interrupted)
    /\ todo' = {}
    /\ mpc' = "list"
    /\ UNCHANGED <<archiveDir, uvars, faults, cray, observer, num, status, child, interrupted>>

\* getFilesCount of the observer.
CountFiles ==
    /\ mpc = "count" /\ ~interrupted /\ Pending(observer) # {}
    /\ mpc' = "throttle"
    /\ UNCHANGED <<archiveDir, uvars, faults, cray, todo, observer, num, status, child, interrupted>>

\* Mutant: Main waits for room whether or not it has seen SIGINT.
WaitsInVain == FALSE

StopsWaiting == mpc = "throttle" /\ interrupted

\* There are none, or there is no answer, or SIGINT ends the loop over the observer's files.
LeaveObserver ==
    /\ \/ mpc = "count" /\ (Pending(observer) = {} \/ interrupted) /\ UNCHANGED faults
       \/ mpc = "count" /\ Failing("ssh")
       \/ StopsWaiting /\ UNCHANGED faults
    /\ mpc' = "observers"
    /\ UNCHANGED <<archiveDir, uvars, cray, todo, observer, num, status, child, interrupted>>

\* Mutant: one archive too many.
HasRoomForOneMore == Cardinality(archive) <= MaxLocalArchives

HasRoom == Cardinality(archive) < MaxLocalArchives

\* Main waits while there are too many archives, or too many files in sql/, of which module
\* Importer tells.  If opendir fails getFilesCount counts -2 files, and there is room.
ForkCreate ==
    /\ mpc = "throttle" /\ ~interrupted /\ num < MaxNum
    /\ \/ HasRoom /\ UNCHANGED faults
       \/ ~HasRoom /\ Failing("opendir")
    /\ num' = num + 1
    /\ cpc' = "ssh"
    /\ mpc' = "create"
    /\ UNCHANGED <<archiveDir, uvars, cray, todo, observer, status, cexit, interrupted>>

\* SIGCHLD comes before waitpid: handle_sigchld collects the child and drops its exit status.
handle_sigchld ==
    /\ mpc \in {"create", "download"} /\ cpc = "ended" /\ Failing("reaped")
    /\ cpc' = "reaped"
    /\ UNCHANGED <<archiveDir, uvars, cray, mvars, cexit, interrupted>>

\* Main reaches waitpid.
Wait ==
    /\ \/ mpc = "create" /\ mpc' = "waitCreate"
       \/ mpc = "download" /\ mpc' = "waitDownload"
    /\ UNCHANGED <<archiveDir, uvars, faults, cray, todo, observer, num, status, child, interrupted>>

\* What waitpid leaves in status, if it was old before: nothing new if the child is gone.
WaitStatus(old) == IF cpc = "ended" THEN cexit ELSE old

CreateReturned ==
    /\ mpc = "waitCreate" /\ cpc \in {"ended", "reaped"}
    /\ status' = WaitStatus(status)
    /\ IF status' = 0 THEN mpc' = "download" /\ cpc' = "scp"
                      ELSE mpc' = "count" /\ cpc' = "none"
    /\ UNCHANGED <<archiveDir, uvars, faults, cray, todo, observer, num, cexit, interrupted>>

\* Here status is reset before waitpid.  Its value is not looked at.
DownloadReturned ==
    /\ mpc = "waitDownload" /\ cpc \in {"ended", "reaped"}
    /\ status' = WaitStatus(0)
    /\ mpc' = "count" /\ cpc' = "none"
    /\ UNCHANGED <<archiveDir, uvars, faults, cray, todo, observer, num, cexit, interrupted>>

LeaveLoop ==
    /\ mpc = "list" /\ interrupted
    /\ mpc' = "exit"
    /\ UNCHANGED <<archiveDir, uvars, faults, cray, todo, observer, num, status, child, interrupted>>

SignalUnzip ==
    /\ mpc = "exit"
    /\ PutFile(Exit, {})
    /\ mpc' = "exited"
    /\ UNCHANGED <<uvars, faults, cray, todo, observer, num, status, child, interrupted>>

MainStep ==
    \/ MoveCompletedArchives \/ ListObservers \/ NextObserver \/ PassEnds \/ CountFiles
    \/ LeaveObserver \/ ForkCreate \/ handle_sigchld \/ Wait \/ CreateReturned
    \/ DownloadReturned \/ LeaveLoop \/ SignalUnzip

\* A step of unzip.sh leaves Main, its child and the Cray alone.
UnzipFrame == UNCHANGED <<cray, mvars, child, interrupted>>

UnzipStep == (UnzipAlone \/ \E c \in Csv : MoveFile(c)) /\ UnzipFrame

Next ==
    \/ \E t \in Tar : Arrive(t)
    \/ Interrupt \/ Restart
    \/ \E i \in DOMAIN cmds : CrayStep(i)
    \/ ChildStep
    \/ MainStep
    \/ UnzipStep

Spec == Init /\ [][Next]_vars

\* The processes and the commands on the Cray keep running.  Nothing says that tars appear.
Fairness ==
    /\ WF_vars(MainStep) /\ WF_vars(ChildStep) /\ WF_vars(UnzipStep)
    /\ \A i \in 1 .. MaxNum * (MaxRestarts + 1) : WF_vars(i \in DOMAIN cmds /\ CrayStep(i))

FairSpec == Spec /\ Fairness

-----------------------------------------------------------------------------
(* What the component promises. *)

TarsIn(files, holds) == UNION {holds[f] : f \in files}
Held ==
    FilesOf(TarsIn({f \in remote : f[1] = "done"}, packed) \cup aside
              \cup TarsIn(archive \cap Completed, content))
        \cup {c \in Csv : unpacked[c] > 0}

Happened(kind) == Times(kind) > 0

\* scp, tar or mv stopped half way, or the numbers of the archives started again from 1: the
\* code does lose tars then.
Damaged == \E kind \in {"scp", "tar", "mv", "restart"} : Happened(kind)

\* The csv files of a tar that is on a .done list, and so will never be packed again, are in an
\* archive on the Cray, in one in archive/, or in csv/: until then createArchive,
\* downloadArchive, moveCompletedArchives and unzip.sh delete nothing too early.
Custody == INSTANCE Handover WITH
    Item <- Tar, Yield <- CsvOf,
    arrived <- results, source <- results \ listed, kept <- Held

HandsOver == Custody!Init /\ [][Custody!Next \/ Damaged']_(Custody!vars)

\* No csv file is moved to csv/ twice, whatever answers get lost and however often Main asks
\* again: the rows of a tar are not inserted twice.  That is so until the program is started
\* again or handle_sigchld takes an exit status from Main.
UnpackedOnce ==
    Happened("restart") \/ Happened("reaped") \/ \A c \in Csv : unpacked[c] <= 1

\* Main never lets more archives pile up than maxLocalArchives, finished or not, and one more
\* for each time that it could not count them.
Backpressure ==
    Cardinality(archive \ {Exit}) <= MaxLocalArchives + Times("opendir")

\* "Error downloading archive" is logged when a download fails: an archive that downloadArchive
\* names completed_ is the archive on the Cray, which it deletes next.
CompletedIsWhole ==
    cpc = "delete" /\ <<"done", num>> \in remote /\ <<"completed", num>> \in archive
        => content[<<"completed", num>>] = packed[<<"done", num>>]

\* bb_exit_unzip ends unzip.sh.
UnzipStops == mpc = "exited" ~> upc = "exited"
=============================================================================
