------------------------------- MODULE Config -------------------------------
(***************************************************************************)
(* The settings of config.txt.  Main reads the file before it forks the    *)
(* database process and the parser processes, and again in its loop; each  *)
(* of the others keeps the copy it was forked with.                        *)
(***************************************************************************)
EXTENDS Integers, Sequences

CONSTANTS
    Value,       \* the values that a setting is given
    FirstTexts,  \* what config.txt may hold when the program is started
    MaxEdits,    \* bound: how often config.txt is saved
    MaxFailures  \* bound: how often createArchive fails

\* One setting of each sort, in the order of their lines: the first is above the line of
\* config.txt that says that all next settings can be changed.
Order == <<"parserProcessCount", "dbhost", "tarFilesProArchive", "maxLocalArchives">>
Key == {Order[i] : i \in DOMAIN Order}
Missing == -1

ASSUME ConfigAssumption ==
    /\ Value \subseteq Nat /\ FirstTexts \subseteq [Key -> Value]
    /\ MaxEdits \in Nat /\ MaxFailures \in Nat

VARIABLES
    text,      \* config.txt: the value of each setting, or Missing
    saved,     \* what it holds when it has been written to the end
    main,      \* Main's copy of the settings, 0 where it never got one
    db,        \* the database process's copy
    parsers,   \* the parsers' copies: parser p has parsers[p + 1]
    mpc,       \* where Main is
    archives,  \* how many archives there are in archive/
    edits,     \* how often config.txt was saved
    failures   \* how often createArchive failed

file == <<text, saved, edits>>
copies == <<main, db, parsers>>
vars == <<file, copies, mpc, archives, failures>>

Settings == [Key -> Value \cup {0}]

TypeOK ==
    /\ text \in [Key -> Value \cup {0, Missing}] /\ saved \in [Key -> Value \cup {Missing}]
    /\ main \in Settings /\ db \in Settings /\ parsers \in Seq(Settings)
    /\ mpc \in {"load", "forkDb", "forkParsers", "pass", "wait", "downloaded"}
    /\ archives \in Nat /\ edits \in 0 .. MaxEdits /\ failures \in 0 .. MaxFailures

Init ==
    /\ text \in FirstTexts /\ saved = text
    /\ main = [k \in Key |-> 0] /\ db = [k \in Key |-> 0] /\ parsers = <<>>
    /\ mpc = "load"
    /\ archives = 0 /\ edits = 0 /\ failures = 0

\* An editor saves config.txt with another value for a setting, or without its line.  It writes
\* the file anew, up to a line that may end before its =.  Then >> meets the name: it reads 0 as
\* a number, and the name itself as a dbhost, for which 0 stands as well.
Save(k) ==
    /\ edits < MaxEdits /\ edits' = edits + 1 /\ text = saved
    /\ \E v \in (Value \cup {Missing}) \ {saved[k]} : saved' = [saved EXCEPT ![k] = v]
    /\ \E n \in DOMAIN Order, torn \in {0, Missing} :
         text' = [key \in Key |-> CASE \E i \in 1 .. n - 1 : key = Order[i] -> saved'[key]
                                   [] key = Order[n] -> torn
                                   [] OTHER -> Missing]
    /\ UNCHANGED <<copies, mpc, archives, failures>>

SaveEnds ==
    /\ text # saved
    /\ text' = saved
    /\ UNCHANGED <<saved, edits, copies, mpc, archives, failures>>

\* load assigns the settings that it finds a line for.
load(copy) == [k \in Key |-> IF text[k] = Missing THEN copy[k] ELSE text[k]]

FirstLoad ==
    /\ mpc = "load"
    /\ main' = load(main)
    /\ mpc' = "forkDb"
    /\ UNCHANGED <<file, db, parsers, archives, failures>>

ForkDb ==
    /\ mpc = "forkDb"
    /\ db' = main
    /\ mpc' = "forkParsers"
    /\ UNCHANGED <<file, main, parsers, archives, failures>>

\* Mutant: a parser reads config.txt for itself.
ForkedLoading(copy) == load(copy)

Forked(copy) == copy

ForkParser ==
    /\ mpc = "forkParsers" /\ Len(parsers) < main["parserProcessCount"]
    /\ parsers' = Append(parsers, Forked(main))
    /\ UNCHANGED <<file, main, db, mpc, archives, failures>>

EnterLoop ==
    /\ mpc = "forkParsers" /\ Len(parsers) >= main["parserProcessCount"]
    /\ mpc' = "pass"
    /\ UNCHANGED <<file, copies, archives, failures>>

\* Mutant: the settings are read once.
ReloadForgotten == UNCHANGED main

Reload == main' = load(main)

\* The start of a pass, and the end of a download: more files are found, or none.
ReloadInLoop ==
    /\ mpc \in {"pass", "downloaded"}
    /\ Reload
    /\ mpc' \in {"pass", "wait"}
    /\ UNCHANGED <<file, db, parsers, archives, failures>>

\* Main waits for room without a look at config.txt, and asks again if createArchive failed.
\* Before that it waits, as blindly, for room in sql/, which the database process makes: that
\* wait is left out.
Download ==
    /\ mpc = "wait" /\ archives < main["maxLocalArchives"]
    /\ \/ archives' = archives + 1 /\ mpc' = "downloaded" /\ UNCHANGED failures
       \/ /\ failures < MaxFailures /\ failures' = failures + 1
          /\ UNCHANGED <<mpc, archives>>
    /\ UNCHANGED <<file, copies>>

\* unzip.sh takes an archive out of archive/.
Unpack ==
    /\ archives > 0
    /\ archives' = archives - 1
    /\ UNCHANGED <<file, copies, mpc, failures>>

MainStep == FirstLoad \/ ForkDb \/ ForkParser \/ EnterLoop \/ ReloadInLoop \/ Download

Next == MainStep \/ Unpack \/ SaveEnds \/ \E k \in Key : Save(k)

Spec == Init /\ [][Next]_vars

\* Main's loop and unzip.sh go on, and the editor comes to the end of the file.
FairSpec == Spec /\ WF_vars(MainStep) /\ WF_vars(Unpack) /\ WF_vars(SaveEnds)

-----------------------------------------------------------------------------
(* What the component promises. *)

\* Parser j lists the csv files of this second.
Takes(j, second) ==
    LET count == parsers[j]["parserProcessCount"] IN count > 0 /\ second % count = j - 1

Looping == mpc \in {"pass", "wait", "downloaded"}

\* A csv file, by the seconds in its name, belongs to exactly one of the parsers whatever
\* happens to config.txt later: getCSVFilesList divides by each parser's own
\* parserProcessCount.  So it is if the first load found one, which the database process has a
\* copy of.  If it read 0, the line being torn or missing, no parser is ever forked, and no csv
\* file has one, whatever config.txt says later.
Shards ==
    Looping => \A second \in 0 .. 59 :
        (\E i \in DOMAIN parsers : \A j \in DOMAIN parsers : Takes(j, second) <=> j = i)
            <=> db["parserProcessCount"] > 0

\* Main comes to use what config.txt says about its loop, unless that is changed again, or Main
\* has read a maxLocalArchives of 0: then it waits for ever, whatever config.txt says later.
MainFollows ==
    \A key \in {"tarFilesProArchive", "maxLocalArchives"}, v \in Value \ {0} :
        saved[key] = v ~> main[key] = v \/ saved[key] # v \/ main["maxLocalArchives"] = 0

\* config.txt: "all next settings can be changed while programm is runnig", which dbhost is
\* one of; connectDB, which only the database process calls, uses it.
DbFollows ==
    \A v \in Value :
        db["dbhost"] \in Value /\ saved["dbhost"] = v ~> db["dbhost"] = v \/ saved["dbhost"] # v
=============================================================================
