------------------------------ MODULE Decoder ------------------------------
(***************************************************************************)
(* fileContentToDecoderData: how a parser turns a batch of csv files, one  *)
(* for each picture, into detections with one or more candidates each, and *)
(* how it makes up the keys of the rows that they become.                  *)
(***************************************************************************)
EXTENDS Integers, Sequences

CONSTANTS
    Batches,              \* the batches of csv files that getCSVFilesList can return
    Lines,                \* the lines that can be in a csv file
    MaxLines,             \* bound: how many of them there are
    experimentBeginTime,  \* Config::experimentBeginTime, in seconds since 1970
    TimeZone              \* seconds that the local time is ahead of UTC in winter

\* What the name of a csv file says: the camera, the local time from the year down to the
\* second, and the digits behind it.
Date == Nat \X (1 .. 12) \X (1 .. 31) \X (0 .. 23) \X (0 .. 59) \X (0 .. 59)
Name == [camID : Nat, timestamp : Date, offset : Seq(0 .. 9) \ {<<>>}]

\* A line with fewer than ten fields, one with a field that std::stoi or std::stod rejects,
\* or the fields that the keys are made of, as std::stoi returns them.
Line == [kind : {"short", "throws"}]
            \cup [kind : {"candidate"}, tag : Int, cand : Int, grid : Int, x : Int, y : Int]

ASSUME DecoderAssumption ==
    /\ Batches \subseteq Seq(Name) /\ Lines \subseteq Line /\ MaxLines \in Nat
    /\ experimentBeginTime \in Nat /\ TimeZone \in Int

VARIABLES
    fileNames,  \* the batch
    file_num,   \* the file that is read
    lines,      \* the lines read of each file
    data,       \* the detections
    dead,       \* an exception ended the process
    isdst,      \* 1 if it is summer time now
    changed     \* that has changed since the batch was begun

vars == <<fileNames, file_num, lines, data, dead, isdst, changed>>

\* Mutant: an int is stored as it is.
NotShort(n) == n

\* An int stored in a short.
Short(n) == ((n + 2^15) % 2^16) - 2^15

\* An integer as the set of its bits that are 1, for << and |; all upper bits of a negative
\* integer are 1.
Bits(n) == {b \in 0 .. 63 : IF b < 31 THEN (n \div 2^b) % 2 = 1 ELSE n < 0}
Shift(n, by) == {b + by : b \in Bits(n)}

MAX_TAGS_PRO_IMAGE == 400

\* Mutant: the number of the last tag is taken for the number of tags.
IndexOfLastTag(f, tag) == tag + f * (MAX_TAGS_PRO_IMAGE - 1)

Index(f, tag) == tag + f * MAX_TAGS_PRO_IMAGE

\* Mutant: tm_mon is the number of the month.
SinceMarchLater(month) == (month + 10) % 12

\* The months since March of one that was written with two digits.
SinceMarch(month) == (month + 9) % 12

\* The days from 1970-01-01 to a date.
Days(date) ==
    LET year == IF date[2] <= 2 THEN date[1] - 1 ELSE date[1]
        month == SinceMarch(date[2]) IN
    365 * year + year \div 4 - year \div 100 + year \div 400 + (153 * month + 2) \div 5
        + date[3] - 719469

\* tm_isdst is that of the day of the import, whatever the time of the picture.
mktime(date, dst) ==
    86400 * Days(date) + 3600 * date[4] + 60 * date[5] + date[6] - TimeZone - 3600 * dst

\* dateToCentisecsFromExperimentBegin.  Of the digits, the first three are kept and of those
\* the first two are used, as a number and not as a fraction.
Centisecs(name, dst) ==
    LET seconds == mktime(name.timestamp, dst) - experimentBeginTime IN
    IF seconds < 0 THEN 0
    ELSE 100 * seconds + IF Len(name.offset) = 1 THEN name.offset[1]
                                                 ELSE 10 * name.offset[1] + name.offset[2]

\* while (tag > 255) tag = tag % 255.  A negative tag stays, and its upper bits are all 1.
TagBits(tag) == IF tag > 255 THEN tag % 255 ELSE tag

\* id, a long long.
Id(name, l, dst) ==
    (Shift(Centisecs(name, dst), 34) \cup Shift(Short(l.y) * 4000 + Short(l.x), 10)
        \cup Shift(name.camID, 8) \cup Bits(TagBits(Short(l.tag)))) \cap 0 .. 63

\* Mutant: the candidate is shifted into the grid.
CandidateIdShiftsLess(l) == (Shift(l.tag, 4) \cup Shift(l.cand, 1) \cup Bits(l.grid)) \cap 0 .. 15

\* candidateID, a short: that its parts are shorts does not show in its bits.
CandidateId(l) == (Shift(l.tag, 4) \cup Shift(l.cand, 2) \cup Bits(l.grid)) \cap 0 .. 15

Candidate(l) == [tag |-> CandidateId(l), x |-> Short(l.x), y |-> Short(l.y)]

\* Lines that are too short, and detections with negative coordinates, are skipped.
Kept(l) == l.kind = "candidate" /\ l.x >= 0 /\ l.y >= 0

Files == DOMAIN fileNames
ShortInt == -(2^15) .. 2^15 - 1
DecoderCandidate == [tag : SUBSET (0 .. 15), x : ShortInt, y : ShortInt]
Detection == [id : SUBSET (0 .. 63), timestamp : Date, x : ShortInt, y : ShortInt,
              candidate : Seq(DecoderCandidate) \ {<<>>}]

TypeOK ==
    /\ fileNames \in Batches
    /\ file_num \in 1 .. Len(fileNames) + 1
    /\ lines \in [Files -> Seq(Line)]
    /\ dead \in BOOLEAN /\ isdst \in {0, 1} /\ changed \in BOOLEAN
    /\ \A i \in DOMAIN data : data[i] \in Detection

Init ==
    /\ fileNames \in Batches
    /\ file_num = 1
    /\ lines = [f \in Files |-> <<>>]
    /\ data = <<>>
    /\ dead = FALSE
    /\ isdst \in {0, 1} /\ changed = FALSE

\* getline returns line l.
Read(l) ==
    /\ ~dead /\ file_num \in Files /\ Len(lines[file_num]) < MaxLines
    /\ lines' = [lines EXCEPT ![file_num] = Append(@, l)]
    /\ UNCHANGED <<fileNames, file_num, isdst, changed>>

SkipLine(l) ==
    /\ l.kind # "throws" /\ ~Kept(l)
    /\ Read(l)
    /\ UNCHANGED <<data, dead>>

Throw(l) ==
    /\ l.kind = "throws"
    /\ Read(l)
    /\ dead' = TRUE
    /\ UNCHANGED data

\* The detection before the candidate is added: id and place are those of the first candidate.
Entry(l) ==
    LET name == fileNames[file_num]
        i == Index(file_num, Short(l.tag)) IN
    IF i \in DOMAIN data THEN data[i]
    ELSE [id |-> Id(name, l, isdst), timestamp |-> name.timestamp,
          x |-> Short(l.x), y |-> Short(l.y), candidate |-> <<>>]

Set(i, entry) == data' = [j \in DOMAIN data \cup {i} |-> IF j = i THEN entry ELSE data[j]]

\* The time is set again for each candidate, the id is not.
KeepLine(l) ==
    /\ Kept(l)
    /\ Read(l)
    /\ Set(Index(file_num, Short(l.tag)),
           [Entry(l) EXCEPT !.timestamp = fileNames[file_num].timestamp,
                            !.candidate = Append(@, Candidate(l))])
    /\ UNCHANGED dead

NextFile ==
    /\ ~dead /\ file_num \in Files
    /\ file_num' = file_num + 1
    /\ UNCHANGED <<fileNames, lines, data, dead, isdst, changed>>

\* Summer time begins or ends while the batch is read.
ClockChanges ==
    /\ ~changed /\ changed' = TRUE /\ isdst' = 1 - isdst
    /\ UNCHANGED <<fileNames, file_num, lines, data, dead>>

Next == NextFile \/ ClockChanges \/ \E l \in Lines : SkipLine(l) \/ Throw(l) \/ KeepLine(l)

Spec == Init /\ [][Next]_vars

-----------------------------------------------------------------------------
(* What is to come out. *)

\* The numbers of the lines of a file that are kept, their tags, and the numbers of those of
\* one tag.
KeptAt(f) == {n \in DOMAIN lines[f] : Kept(lines[f][n])}
TagsOf(f) == {lines[f][n].tag : n \in KeptAt(f)}
LinesOf(f, tag) == {n \in KeptAt(f) : lines[f][n].tag = tag}

\* The tags of a picture are numbered from 0, and are no more than the indices of its file.
FewTags == \A f \in Files : \A n \in DOMAIN lines[f] :
               Kept(lines[f][n]) => lines[f][n].tag \in 0 .. MAX_TAGS_PRO_IMAGE - 1

\* A detection has a candidate for each of its own among these lines, in their order, and the
\* place of the first.
StandsFor(d, ls, own) ==
    \E nth \in [DOMAIN d.candidate -> own] :
        /\ \A k, m \in DOMAIN nth : k < m => nth[k] < nth[m]
        /\ \A n \in own : \E k \in DOMAIN nth : nth[k] = n
        /\ \A k \in DOMAIN nth : d.candidate[k] = Candidate(ls[nth[k]])
        /\ d.x = Short(ls[nth[1]].x) /\ d.y = Short(ls[nth[1]].y)

\* One detection for each tag of each picture, with the picture's time, the place of its first
\* line and a candidate for each of its lines in their order: the indices of one file's tags
\* never meet those of another file's.
Grouped ==
    FewTags =>
        /\ DOMAIN data = UNION {{Index(f, tag) : tag \in TagsOf(f)} : f \in Files}
        /\ \A f \in Files : \A tag \in TagsOf(f) :
               LET d == data[Index(f, tag)] IN
               /\ d.timestamp = fileNames[f].timestamp
               /\ StandsFor(d, lines[f], LinesOf(f, tag))

\* A month has no more days than the calendar gives it.
Leap(year) == year % 4 = 0 /\ (year % 100 # 0 \/ year % 400 = 0)
DaysOfMonth(year, month) ==
    IF month = 2 THEN IF Leap(year) THEN 29 ELSE 28 ELSE IF month \in {4, 6, 9, 11} THEN 30 ELSE 31
InCalendar(date) == date[3] <= DaysOfMonth(date[1], date[2])

\* What the ids rely on: there are four cameras; the date of a picture is in the calendar, not
\* before experimentBeginTime and not 124 days after it, in winter time and in summer time; its
\* name tells the hundredth of a second, and no other picture of the camera is of that
\* hundredth; it has 4000 columns and fewer than 2^24 pixels, and no two tags at one place.
IdsFit ==
    /\ \A f \in Files : Len(fileNames[f].offset) > 1
    /\ \A f \in Files :
        LET name == fileNames[f] IN
        /\ InCalendar(name.timestamp)
        /\ name.camID < 4
        /\ \A dst \in {0, 1} :
               LET seconds == mktime(name.timestamp, dst) - experimentBeginTime IN
               seconds >= 0 /\ seconds < 2^30 \div 100
        /\ \A g \in Files \ {f} :
               \/ name.camID # fileNames[g].camID
               \/ name.timestamp # fileNames[g].timestamp
               \/ \E n \in {1, 2} : name.offset[n] # fileNames[g].offset[n]
        /\ \A n, m \in KeptAt(f) :
               LET l == lines[f][n]
                   k == lines[f][m] IN
               /\ l.x < 4000 /\ l.y * 4000 + l.x < 2^24
               /\ l.tag # k.tag /\ TagBits(l.tag) = TagBits(k.tag) => <<l.x, l.y>> # <<k.x, k.y>>

\* Two dates are an hour apart.
AnHourApart(date, other) == mktime(date, 0) - mktime(other, 0) \in {3600, -3600}

\* PRIMARY KEY (id): no two detections of a batch have the same id, save that a change of the
\* clock while the batch is read can make two of them equal whose pictures are an hour apart.
IdsUnique ==
    IdsFit /\ FewTags =>
        \A i, j \in DOMAIN data : data[i].id = data[j].id =>
            i = j \/ (changed /\ AnHourApart(data[i].timestamp, data[j].timestamp))

\* What candidateID relies on: four candidates for each tag, four grids for each of them, and
\* one line for each of those.
CandidateIdsFit ==
    \A f \in Files : \A n, m \in KeptAt(f) :
        LET l == lines[f][n]
            k == lines[f][m] IN
        /\ l.cand \in 0 .. 3 /\ l.grid \in 0 .. 3
        /\ n # m => <<l.tag, l.cand, l.grid>> # <<k.tag, k.cand, k.grid>>

\* PRIMARY KEY (id, candidateID): the candidates of a detection have keys of their own.
CandidateIdsUnique ==
    CandidateIdsFit /\ FewTags =>
        \A i \in DOMAIN data : \A k, n \in DOMAIN data[i].candidate :
            data[i].candidate[k].tag = data[i].candidate[n].tag => k = n
=============================================================================
