----------------------------- MODULE MCImporter -----------------------------
(* Small instances of Importer for TLC. *)
EXTENDS Importer

OneObserver == {"o"}
TwoTars == {"t", "u"}
SameObserver == [t \in TwoTars |-> "o"]

\* A csv file in each tar.
TwoFiles == {"a", "c"}
OneFileEach == [t \in TwoTars |-> IF t = "t" THEN {"a"} ELSE {"c"}]

Seconds == [c \in Csv |-> 0]
SameMinute == [c \in Csv |-> 1]
SameYear == [m \in {MinuteOf[c] : c \in Csv} |-> 14]

\* The server takes both, or refuses c.
AllRows == [c \in Csv |-> "rows"]
OneRefused == [c \in Csv |-> IF c = "c" THEN "refused" ELSE "rows"]
=============================================================================
