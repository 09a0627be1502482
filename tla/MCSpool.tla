------------------------------ MODULE MCSpool ------------------------------
(* Small instances of Spool for TLC. *)
EXTENDS Spool

\* Parser 0 owns "a" and "c", parser 1 owns "b" and "d"; "a" and "b" share minute 1.
FourCsv == {"a", "b", "c", "d"}
FourSecondOf == [c \in FourCsv |-> IF c \in {"b", "d"} THEN 1 ELSE 0]
FourMinuteOf == [c \in FourCsv |-> IF c \in {"a", "b"} THEN 1 ELSE 2]

\* Parser 1 dies of "d", and the server refuses a candidate of "b".
FourKinds ==
    [c \in FourCsv |-> CASE c = "b" -> "refused" [] c = "d" -> "throws" [] OTHER -> "rows"]

\* The same without "d".
ThreeCsv == FourCsv \ {"d"}
ThreeSecondOf == [c \in ThreeCsv |-> FourSecondOf[c]]
ThreeMinuteOf == [c \in ThreeCsv |-> FourMinuteOf[c]]
ThreeRows == [c \in ThreeCsv |-> "rows"]

\* "c" has nothing to import.
ThreeKinds == [c \in ThreeCsv |-> IF c = "c" THEN "empty" ELSE "rows"]

\* All minutes are of one year.
SameYear == [m \in Minutes |-> 14]
=============================================================================
