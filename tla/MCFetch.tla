------------------------------ MODULE MCFetch ------------------------------
(* Small instances of Fetch for TLC. *)
EXTENDS Fetch, TLC

\* A csv file in each tar, that goes by the name of the tar; all tars are of one observer.
FileOfTar == [t \in Tar |-> {t}]
OneObserver == {"o"}
SameObserver == [t \in Tar |-> "o"]

\* Nothing tells one tar from another.
TarSymmetry == Permutations(Tar)
=============================================================================
