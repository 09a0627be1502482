------------------------------ MODULE MCConfig ------------------------------
(* A small instance of Config for TLC. *)
EXTENDS Config

TwoValues == {1, 2}

\* Any number of parsers, and any room in archive/.
FewTexts == {t \in [Key -> TwoValues] : t["dbhost"] = 1 /\ t["tarFilesProArchive"] = 1}
=============================================================================
