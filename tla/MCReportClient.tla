--------------------------- MODULE MCReportClient ---------------------------
(* Values for the constants of ReportClient. *)
EXTENDS ReportClient, TLC

CONSTANTS f1, f2, f3

MCFiles == {f1, f2, f3}
MCAsks == {{}, {"receipt"}, {"purpose"}}
FilesAreAlike == Permutations(MCFiles)
=============================================================================
