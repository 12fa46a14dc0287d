--------------------------- MODULE ExecJournalMC ---------------------------
(* Small instances of ExecJournal. *)
EXTENDS ExecJournal, FiniteSets

(* Short and long writes; byte values tell overlapping writes apart. *)
ShortSources == {<<1>>, <<2, 1, 1>>}
Blank == [c \in Cells |-> 0]
=============================================================================
