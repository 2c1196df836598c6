--------------------------- MODULE MCDailyCloses ---------------------------
(***************************************************************************)
(* A small instance of DailyCloses for TLC: one company, and securities    *)
(* that have its ISIN, its symbol, both or neither.                        *)
(***************************************************************************)
EXTENDS DailyCloses, TLC

Securities == {"acme", "other"}
IsAcme == [c \in Company |-> "acme"]

Symmetry == Permutations(File)
=============================================================================
