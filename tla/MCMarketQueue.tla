--------------------------- MODULE MCMarketQueue ---------------------------
(***************************************************************************)
(* Small instances of MarketQueue for TLC.  The identifiers of the runs    *)
(* are their order of creation, so Via and Head fix which producers'       *)
(* commits interleave.                                                     *)
(***************************************************************************)
EXTENDS MarketQueueRefinement, TLC

ThreeRuns == 1 .. 3
AllScheduled == <<"scheduled", "scheduled", "scheduled">>

\* A history chain 1 -> 3 with the run of a tick created between its members.
HistoryVia == <<"history", "tick", "history">>
HistoryHead == <<1, 2, 1>>

\* A tick's chain 1 -> 2 and a manual run.
TickVia == <<"tick", "tick", "dispatch">>
TickHead == <<1, 1, 3>>

\* A tick's run, a manual run and the CLI's combined job.
MixedKind == <<"scheduled", "scheduled", "pipeline">>
MixedVia == <<"tick", "dispatch", "cli">>
MixedHead == <<1, 2, 3>>

Symmetry == Permutations(Worker)
=============================================================================
