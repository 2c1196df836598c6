-------------------------- MODULE RevisionHistory --------------------------
(***************************************************************************)
(* What a reader of a period's results is promised, without runs,          *)
(* originals, retries, statuses or administrators: a history that only     *)
(* grows at its end.  A revision is announced after the one before it, on  *)
(* the same exchange, and reports something else; a filing that reports    *)
(* what the last one does confirms it; nothing earlier ever changes.       *)
(***************************************************************************)
EXTENDS Naturals, Sequences

CONSTANTS
  Filing,
  exchangeOf,   \* where a filing is announced
  date,         \* and when
  Reports       \* what a filing reports, in any of its originals

VARIABLE history    \* revisions, oldest first

Last == history[Len(history)]

Init == history = <<>>

Revise(f, facts) ==
  /\ history # <<>> =>
       /\ date[Last.filing] < date[f] /\ exchangeOf[Last.filing] = exchangeOf[f]
       /\ Last.facts # facts
  /\ history' = Append(history, [filing |-> f, facts |-> facts, named |-> {f}])

Confirm(f) ==
  /\ history # <<>> /\ Last.facts \in Reports[f]
  /\ history' = [history EXCEPT ![Len(history)] = [Last EXCEPT !.named = @ \cup {f}]]

Next == \E f \in Filing : Confirm(f) \/ \E facts \in Reports[f] : Revise(f, facts)

Spec == Init /\ [][Next]_history
=============================================================================
