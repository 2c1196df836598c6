--------------------------- MODULE SerialWriter ---------------------------
(***************************************************************************)
(* What the market job queue promises, without workers, leases, clocks or  *)
(* a broker: every run is admitted, perhaps started, and over; one run, or *)
(* one manual publication, is written at a time; ordered runs start in the *)
(* order of their admission; nothing that is over ever starts.             *)
(***************************************************************************)
EXTENDS Naturals

CONSTANTS
  Run,        \* runs, in the order in which they are admitted
  Ordered     \* the runs that must start in that order

VARIABLES
  phase,      \* phase[r]: absent, waiting, active or over
  publication \* a manual publication is being written

vars == <<phase, publication>>

Phase == {"absent", "waiting", "active", "over"}

TypeOK == phase \in [Run -> Phase] /\ publication \in BOOLEAN

NobodyWrites == ~publication /\ \A r \in Run : phase[r] # "active"

Init == phase = [r \in Run |-> "absent"] /\ publication = FALSE

\* One commit admits a set of runs, all after the runs already known.
Admit(S) ==
  /\ S # {}
  /\ \A s \in S, q \in Run : phase[q] # "absent" => q < s
  /\ phase' = [r \in Run |-> IF r \in S THEN "waiting" ELSE phase[r]]
  /\ UNCHANGED publication

Start(r) ==
  /\ phase[r] = "waiting" /\ NobodyWrites
  /\ r \in Ordered => \A q \in Ordered : q < r => phase[q] # "waiting"
  /\ phase' = [phase EXCEPT ![r] = "active"]
  /\ UNCHANGED publication

\* The writer of r is done, or gone.
Stop(r) ==
  /\ phase[r] = "active"
  /\ phase' = [phase EXCEPT ![r] = "over"]
  /\ UNCHANGED publication

\* Runs that end without starting: cancelled, skipped, never delivered.
Withdraw(S) ==
  /\ \A r \in S : phase[r] = "waiting"
  /\ phase' = [r \in Run |-> IF r \in S THEN "over" ELSE phase[r]]
  /\ UNCHANGED publication

BeginPublication ==
  NobodyWrites /\ publication' = TRUE /\ UNCHANGED phase

EndPublication ==
  publication /\ publication' = FALSE /\ UNCHANGED phase

Next ==
  \/ \E S \in SUBSET Run : Admit(S) \/ Withdraw(S)
  \/ \E r \in Run : Start(r) \/ Stop(r)
  \/ BeginPublication \/ EndPublication

Spec == Init /\ [][Next]_vars
=============================================================================
