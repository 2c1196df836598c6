----------------------------- MODULE Scheduler -----------------------------
(***************************************************************************)
(* The schedules of the exchange jobs: what administrators save in three   *)
(* places, what a tick claims and what the next-run label says.            *)
(*                                                                         *)
(* A time is a number of minutes in a calendar with Days days a week,      *)
(* Hours hours a day and Minutes minutes an hour.                          *)
(***************************************************************************)
EXTENDS Naturals, FiniteSets, FiniteSetsExt

CONSTANTS
  Job,
  Scans,          \* jobs that scan results: their exchange keeps a schedule too
  Prices,         \* jobs that import closing prices: they may run several times a day
  defaultTime,    \* DEFAULT_TIMES
  Saved,          \* what an administrator may save: times, frequency, weekday
  Days, Hours, Minutes,
  None,           \* no row
  MaxNow          \* bounds the model

Day == Hours * Minutes
Time == 0 .. Day - 1
Frequency == {"hourly", "daily", "weekly"}
Schedule == [times : SUBSET Time, frequency : Frequency, weekday : 0 .. Days - 1]

Control == [paused : BOOLEAN, times : SUBSET Time, frequency : Frequency, weekday : 0 .. Days - 1]
Source == [enabled : BOOLEAN, schedule : Time]

ASSUME CalendarAssumption == {Days, Hours, Minutes} \subseteq Nat \ {0} /\ MaxNow \in Nat
ASSUME JobAssumption == Scans \cup Prices \subseteq Job /\ Scans \cap Prices = {} /\ defaultTime \in [Job -> Time]
ASSUME SavedAssumption == Saved \subseteq {s \in Schedule : s.times # {}}
ASSUME NoneAssumption == None \notin Control \cup Source

VARIABLES
  now,
  control,    \* scheduler_controls of a job: None, or paused and a schedule
  parent,     \* paused, in the control of the combined job of its kind
  source,     \* result_sources of the exchange: None, or enabled and its schedule
  claimed     \* jobs with a run for this minute

vars == <<now, control, parent, source, claimed>>

TypeOK ==
  /\ now \in Nat
  /\ control \in [Job -> Control \cup {None}]
  /\ parent \in BOOLEAN
  /\ source \in [Scans -> Source \cup {None}]
  /\ claimed \subseteq Job

Init ==
  /\ now \in 0 .. Day - 1
  /\ control = [j \in Job |-> None] /\ parent = FALSE
  /\ source = [j \in Scans |-> None]
  /\ claimed = {}

-----------------------------------------------------------------------------
\* schedule_state: a job without a control inherits that of the combined job;
\* without times of its own it has its exchange's, or the default.
Configured(j) == control[j] # None /\ control[j].times # {}
HasSource(j) == j \in Scans /\ source[j] # None
Times(j) ==
  CASE Configured(j) -> control[j].times
    [] ~Configured(j) /\ HasSource(j) -> {source[j].schedule}
    [] ~Configured(j) /\ ~HasSource(j) -> {defaultTime[j]}
Paused(j) == IF control[j] = None THEN parent ELSE control[j].paused
Enabled(j) == HasSource(j) => source[j].enabled
State(j) ==
  [times |-> Times(j),
   frequency |-> IF control[j] = None THEN "daily" ELSE control[j].frequency,
   weekday |-> IF control[j] = None THEN 0 ELSE control[j].weekday]

Weekday(t) == (t \div Day) % Days

\* is_due: an hourly job looks at the minutes of its first time.
IsDue(state, t) ==
  CASE state.frequency = "hourly" -> t % Minutes = Min(state.times) % Minutes
    [] state.frequency = "weekly" -> Weekday(t) = state.weekday /\ t % Day \in state.times
    [] state.frequency = "daily" -> t % Day \in state.times

\* A tick claims what is due, unless the job is paused or its exchange disabled.
Runs(j) == ~Paused(j) /\ Enabled(j)
Due(j, t) == Runs(j) /\ IsDue(State(j), t)

\* Faulty: the search ends with the week.
OffsetsOfAWeek == 0 .. Days - 1

\* next_slot looks eight days ahead.
Offsets == 0 .. Days

NextSlot(state, t) ==
  LET inHour == ((t \div Minutes) * Minutes) + (Min(state.times) % Minutes)
      day(o) == (t \div Day) + o
      later == {(day(o) * Day) + s : o \in {x \in Offsets :
                  state.frequency = "weekly" => day(x) % Days = state.weekday}, s \in state.times} IN
  IF state.frequency = "hourly" THEN IF inHour > t THEN inHour ELSE inHour + Minutes
  ELSE IF \E s \in later : s > t THEN Min({s \in later : s > t})
  ELSE 0

\* enrich_jobs: the label, for a job that ticks claim.
NextRun(j) == IF Runs(j) THEN NextSlot(State(j), now) ELSE 0

-----------------------------------------------------------------------------
Default == [paused |-> FALSE, times |-> {}, frequency |-> "daily", weekday |-> 0]
ControlOf(j) == IF control[j] = None THEN Default ELSE control[j]

\* POST /admin/market/{job}/pause
Pause(j, paused) ==
  /\ control' = [control EXCEPT ![j] = [ControlOf(j) EXCEPT !.paused = paused]]
  /\ UNCHANGED <<now, parent, source, claimed>>

PauseParent(paused) ==
  /\ parent' = paused
  /\ UNCHANGED <<now, control, source, claimed>>

\* PUT /admin/market/{job}/schedule: a scan has one time, and so has its exchange.
SaveSchedule(j, s, paused) ==
  /\ j \notin Prices \/ s.frequency # "daily" => Cardinality(s.times) = 1
  /\ control' = [control EXCEPT ![j] =
       [paused |-> paused, times |-> s.times, frequency |-> s.frequency, weekday |-> s.weekday]]
  /\ source' = IF j \notin Scans THEN source
               ELSE [source EXCEPT ![j] =
                      [enabled |-> @ = None \/ @.enabled, schedule |-> Min(s.times)]]
  /\ UNCHANGED <<now, parent, claimed>>

\* Faulty: the schedule of the job is left alone.
ControlAsItWas(j, time) == control

\* PUT /admin/results/sources/{exchange}
ControlOfSource(j, time) ==
  IF control[j] = None THEN control ELSE [control EXCEPT ![j].times = {time}]
Configure(j, enabled, time) ==
  /\ source' = [source EXCEPT ![j] = [enabled |-> enabled, schedule |-> time]]
  /\ control' = ControlOfSource(j, time)
  /\ UNCHANGED <<now, parent, claimed>>

\* The first scan of an exchange enters it, with the times of its job; for BSE with
\* the default, which is the same: saving a time enters the exchange.
EnterSource(j) ==
  /\ source[j] = None
  /\ source' = [source EXCEPT ![j] = [enabled |-> TRUE, schedule |-> Min(Times(j))]]
  /\ UNCHANGED <<now, control, parent, claimed>>

\* claim_due: one run for a job and a minute, however many ticks there are.
Claim ==
  /\ claimed' = claimed \cup {j \in Job : Due(j, now)}
  /\ UNCHANGED <<now, control, parent, source>>

Minute ==
  /\ now < MaxNow /\ now' = now + 1
  /\ claimed' = {}
  /\ UNCHANGED <<control, parent, source>>

Next ==
  \/ \E j \in Job : \/ \E paused \in BOOLEAN : Pause(j, paused)
                    \/ \E s \in Saved, paused \in BOOLEAN : SaveSchedule(j, s, paused)
  \/ \E paused \in BOOLEAN : PauseParent(paused)
  \/ \E j \in Scans : \/ EnterSource(j)
                      \/ \E enabled \in BOOLEAN, time \in Time : Configure(j, enabled, time)
  \/ Claim \/ Minute

Spec == Init /\ [][Next]_vars

-----------------------------------------------------------------------------
\* "Next-run labels use the same calculation as the scheduler": the label is the
\* next minute that a tick claims, for every schedule at every minute, and there is
\* none for a job that no tick claims.
NextRunIsNextDue ==
  \A j \in Job :
    LET due == {t \in now + 1 .. now + (Days + 1) * Day : Due(j, t)} IN
    /\ due # {} <=> Runs(j)
    /\ NextRun(j) = IF due = {} THEN 0 ELSE Min(due)

\* The schedule that the results page shows of an exchange is that of its job,
\* whichever of the two pages, or a scan, has entered it.
TimesAgree == \A j \in Scans : HasSource(j) => Times(j) = {source[j].schedule}
=============================================================================
