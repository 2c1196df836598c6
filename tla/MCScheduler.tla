---------------------------- MODULE MCScheduler ----------------------------
EXTENDS Scheduler

Jobs == {"prices", "results"}
Defaults == [j \in Jobs |-> IF j = "prices" THEN 1 ELSE 2]
SavedSchedules ==
  {[times |-> {0, 3}, frequency |-> "daily", weekday |-> 0],
   [times |-> {3}, frequency |-> "daily", weekday |-> 1],
   [times |-> {3}, frequency |-> "hourly", weekday |-> 0],
   [times |-> {1}, frequency |-> "weekly", weekday |-> 1],
   [times |-> {0}, frequency |-> "weekly", weekday |-> 0]}
=============================================================================
