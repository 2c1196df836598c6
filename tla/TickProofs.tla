----------------------------- MODULE TickProofs -----------------------------
(***************************************************************************)
(* Proofs about what beat starts every minute: the claim of due schedules  *)
(* (Scheduler), for every calendar and every set of jobs and schedules,    *)
(* and the opening-day digests (EmailDigest), for every set of             *)
(* subscribers, IPOs and bands, every batch and any number of lost ticks.  *)
(***************************************************************************)
EXTENDS Scheduler, EmailDigest, FiniteSetTheorems, WellFoundedInduction, TLAPS

\* A scan with times of its own is one whose exchange has been entered.
ConfiguredIsEntered == \A j \in Scans : Configured(j) => HasSource(j)

IInv == TypeOK /\ ConfiguredIsEntered /\ TimesAgree

LEMMA MinOfOne ==
  ASSUME NEW t \in Nat
  PROVE  Min({t}) = t
BY DEF Min

LEMMA DayType == Day \in Nat
BY CalendarAssumption DEF Day

\* A set of times with one member, as its Cardinality says.
LEMMA OneTime ==
  ASSUME NEW S \in SUBSET Time, Cardinality(S) = 1
  PROVE  \E t \in Time : S = {t}
<1>1. IsFiniteSet(Time)
  BY DayType, FS_Interval DEF Time
<1>2. IsFiniteSet(S)
  BY <1>1, FS_Subset
<1> QED
  BY <1>2, FS_Singleton

LEMMA DefaultType ==
  ASSUME TypeOK, NEW j \in Job
  PROVE  /\ ControlOf(j) \in Control
         /\ control[j] # None => ControlOf(j) = control[j]
         /\ control[j] = None => ControlOf(j).times = {}
<1>1. Default \in Control
  BY CalendarAssumption DEF Default, Control, Frequency
<1> QED
  BY <1>1 DEF ControlOf, TypeOK, Default

\* A step that leaves schedules and sources alone keeps what relates them.
LEMMA SchedulesKept ==
  ASSUME TypeOK, TypeOK', ConfiguredIsEntered, TimesAgree, source' = source,
         \A j \in Scans : \/ control'[j] = control[j]
                          \/ /\ control'[j] # None
                             /\ control'[j].times = ControlOf(j).times
  PROVE  (ConfiguredIsEntered /\ TimesAgree)'
<1> SUFFICES ASSUME NEW j \in Scans
             PROVE  /\ Configured(j)' => HasSource(j)'
                    /\ HasSource(j)' => Times(j)' = {source'[j].schedule}
  BY DEF ConfiguredIsEntered, TimesAgree
<1>1. j \in Job
  BY JobAssumption
<1>2. Configured(j)' <=> Configured(j)
  BY <1>1, DefaultType DEF Configured
<1>3. Configured(j) => control'[j].times = control[j].times
  BY <1>1, DefaultType DEF Configured
<1>4. HasSource(j)' <=> HasSource(j)
  BY DEF HasSource
<1>5. Times(j)' = Times(j)
  BY <1>2, <1>3, <1>4 DEF Times
<1> QED
  BY <1>2, <1>4, <1>5 DEF ConfiguredIsEntered, TimesAgree

LEMMA InitIInv == Init => IInv
<1> SUFFICES ASSUME Init PROVE IInv
  OBVIOUS
<1>1. now \in Nat
  BY DayType DEF Init
<1>2. /\ control \in [Job -> Control \cup {None}] /\ parent \in BOOLEAN
      /\ source \in [Scans -> Source \cup {None}] /\ claimed \subseteq Job
  BY DEF Init
<1>3. TypeOK
  BY <1>1, <1>2 DEF TypeOK
<1>4. ConfiguredIsEntered /\ TimesAgree
  BY JobAssumption DEF Init, ConfiguredIsEntered, TimesAgree, Configured, HasSource
<1> QED
  BY <1>3, <1>4 DEF IInv

LEMMA PauseStep ==
  ASSUME IInv, NEW j \in Job, NEW paused \in BOOLEAN, Pause(j, paused)
  PROVE  IInv'
<1>1. [ControlOf(j) EXCEPT !.paused = paused] \in Control
  BY DefaultType DEF IInv, Control
<1>2. TypeOK'
  BY <1>1 DEF Pause, IInv, TypeOK
<1>3. \A k \in Scans : \/ control'[k] = control[k]
                       \/ /\ control'[k] # None
                          /\ control'[k].times = ControlOf(k).times
  <2> SUFFICES ASSUME NEW k \in Scans, k = j
               PROVE  control'[k] # None /\ control'[k].times = ControlOf(k).times
    BY JobAssumption DEF Pause, IInv, TypeOK
  <2>1. control'[k] = [ControlOf(j) EXCEPT !.paused = paused]
    BY DEF Pause, IInv, TypeOK
  <2> QED
    BY <2>1, <1>1, NoneAssumption, DefaultType DEF IInv, Control
<1> QED
  BY <1>2, <1>3, SchedulesKept DEF Pause, IInv

LEMMA SaveStep ==
  ASSUME IInv, NEW j \in Job, NEW s \in Saved, NEW paused \in BOOLEAN,
         SaveSchedule(j, s, paused)
  PROVE  IInv'
<1> DEFINE new == [paused |-> paused, times |-> s.times,
                   frequency |-> s.frequency, weekday |-> s.weekday]
<1>1. s \in Schedule /\ s.times \in SUBSET Time
  BY SavedAssumption DEF Schedule
<1>2. new \in Control
  BY <1>1 DEF Schedule, Control
<1>3. control' = [control EXCEPT ![j] = new]
  BY DEF SaveSchedule
<1>4. control' \in [Job -> Control \cup {None}]
  BY <1>2, <1>3 DEF IInv, TypeOK
<1>5. ASSUME j \in Scans
      PROVE  \E t \in Time : /\ s.times = {t}
                             /\ source' = [source EXCEPT ![j] =
                                  [enabled |-> source[j] = None \/ source[j].enabled, schedule |-> t]]
  <2>1. Cardinality(s.times) = 1
    BY <1>5, JobAssumption DEF SaveSchedule
  <2>2. PICK t \in Time : s.times = {t}
    BY <1>1, <2>1, OneTime
  <2>3. Min(s.times) = t
    BY <2>2, MinOfOne, DayType DEF Time
  <2> QED
    BY <1>5, <2>2, <2>3 DEF SaveSchedule, IInv, TypeOK
<1>6. source' \in [Scans -> Source \cup {None}]
  <2>1. CASE j \notin Scans
    BY <2>1 DEF SaveSchedule, IInv, TypeOK
  <2>2. CASE j \in Scans
    <3>1. source[j] = None \/ source[j].enabled \in BOOLEAN
      BY <2>2 DEF IInv, TypeOK, Source
    <3>2. (source[j] = None \/ source[j].enabled) \in BOOLEAN
      BY <3>1
    <3>3. PICK t \in Time : source' = [source EXCEPT ![j] =
                               [enabled |-> source[j] = None \/ source[j].enabled, schedule |-> t]]
      BY <2>2, <1>5
    <3>4. [enabled |-> source[j] = None \/ source[j].enabled, schedule |-> t] \in Source
      BY <3>2 DEF Source
    <3> QED
      BY <3>3, <3>4 DEF IInv, TypeOK
  <2> QED
    BY <2>1, <2>2
<1>7. TypeOK'
  BY <1>4, <1>6 DEF SaveSchedule, IInv, TypeOK
<1>8. ASSUME NEW k \in Scans
      PROVE  /\ Configured(k)' => HasSource(k)'
             /\ HasSource(k)' => Times(k)' = {source'[k].schedule}
  <2>1. CASE k = j
    <3>1. PICK t \in Time : /\ s.times = {t}
                            /\ source' = [source EXCEPT ![j] =
                                 [enabled |-> source[j] = None \/ source[j].enabled, schedule |-> t]]
      BY <2>1, <1>5
    <3>2. control'[k] = new /\ new # None
      BY <2>1, <1>2, <1>3, NoneAssumption DEF IInv, TypeOK
    <3>3. source'[k] \in Source /\ source'[k].schedule = t /\ source'[k] # None
      <4>1. source'[k].schedule = t
        BY <2>1, <3>1 DEF IInv, TypeOK
      <4>2. source'[k] = [enabled |-> source[j] = None \/ source[j].enabled, schedule |-> t]
        BY <2>1, <3>1 DEF IInv, TypeOK
      <4>3. source[j] = None \/ source[j].enabled \in BOOLEAN
        BY <2>1 DEF IInv, TypeOK, Source
      <4>4. source'[k] \in Source
        BY <4>2, <4>3 DEF Source
      <4> QED
        BY <4>1, <4>4, NoneAssumption
    <3> QED
      BY <3>1, <3>2, <3>3 DEF Configured, HasSource, Times
  <2>2. CASE k # j
    <3>1. control'[k] = control[k] /\ source'[k] = source[k]
      BY <2>2, <1>3, JobAssumption DEF SaveSchedule, IInv, TypeOK
    <3> QED
      BY <3>1 DEF IInv, ConfiguredIsEntered, TimesAgree, Configured, HasSource, Times
  <2> QED
    BY <2>1, <2>2
<1> QED
  BY <1>7, <1>8 DEF IInv, ConfiguredIsEntered, TimesAgree

LEMMA ConfigureStep ==
  ASSUME IInv, NEW j \in Scans, NEW enabled \in BOOLEAN, NEW time \in Time,
         Configure(j, enabled, time)
  PROVE  IInv'
<1> DEFINE row == [enabled |-> enabled, schedule |-> time]
<1>1. j \in Job /\ row \in Source /\ row # None
  BY JobAssumption, NoneAssumption DEF Source
<1>2. source' = [source EXCEPT ![j] = row]
  BY DEF Configure
<1>3. /\ \A k \in Job : k # j \/ control[j] = None => control'[k] = control[k]
      /\ control[j] # None => /\ control'[j] \in Control
                              /\ control'[j].times = {time}
      /\ control' \in [Job -> Control \cup {None}]
  <2>1. CASE control[j] = None
    BY <2>1 DEF Configure, ControlOfSource, IInv, TypeOK
  <2>2. CASE control[j] # None
    <3>1. control' = [control EXCEPT ![j].times = {time}]
      BY <2>2 DEF Configure, ControlOfSource
    <3>2. control[j] \in Control
      BY <2>2, <1>1 DEF IInv, TypeOK
    <3>3. [control[j] EXCEPT !.times = {time}] \in Control
      BY <3>2 DEF Control
    <3> QED
      BY <2>2, <3>1, <3>2, <3>3, <1>1 DEF IInv, TypeOK, Control
  <2> QED
    BY <2>1, <2>2
<1>4. TypeOK'
  BY <1>1, <1>2, <1>3 DEF Configure, IInv, TypeOK
<1>5. ASSUME NEW k \in Scans
      PROVE  /\ Configured(k)' => HasSource(k)'
             /\ HasSource(k)' => Times(k)' = {source'[k].schedule}
  <2>1. CASE k = j
    <3>1. source'[k] = row
      BY <2>1, <1>2 DEF IInv, TypeOK
    <3>2. HasSource(k)'
      BY <3>1, <1>1 DEF HasSource
    <3>3. CASE control[j] = None
      <4>1. control'[k] = None
        BY <2>1, <3>3, <1>1, <1>3
      <4> QED
        BY <3>1, <3>2, <4>1 DEF Configured, Times
    <3>4. CASE control[j] # None
      <4>1. control'[k] # None /\ control'[k].times = {time}
        BY <2>1, <3>4, <1>3, NoneAssumption
      <4> QED
        BY <3>1, <3>2, <4>1 DEF Configured, Times
    <3> QED
      BY <3>3, <3>4
  <2>2. CASE k # j
    <3>1. control'[k] = control[k] /\ source'[k] = source[k]
      BY <2>2, <1>2, <1>3, JobAssumption DEF IInv, TypeOK
    <3> QED
      BY <3>1 DEF IInv, ConfiguredIsEntered, TimesAgree, Configured, HasSource, Times
  <2> QED
    BY <2>1, <2>2
<1> QED
  BY <1>4, <1>5 DEF IInv, ConfiguredIsEntered, TimesAgree

LEMMA EnterStep ==
  ASSUME IInv, NEW j \in Scans, EnterSource(j)
  PROVE  IInv'
<1>1. ~Configured(j) /\ ~HasSource(j) /\ j \in Job
  BY JobAssumption DEF IInv, ConfiguredIsEntered, EnterSource, HasSource
<1>2. Times(j) = {defaultTime[j]} /\ defaultTime[j] \in Time
  BY <1>1, JobAssumption DEF Times
<1>3. Min(Times(j)) = defaultTime[j]
  BY <1>2, MinOfOne, DayType DEF Time
<1> DEFINE row == [enabled |-> TRUE, schedule |-> defaultTime[j]]
<1>4. source' = [source EXCEPT ![j] = row] /\ row \in Source /\ row # None
  <2>1. source' = [source EXCEPT ![j] = row]
    BY <1>3, Zenon DEF EnterSource
  <2>2. row \in Source
    BY <1>2, Zenon DEF Source
  <2> QED
    BY <2>1, <2>2, NoneAssumption
<1>5. TypeOK'
  BY <1>4 DEF EnterSource, IInv, TypeOK
<1>6. ASSUME NEW k \in Scans
      PROVE  /\ Configured(k)' => HasSource(k)'
             /\ HasSource(k)' => Times(k)' = {source'[k].schedule}
  <2>1. Configured(k)' <=> Configured(k)
    BY DEF EnterSource, Configured
  <2>2. CASE k = j
    <3>1. source'[k] = row
      BY <2>2, <1>4 DEF IInv, TypeOK
    <3>2. HasSource(k)' /\ ~Configured(k)'
      BY <2>1, <2>2, <3>1, <1>1, <1>4 DEF HasSource
    <3> QED
      BY <3>1, <3>2 DEF Times
  <2>3. CASE k # j
    <3>1. control'[k] = control[k] /\ source'[k] = source[k]
      BY <2>3, <1>4 DEF EnterSource, IInv, TypeOK
    <3> QED
      BY <3>1 DEF IInv, ConfiguredIsEntered, TimesAgree, Configured, HasSource, Times
  <2> QED
    BY <2>2, <2>3
<1> QED
  BY <1>5, <1>6 DEF IInv, ConfiguredIsEntered, TimesAgree

\* Neither a claim, a minute, a pause of the combined job nor a stuttering step
\* changes a schedule.
LEMMA OtherStep ==
  ASSUME IInv,
         Claim \/ Minute \/ (\E paused \in BOOLEAN : PauseParent(paused)) \/ UNCHANGED vars
  PROVE  IInv'
<1>1. control' = control /\ source' = source
  BY DEF Claim, Minute, PauseParent, vars
<1>2. TypeOK'
  BY DEF Claim, Minute, PauseParent, vars, IInv, TypeOK
<1> QED
  BY <1>1, <1>2, SchedulesKept DEF IInv

LEMMA NextIInv == IInv /\ [Next]_vars => IInv'
<1> SUFFICES ASSUME IInv, [Next]_vars PROVE IInv'
  OBVIOUS
<1>1. ASSUME NEW j \in Job, NEW paused \in BOOLEAN, Pause(j, paused) PROVE IInv'
  BY <1>1, PauseStep
<1>2. ASSUME NEW j \in Job, NEW s \in Saved, NEW paused \in BOOLEAN, SaveSchedule(j, s, paused)
      PROVE  IInv'
  BY <1>2, SaveStep
<1>3. ASSUME NEW j \in Scans, NEW enabled \in BOOLEAN, NEW time \in Time, Configure(j, enabled, time)
      PROVE  IInv'
  BY <1>3, ConfigureStep
<1>4. ASSUME NEW j \in Scans, EnterSource(j) PROVE IInv'
  BY <1>4, EnterStep
<1> QED
  BY <1>1, <1>2, <1>3, <1>4, OtherStep DEF Next

\* Types, and the relation of the two places a schedule is kept in, hold in every
\* reachable state.
THEOREM Invariant == Spec => []IInv
<1>1. Init => IInv
  BY InitIInv
<1>2. IInv /\ [Next]_vars => IInv'
  BY NextIInv
<1> QED
  BY <1>1, <1>2, PTL DEF Spec

\* The results page and the jobs page show one schedule of an exchange, whatever
\* is saved on either, paused, or entered by a first scan.
THEOREM SchedulesAgree == Spec => []TimesAgree
<1>1. IInv => TimesAgree
  BY DEF IInv
<1> QED
  BY <1>1, Invariant, PTL

-----------------------------------------------------------------------------
\* The label of the next run.  Numbers first.
LEMMA LeastNatural ==
  ASSUME NEW T \in SUBSET Nat, T # {}
  PROVE  \E x \in T : \A y \in T : x <= y
<1> DEFINE R == OpToRel(<, Nat)
<1>1. IsWellFoundedOn(R, Nat)
  BY NatLessThanWellFounded
<1>2. \E x \in T : \A y \in T : ~ (<<y, x>> \in R)
  <2> HIDE DEF R
  <2> QED BY <1>1, WFMin
<1>3. PICK x \in T : \A y \in T : ~ (y < x)
  BY <1>2 DEF OpToRel
<1> QED
  BY <1>3

LEMMA MinOfTimes ==
  ASSUME NEW T \in SUBSET Nat, T # {}
  PROVE  Min(T) \in T /\ \A y \in T : Min(T) <= y
<1>1. \E x \in T : \A y \in T : x <= y
  BY LeastNatural
<1> QED
  BY <1>1 DEF Min

LEMMA Divide ==
  ASSUME NEW a \in Nat, NEW d \in Nat \ {0}
  PROVE  a \div d \in Nat /\ a % d \in 0 .. d - 1 /\ a = ((a \div d) * d) + (a % d)
OBVIOUS

LEMMA Compose ==
  ASSUME NEW q \in Nat, NEW d \in Nat \ {0}, NEW r \in 0 .. d - 1
  PROVE  /\ (q * d) + r \in Nat
         /\ ((q * d) + r) \div d = q /\ ((q * d) + r) % d = r
OBVIOUS

LEMMA Blocks ==
  ASSUME NEW p \in Nat, NEW q \in Nat, p < q, NEW d \in Nat
  PROVE  p * d \in Nat /\ q * d \in Nat /\ (p * d) + d <= q * d
<1>1. PICK k \in Nat : q = p + 1 + k
  <2>1. q - p - 1 \in Nat
    OBVIOUS
  <2> QED
    BY <2>1
<1>2. q * d = (p * d) + d + (k * d)
  BY <1>1
<1>3. k * d \in Nat /\ p * d \in Nat
  OBVIOUS
<1> QED
  BY <1>2, <1>3

\* The next minute that is the m-th of its hour.
InHour(t, M, m) ==
  IF ((t \div M) * M) + m > t THEN ((t \div M) * M) + m ELSE ((t \div M) * M) + m + M

LEMMA NextOfHour ==
  ASSUME NEW t \in Nat, NEW M \in Nat \ {0}, NEW m \in 0 .. M - 1
  PROVE  /\ InHour(t, M, m) \in t + 1 .. t + M /\ InHour(t, M, m) % M = m
         /\ \A y \in Nat : y > t /\ y % M = m => InHour(t, M, m) <= y
<1> DEFINE q == t \div M
           x == InHour(t, M, m)
<1>1. q \in Nat /\ t % M \in 0 .. M - 1 /\ t = (q * M) + (t % M)
  BY Divide
<1> HIDE DEF q
<1>2. q * M \in Nat /\ (q + 1) * M = (q * M) + M
  BY <1>1
<1>3. x = IF (q * M) + m > t THEN (q * M) + m ELSE ((q + 1) * M) + m
  BY <1>2 DEF q, InHour
<1> HIDE DEF x
<1>4. x % M = m
  <2>1. ((q * M) + m) % M = m
    BY <1>1, Compose
  <2>2. q + 1 \in Nat
    BY <1>1
  <2>3. (((q + 1) * M) + m) % M = m
    BY <2>2, Compose
  <2> QED
    BY <1>3, <2>1, <2>3
<1>5. x \in t + 1 .. t + M
  BY <1>1, <1>2, <1>3
<1>6. ASSUME NEW y \in Nat, y > t, y % M = m
      PROVE  x <= y
  <2> DEFINE p == y \div M
  <2>1. p \in Nat /\ y = (p * M) + m
    BY <1>6, Divide
  <2> HIDE DEF p
  <2>2. p * M \in Nat
    BY <2>1
  <2>3. CASE p < q
    <3>1. (p * M) + M <= q * M
      BY <1>1, <2>1, <2>3, Blocks
    <3> QED
      BY <1>1, <1>2, <1>6, <2>1, <2>2, <3>1
  <2>4. CASE p = q
    BY <1>2, <1>3, <1>6, <2>1, <2>4
  <2>5. CASE p > q
    <3>1. (q * M) + M <= p * M
      BY <1>1, <2>1, <2>5, Blocks
    <3> QED
      BY <1>2, <1>3, <2>1, <2>2, <3>1
  <2> QED
    BY <1>1, <2>1, <2>3, <2>4, <2>5
<1> QED
  BY <1>4, <1>5, <1>6 DEF x

\* The next time that is one of T on one of the days W, when one of the K days after
\* today is in W: what is found K days ahead is not preceded by what is later still.
Later(t, D, K, T, W) ==
  {z \in {(((t \div D) + o) * D) + s : o \in {x \in 0 .. K : (t \div D) + x \in W}, s \in T} : z > t}

LEMMA NextOfDays ==
  ASSUME NEW t \in Nat, NEW D \in Nat \ {0}, NEW K \in Nat, NEW T \in SUBSET (0 .. D - 1), T # {},
         NEW W \in SUBSET Nat, \E o \in 1 .. K : (t \div D) + o \in W
  PROVE  /\ Later(t, D, K, T, W) # {}
         /\ Min(Later(t, D, K, T, W)) \in t + 1 .. t + ((K + 1) * D)
         /\ Min(Later(t, D, K, T, W)) \div D \in W /\ Min(Later(t, D, K, T, W)) % D \in T
         /\ \A y \in t + 1 .. t + ((K + 1) * D) :
              y \div D \in W /\ y % D \in T => Min(Later(t, D, K, T, W)) <= y
<1> DEFINE L == Later(t, D, K, T, W)
           q == t \div D
           z(o, s) == ((q + o) * D) + s
<1>1. q \in Nat /\ t % D \in 0 .. D - 1 /\ t = (q * D) + (t % D)
  BY Divide
<1>2. \A y : y \in L <=> \E o \in 0 .. K, s \in T : q + o \in W /\ y = z(o, s) /\ y > t
  <2> DEFINE S == {x \in 0 .. K : q + x \in W}
             A == {z(o, s) : o \in S, s \in T}
  <2>1. L = {y \in A : y > t}
    BY DEF Later
  <2> HIDE DEF q, z
  <2>2. \A y : y \in A <=> \E o \in S, s \in T : y = z(o, s)
    OBVIOUS
  <2> HIDE DEF A
  <2> QED
    BY <2>1, <2>2
<1>3. \E o \in 1 .. K : q + o \in W
  OBVIOUS
<1> HIDE DEF q
<1>4. ASSUME NEW o \in 0 .. K, NEW s \in 0 .. D - 1
      PROVE  /\ z(o, s) \in Nat /\ z(o, s) \div D = q + o /\ z(o, s) % D = s
             /\ z(o, s) < (q + K + 1) * D /\ (q + K + 1) * D \in Nat
             /\ o > 0 => z(o, s) > t
  <2>1. q + o \in Nat /\ q + K + 1 \in Nat /\ q + o < q + K + 1
    BY <1>1
  <2>2. z(o, s) \in Nat /\ z(o, s) \div D = q + o /\ z(o, s) % D = s
    BY <2>1, Compose
  <2>3. ((q + o) * D) + D <= (q + K + 1) * D /\ (q + o) * D \in Nat /\ (q + K + 1) * D \in Nat
    BY <2>1, Blocks
  <2>4. o > 0 => (q * D) + D <= (q + o) * D /\ q * D \in Nat
    BY <1>1, Blocks
  <2> QED
    BY <1>1, <2>2, <2>3, <2>4
<1>5. (q + K + 1) * D = (q * D) + ((K + 1) * D) /\ (K + 1) * D \in Nat /\ q * D \in Nat
  BY <1>1
<1> HIDE DEF z, L
<1>6. L \in SUBSET Nat
  BY <1>2, <1>4
<1>7. L # {}
  <2>1. PICK o \in 1 .. K, s \in T : q + o \in W
    BY <1>3
  <2>2. z(o, s) > t
    BY <1>4, <2>1
  <2> QED
    BY <1>2, <2>1, <2>2
<1>8. Min(L) \in L /\ \A y \in L : Min(L) <= y
  BY <1>6, <1>7, MinOfTimes
<1>9. PICK o \in 0 .. K, s \in T : q + o \in W /\ Min(L) = z(o, s) /\ z(o, s) > t
  BY <1>2, <1>8
<1>10. /\ Min(L) \in Nat /\ Min(L) > t /\ Min(L) < (q + K + 1) * D
       /\ Min(L) \div D \in W /\ Min(L) % D \in T
  BY <1>4, <1>9
<1>11. Min(L) \in t + 1 .. t + ((K + 1) * D)
  BY <1>1, <1>5, <1>10
<1>12. ASSUME NEW y \in t + 1 .. t + ((K + 1) * D), y \div D \in W, y % D \in T
       PROVE  Min(L) <= y
  <2> DEFINE p == y \div D
  <2>0. y \in Nat /\ y > t
    BY <1>5
  <2>1. p \in Nat /\ p \in W /\ y = (p * D) + (y % D) /\ y \in Nat /\ y > t /\ y % D \in 0 .. D - 1
    <3>1. y \div D \in Nat /\ y % D \in 0 .. D - 1 /\ y = ((y \div D) * D) + (y % D)
      BY <2>0, Divide
    <3> QED
      BY <1>12, <2>0, <3>1
  <2> HIDE DEF p
  <2>2. p * D \in Nat
    BY <2>1
  <2>3. p >= q
    <3> SUFFICES ASSUME p < q PROVE FALSE
      BY <1>1, <2>1
    <3>1. (p * D) + D <= q * D
      BY <1>1, <2>1, Blocks
    <3> QED
      BY <1>1, <1>5, <2>1, <2>2, <3>1
  <2>4. CASE p <= q + K
    <3>1. p - q \in 0 .. K /\ q + (p - q) = p
      BY <1>1, <2>1, <2>3, <2>4
    <3>2. z(p - q, y % D) = y
      BY <2>1, <3>1 DEF z
    <3>3. y \in L
      BY <1>2, <1>12, <2>1, <3>1, <3>2
    <3> QED
      BY <1>8, <3>3
  <2>5. CASE p > q + K
    <3>1. (q + K + 1) * D <= p * D
      <4>1. CASE p = q + K + 1
        BY <2>2, <4>1
      <4>2. CASE p > q + K + 1
        BY <1>1, <2>1, <4>2, Blocks
      <4> QED
        BY <1>1, <2>1, <2>5, <4>1, <4>2
    <3> QED
      BY <1>1, <1>5, <1>10, <2>1, <2>2, <3>1
  <2> QED
    BY <1>1, <2>1, <2>4, <2>5
<1> QED
  BY <1>7, <1>10, <1>11, <1>12 DEF L

\* A weekday comes in the next seven days.
LEMMA WeekdayComes ==
  ASSUME NEW q \in Nat, NEW K \in Nat \ {0}, NEW w \in 0 .. K - 1
  PROVE  \E o \in 1 .. K : (q + o) % K = w
<1> DEFINE v == q % K
           k == q \div K
<1>1. v \in 0 .. K - 1 /\ k \in Nat /\ q = (k * K) + v
  BY Divide
<1> HIDE DEF v, k
<1>2. k * K \in Nat /\ (k + 1) * K = (k * K) + K
  BY <1>1
<1>3. CASE w > v
  <2>1. w - v \in 1 .. K /\ q + (w - v) = (k * K) + w
    BY <1>1, <1>2, <1>3
  <2>2. ((k * K) + w) % K = w
    BY <1>1, Compose
  <2> QED
    BY <2>1, <2>2
<1>4. CASE w <= v
  <2>1. (w - v) + K \in 1 .. K /\ q + ((w - v) + K) = ((k + 1) * K) + w
    BY <1>1, <1>2, <1>4
  <2>2. (((k + 1) * K) + w) % K = w
    BY <1>1, Compose
  <2> QED
    BY <2>1, <2>2
<1> QED
  BY <1>1, <1>3, <1>4

LEMMA CalendarType ==
  /\ Days \in Nat \ {0} /\ Minutes \in Nat \ {0} /\ Day \in Nat \ {0}
  /\ Minutes <= (Days + 1) * Day /\ (Days + 1) * Day \in Nat
<1>1. Days \in Nat \ {0} /\ Hours \in Nat \ {0} /\ Minutes \in Nat \ {0}
  BY CalendarAssumption
<1>2. Day \in Nat /\ Day >= Minutes
  <2>1. PICK h \in Nat : Hours = h + 1
    <3>1. Hours - 1 \in Nat
      BY <1>1
    <3> QED
      BY <1>1, <3>1
  <2>2. Day = (h * Minutes) + Minutes /\ h * Minutes \in Nat
    BY <1>1, <2>1 DEF Day
  <2> QED
    BY <1>1, <2>2
<1>3. (Days + 1) * Day = (Days * Day) + Day /\ Days * Day \in Nat
  BY <1>1, <1>2
<1> QED
  BY <1>1, <1>2, <1>3

\* The slot that next_slot gives is due, and no earlier minute is.
LEMMA NextSlotIsNext ==
  ASSUME NEW s \in Schedule, s.times # {}, NEW t \in Nat
  PROVE  /\ NextSlot(s, t) \in t + 1 .. t + ((Days + 1) * Day)
         /\ IsDue(s, NextSlot(s, t))
         /\ \A y \in t + 1 .. t + ((Days + 1) * Day) : IsDue(s, y) => NextSlot(s, t) <= y
<1> DEFINE q == t \div Day
           x == NextSlot(s, t)
           range == t + 1 .. t + ((Days + 1) * Day)
<1>1. /\ s.times \in SUBSET (0 .. Day - 1) /\ s.times # {} /\ s.weekday \in 0 .. Days - 1
      /\ s.frequency \in {"hourly", "daily", "weekly"}
  BY DEF Schedule, Frequency, Time
<1>2. q \in Nat
  BY CalendarType, Divide
<1>3. CASE s.frequency = "hourly"
  <2> DEFINE m == Min(s.times) % Minutes
  <2>1. Min(s.times) \in Nat
    <3>1. s.times \in SUBSET Nat
      BY <1>1, CalendarType
    <3> QED
      BY <3>1, MinOfTimes
  <2>2. m \in 0 .. Minutes - 1
    BY <2>1, CalendarType, Divide
  <2>3. x = InHour(t, Minutes, m)
    BY <1>3 DEF NextSlot, InHour
  <2>4. \A y : IsDue(s, y) <=> y % Minutes = m
    BY <1>3 DEF IsDue
  <2> HIDE DEF m, x
  <2>5. /\ x \in t + 1 .. t + Minutes /\ x % Minutes = m
        /\ \A y \in Nat : y > t /\ y % Minutes = m => x <= y
    <3>1. Minutes \in Nat \ {0}
      BY CalendarType
    <3> QED
      BY <2>2, <2>3, <3>1, NextOfHour
  <2>6. x \in range
    BY <2>5, CalendarType
  <2>7. \A y \in range : y \in Nat /\ y > t
    BY CalendarType
  <2> QED
    BY <2>4, <2>5, <2>6, <2>7 DEF x
<1>4. CASE s.frequency # "hourly"
  <2> DEFINE W == {d \in Nat : s.frequency = "weekly" => d % Days = s.weekday}
             later == {((q + o) * Day) + c : o \in {d \in Offsets :
                          s.frequency = "weekly" => (q + d) % Days = s.weekday}, c \in s.times}
             L == Later(t, Day, Days, s.times, W)
  <2>1. {d \in Offsets : s.frequency = "weekly" => (q + d) % Days = s.weekday}
          = {d \in 0 .. Days : q + d \in W}
    BY <1>2, CalendarType DEF Offsets
  <2>2. \E o \in 1 .. Days : q + o \in W
    <3>1. Days \in Nat \ {0}
      BY CalendarType
    <3> HIDE DEF q
    <3>2. PICK o \in 1 .. Days : (q + o) % Days = s.weekday
      BY <1>1, <1>2, <3>1, WeekdayComes
    <3>3. q + o \in Nat
      BY <1>2, <3>1
    <3> QED
      BY <3>2, <3>3
  <2>3. L = {c \in later : c > t}
    BY <2>1 DEF Later
  <2>4. x = IF L # {} THEN Min(L) ELSE 0
    <3>1. x = IF \E c \in later : c > t THEN Min({c \in later : c > t}) ELSE 0
      BY <1>4 DEF NextSlot
    <3> HIDE DEF later, L, x
    <3>2. L # {} <=> \E c \in later : c > t
      BY <2>3
    <3> QED
      BY <2>3, <3>1, <3>2
  <2>5. \A y \in Nat : IsDue(s, y) <=> y \div Day \in W /\ y % Day \in s.times
    <3>1. \A y \in Nat : y \div Day \in Nat
      BY CalendarType, Divide
    <3> QED
      BY <1>1, <1>4, <3>1 DEF IsDue, Weekday
  <2>6. W \in SUBSET Nat
    OBVIOUS
  <2>7. /\ L # {}
        /\ Min(L) \in range
        /\ Min(L) \div Day \in W /\ Min(L) % Day \in s.times
        /\ \A y \in range : y \div Day \in W /\ y % Day \in s.times => Min(L) <= y
    <3>1. Days \in Nat /\ Day \in Nat \ {0}
      BY CalendarType
    <3> HIDE DEF L, W
    <3> QED
      BY <1>1, <2>2, <2>6, <3>1, NextOfDays DEF L
  <2>8. range \subseteq Nat
    BY CalendarType
  <2> HIDE DEF L, W, range, x
  <2> QED
    BY <2>4, <2>5, <2>7, <2>8 DEF range, x
<1> QED
  BY <1>3, <1>4

LEMMA StateType ==
  ASSUME TypeOK, NEW j \in Job
  PROVE  State(j) \in Schedule /\ State(j).times # {}
<1>1. control[j] = None \/ control[j] \in Control
  BY DEF TypeOK
<1>2. j \in Scans => source[j] = None \/ source[j] \in Source
  BY DEF TypeOK
<1>3. Times(j) \in SUBSET Time /\ Times(j) # {}
  BY <1>1, <1>2, JobAssumption DEF Times, Configured, HasSource, Control, Source
<1>4. 0 \in 0 .. Days - 1
  BY CalendarType
<1> QED
  BY <1>1, <1>3, <1>4 DEF State, Schedule, Control, Frequency

\* The label of the next run is the next minute a tick claims, for every calendar, at
\* every minute and after whatever was saved: eight days ahead are enough, because
\* today's weekday comes again in seven and its time may have passed.
THEOREM LabelIsNextDue == Spec => []NextRunIsNextDue
<1>1. TypeOK => NextRunIsNextDue
  <2> SUFFICES ASSUME TypeOK, NEW j \in Job
               PROVE  LET due == {t \in now + 1 .. now + (Days + 1) * Day : Due(j, t)} IN
                      /\ due # {} <=> Runs(j)
                      /\ NextRun(j) = IF due = {} THEN 0 ELSE Min(due)
    BY DEF NextRunIsNextDue
  <2> DEFINE due == {t \in now + 1 .. now + (Days + 1) * Day : Due(j, t)}
             x == NextSlot(State(j), now)
  <2>1. CASE ~Runs(j)
    BY <2>1 DEF Due, NextRun
  <2>2. CASE Runs(j)
    <3>1. \A t : Due(j, t) <=> IsDue(State(j), t)
      BY <2>2 DEF Due
    <3>2. now \in Nat
      BY DEF TypeOK
    <3>3. x \in due /\ \A y \in due : x <= y
      BY <3>1, <3>2, StateType, NextSlotIsNext
    <3>4. due \in SUBSET Nat
      BY <3>2, CalendarType
    <3> HIDE DEF due, x
    <3>5. Min(due) \in due /\ \A y \in due : Min(due) <= y
      BY <3>3, <3>4, MinOfTimes
    <3>6. Min(due) = x
      <4>1. Min(due) \in Nat /\ x \in Nat
        BY <3>3, <3>4, <3>5
      <4>2. Min(due) <= x /\ x <= Min(due)
        BY <3>3, <3>5
      <4> QED
        BY <4>1, <4>2
    <3>7. NextRun(j) = x
      BY <2>2 DEF NextRun, x
    <3> QED
      BY <2>2, <3>3, <3>6, <3>7 DEF due
  <2> QED
    BY <2>1, <2>2
<1>2. IInv => TypeOK
  BY DEF IInv
<1> QED
  BY <1>1, <1>2, Invariant, PTL

-----------------------------------------------------------------------------
\* A row of today, or one that a batch is about to insert, is for a subscriber
\* who chose a band and has no alert on its way, and is inserted once.
RowsAreNew ==
  \A s \in Subscriber :
    /\ rows[s] # NoBand => pc = "batch" /\ digest[s] = "none"
    /\ (rows[s] # NoBand \/ digest[s] # "none")
         => pref[s] # NoBand /\ alert[s] \in {"none", "CANCELLED"}

\* A mail was accepted for a row that says so.
MailsAreRows ==
  \A s \in Subscriber : got[s] = IF "SENT" \in {digest[s], alert[s]} THEN 1 ELSE 0

DigestInv == DigestTypeOK /\ RowsAreNew /\ MailsAreRows

LEMMA InitDigest == DigestInit => DigestInv
<1> SUFFICES ASSUME DigestInit PROVE DigestInv
  OBVIOUS
<1>1. NoRows \in [Subscriber -> Band \cup {NoBand}] /\ \A s \in Subscriber : NoRows[s] = NoBand
  BY DEF NoRows
<1>2. DigestTypeOK
  <2>1. /\ snapshot \in BOOLEAN /\ items \in [Band -> SUBSET Ipo]
        /\ digest \in [Subscriber -> Status] /\ alert \in [Subscriber -> Status]
    BY DEF DigestInit, Status
  <2>2. /\ category \in [Subscriber -> Band \cup {NoBand}] /\ got \in [Subscriber -> Nat]
        /\ rows \in [Subscriber -> Band \cup {NoBand}]
        /\ pc = "idle" /\ left = {} /\ lost \in 0 .. MaxLost
    BY <1>1, BoundAssumption DEF DigestInit
  <2> QED
    BY <2>1, <2>2 DEF DigestInit, DigestTypeOK
<1> QED
  BY <1>1, <1>2 DEF DigestInit, DigestInv, RowsAreNew, MailsAreRows

\* A campaign adds rows for candidates only, who have none of today.
LEMMA FillStep ==
  ASSUME DigestInv, NEW c \in Band, FillBatch(c)
  PROVE  DigestInv'
<1>1. \A s \in Subscriber : \/ rows'[s] = rows[s]
                            \/ /\ rows'[s] = c /\ digest[s] = "none"
                               /\ s \in Candidates(c)
  BY DEF FillBatch, First, DigestInv, DigestTypeOK
<1>2. \A s \in Candidates(c) : pref[s] = c /\ alert[s] \in {"none", "CANCELLED"}
  BY DEF Candidates, Contacted
<1>3. c # NoBand /\ NoBand = 0
  BY BoundAssumption DEF Band, NoBand
<1>4. DigestTypeOK'
  <2>1. rows' \in [Subscriber -> Band \cup {NoBand}]
    BY DEF FillBatch, DigestInv, DigestTypeOK
  <2> QED
    BY <2>1 DEF FillBatch, world, day, DigestInv, DigestTypeOK
<1>5. RowsAreNew'
  BY <1>1, <1>2, <1>3 DEF FillBatch, world, day, DigestInv, RowsAreNew
<1>6. MailsAreRows'
  BY DEF FillBatch, world, day, DigestInv, MailsAreRows
<1> QED
  BY <1>4, <1>5, <1>6 DEF DigestInv

LEMMA CommitStep ==
  ASSUME DigestInv, CommitBatch
  PROVE  DigestInv'
<1>1. DigestTypeOK'
  BY DEF CommitBatch, world, DigestInv, DigestTypeOK, NoRows, Status
<1>2. RowsAreNew'
  BY DEF CommitBatch, world, DigestInv, DigestTypeOK, RowsAreNew, NoRows
<1>3. MailsAreRows'
  BY DEF CommitBatch, world, DigestInv, DigestTypeOK, RowsAreNew, MailsAreRows
<1> QED
  BY <1>1, <1>2, <1>3 DEF DigestInv

\* A mail is accepted for a row that was waiting: neither row said so before.
LEMMA SendStep ==
  ASSUME DigestInv, NEW s \in Subscriber, SendDigest(s) \/ SendAlert(s)
  PROVE  DigestInv'
<1>1. PICK status \in {"SUPPRESSED", "SENT", "CANCELLED"} :
        /\ got' = Count(s, status)
        /\ \/ /\ digest[s] = "PENDING" /\ digest' = [digest EXCEPT ![s] = status]
              /\ alert' = alert
           \/ /\ alert[s] = "PENDING" /\ alert' = [alert EXCEPT ![s] = status]
              /\ digest' = digest
  BY DEF SendDigest, SendAlert, Outcome
<1>2. DigestTypeOK'
  BY <1>1 DEF SendDigest, SendAlert, world, tick, Count, DigestInv, DigestTypeOK, Status
<1>3. RowsAreNew'
  BY <1>1 DEF SendDigest, SendAlert, world, tick, DigestInv, DigestTypeOK, RowsAreNew
<1>4. digest[s] # "SENT" /\ alert[s] # "SENT"
  BY <1>1 DEF DigestInv, RowsAreNew
<1>5. MailsAreRows'
  <2> SUFFICES ASSUME NEW t \in Subscriber
               PROVE  got'[t] = IF "SENT" \in {digest'[t], alert'[t]} THEN 1 ELSE 0
    BY DEF MailsAreRows
  <2>1. CASE t # s
    BY <1>1, <2>1 DEF Count, DigestInv, DigestTypeOK, MailsAreRows
  <2>2. CASE t = s
    <3>1. got[s] = 0
      BY <1>4 DEF DigestInv, MailsAreRows
    <3>2. got'[s] = IF status = "SENT" THEN 1 ELSE 0
      BY <1>1, <3>1 DEF Count, DigestInv, DigestTypeOK
    <3>3. "SENT" \in {digest'[s], alert'[s]} <=> status = "SENT"
      BY <1>1, <1>4 DEF DigestInv, DigestTypeOK
    <3> QED
      BY <2>2, <3>2, <3>3
  <2> QED
    BY <2>1, <2>2
<1> QED
  BY <1>2, <1>3, <1>5 DEF DigestInv

\* The steps that leave the rows of the day alone, but for an alert of somebody
\* without a band.
LEMMA OtherDigestStep ==
  ASSUME DigestInv,
         \/ TakeSnapshot \/ Resume \/ LoseTick \/ UNCHANGED digestVars
         \/ \E s \in Subscriber : PrepareAlert(s) \/ Leave(s) \/ \E c \in Band : Confirm(s, c)
         \/ \E i \in Ipo : IpoChanges(i)
  PROVE  DigestInv'
<1> USE DEF DigestInv, world, day, tick
<1>1. CASE TakeSnapshot
  <2>1. items' \in [Band -> SUBSET Ipo]
    BY <1>1 DEF TakeSnapshot, DigestTypeOK
  <2>2. DigestTypeOK'
    BY <1>1, <2>1 DEF TakeSnapshot, DigestTypeOK
  <2> QED
    BY <1>1, <2>2 DEF TakeSnapshot, RowsAreNew, MailsAreRows
<1>2. CASE Resume
  BY <1>2 DEF Resume, DigestTypeOK, RowsAreNew, MailsAreRows
<1>3. CASE LoseTick
  BY <1>3, BoundAssumption DEF LoseTick, DigestTypeOK, RowsAreNew, MailsAreRows, NoRows
<1>4. CASE UNCHANGED digestVars
  BY <1>4 DEF digestVars, DigestTypeOK, RowsAreNew, MailsAreRows, Contacted
<1>5. ASSUME NEW s \in Subscriber, PrepareAlert(s) PROVE DigestInv'
  BY <1>5 DEF PrepareAlert, DigestTypeOK, RowsAreNew, MailsAreRows, Status
<1>6. ASSUME NEW s \in Subscriber, Leave(s) PROVE DigestInv'
  BY <1>6 DEF Leave, DigestTypeOK, RowsAreNew, MailsAreRows
<1>7. ASSUME NEW s \in Subscriber, NEW c \in Band, Confirm(s, c) PROVE DigestInv'
  <2>1. c # NoBand
    BY BoundAssumption DEF Band, NoBand
  <2> QED
    BY <1>7, <2>1 DEF Confirm, DigestTypeOK, RowsAreNew, MailsAreRows
<1>8. ASSUME NEW i \in Ipo, IpoChanges(i) PROVE DigestInv'
  BY <1>8 DEF IpoChanges, DigestTypeOK, RowsAreNew, MailsAreRows
<1> QED
  BY <1>1, <1>2, <1>3, <1>4, <1>5, <1>6, <1>7, <1>8

LEMMA NextDayStep ==
  ASSUME DigestInv, NextDay
  PROVE  DigestInv'
<1>1. NoRows \in [Subscriber -> Band \cup {NoBand}] /\ \A s \in Subscriber : NoRows[s] = NoBand
  BY DEF NoRows
<1>2. DigestTypeOK'
  BY <1>1 DEF NextDay, DigestInv, DigestTypeOK, Status
<1> QED
  BY <1>1, <1>2 DEF NextDay, DigestInv, RowsAreNew, MailsAreRows

\* Types, and how rows, batches and accepted mails belong together.
THEOREM DigestInvariant == DigestSpec => []DigestInv
<1>1. DigestInit => DigestInv
  BY InitDigest
<1>2. DigestInv /\ [DigestNext]_digestVars => DigestInv'
  BY FillStep, CommitStep, SendStep, OtherDigestStep, NextDayStep DEF DigestNext, Tick
<1> QED
  BY <1>1, <1>2, PTL DEF DigestSpec

\* Nobody gets a second mail in a day, whatever batches are repeated, ticks die
\* and preferences change.
THEOREM OneMail == DigestSpec => []OneMailADay
<1>1. DigestInv => OneMailADay
  BY DEF DigestInv, MailsAreRows, OneMailADay
<1> QED
  BY <1>1, DigestInvariant, PTL
=============================================================================
