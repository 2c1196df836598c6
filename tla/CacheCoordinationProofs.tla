---------------------- MODULE CacheCoordinationProofs ----------------------
(***************************************************************************)
(* Proofs about CacheCoordination, for every number of readers, writers,   *)
(* faults and commits, and every life of a key that LifeAssumption allows. *)
(* A writer may take longer than its lock and its marker live.             *)
(***************************************************************************)
EXTENDS CacheCoordinationInvariant, TLAPS

USE LifeAssumption, NoOneAssumption

\* An entry that survives a tick is one that was there, a unit closer to its end.
LEMMA TickEntries ==
  ASSUME TypeOK, Tick, NEW e \in entries'
  PROVE  /\ e \in [gen : Nat, val : 0 .. MaxVersion, left : 1 .. Ttl]
         /\ \E f \in entries : /\ f.left > 1
                               /\ e.gen = f.gen /\ e.val = f.val /\ e.left + 1 = f.left
<1>1. PICK f \in entries : f.left > 1 /\ e = [f EXCEPT !.left = @ - 1]
  BY DEF Tick
<1>2. f \in [gen : Nat, val : 0 .. MaxVersion, left : 1 .. Ttl]
  BY DEF TypeOK
<1>3. e.gen = f.gen /\ e.val = f.val /\ e.left = f.left - 1
  BY <1>1, <1>2
<1>4. e \in [gen : Nat, val : 0 .. MaxVersion, left : 1 .. Ttl]
  BY <1>1, <1>2
<1> QED BY <1>1, <1>2, <1>3, <1>4

LEMMA FaultType ==
  ASSUME TypeOK, Fault
  PROVE  faults' \in 0 .. MaxFaults
BY DEF TypeOK, Fault

-----------------------------------------------------------------------------
(* The initial states *)

LEMMA InitInv == Init => IInv
<1> SUFFICES ASSUME Init PROVE IInv
  OBVIOUS
<1>1. TypeOK
  BY DEF Init, TypeOK, SinceCap, WritePoint, ReadPoint
<1>2. VersionInv /\ KeyInv /\ FenceInv
  BY DEF Init, VersionInv, KeyInv, FenceInv
<1>3. SinceInv
  BY DEF Init, SinceInv
<1>4. LockInv
  BY DEF Init, LockInv
<1>5. CurrentInv /\ FloorInv
  BY DEF Init, CurrentInv, FloorInv, NotOlder, Found
<1> QED BY <1>1, <1>2, <1>3, <1>4, <1>5 DEF IInv, BaseInv

-----------------------------------------------------------------------------
(* The steps of a reader *)

\* A reader changes nothing but its own state, the entries and the faults.
LEMMA ReadType ==
  ASSUME BaseInv, NEW r \in Reader, Read(r)
  PROVE  TypeOK' /\ VersionInv' /\ KeyInv'
<1> USE DEF BaseInv, TypeOK, VersionInv, KeyInv, db, redis, writers, ReaderAt, ReadPoint
<1>1. CASE Begin(r)
  <2>0. rpc' \in [Reader -> ReadPoint] /\ faults' \in 0 .. MaxFaults
    BY <1>1, FaultType DEF Begin
  <2>3. /\ rage' \in [Reader -> 0 .. LoadLimit]
        /\ floor' \in [Reader -> 0 .. MaxVersion]
    BY <1>1 DEF Begin
  <2>1. TypeOK'
    BY <1>1, <2>0, <2>3 DEF Begin
  <2>2. VersionInv' /\ KeyInv'
    BY <1>1 DEF Begin
  <2> QED BY <2>1, <2>2
<1>2. CASE ReadGeneration(r)
  <2>1. TypeOK'
    BY <1>2 DEF ReadGeneration
  <2>2. VersionInv' /\ KeyInv'
    BY <1>2 DEF ReadGeneration
  <2> QED BY <2>1, <2>2
<1>3. CASE Get(r)
  <2>1. \A e \in Found(key[r]) : e.val \in 0 .. MaxVersion
    BY DEF Found
  <2>2. TypeOK'
    BY <1>3, <2>1 DEF Get
  <2>3. VersionInv' /\ KeyInv'
    BY <1>3 DEF Get
  <2> QED BY <2>2, <2>3
<1>4. CASE ReadFails(r)
  <2>1. TypeOK'
    BY <1>4, FaultType DEF ReadFails
  <2>2. VersionInv' /\ KeyInv'
    BY <1>4 DEF ReadFails
  <2> QED BY <2>1, <2>2
<1>5. CASE Load(r)
  <2>1. TypeOK'
    BY <1>5 DEF Load
  <2>2. VersionInv' /\ KeyInv'
    BY <1>5 DEF Load
  <2> QED BY <2>1, <2>2
<1>6. CASE Store(r)
  <2> DEFINE new == [gen |-> key[r], val |-> data[r], left |-> EntryLife]
  <2>1. /\ new \in [gen : Nat, val : 0 .. MaxVersion, left : 1 .. Ttl]
        /\ new.gen <= generation
    BY DEF EntryLife
  <2>2. \A e \in entries' : e \in entries \/ e = new
    BY <1>6 DEF Store, Found
  <2>3. entries' \subseteq [gen : Nat, val : 0 .. MaxVersion, left : 1 .. Ttl]
    BY <2>1, <2>2
  <2>4. \A e \in entries' : e.gen <= generation
    BY <2>1, <2>2
  <2> HIDE DEF new
  <2>5. faults' \in 0 .. MaxFaults
    BY <1>6, FaultType DEF Store
  <2>6. TypeOK'
    BY <1>6, <2>3, <2>5 DEF Store
  <2>7. VersionInv' /\ KeyInv'
    BY <1>6, <2>4 DEF Store
  <2> QED BY <2>6, <2>7
<1>7. CASE Return(r)
  <2>0. /\ rpc' \in [Reader -> ReadPoint] /\ rage' \in [Reader -> 0 .. LoadLimit]
        /\ key' \in [Reader -> Nat] /\ data' \in [Reader -> 0 .. MaxVersion]
    BY <1>7 DEF Return
  <2>3. floor' \in [Reader -> 0 .. MaxVersion]
    BY <1>7 DEF Return
  <2>1. TypeOK'
    BY <1>7, <2>0, <2>3 DEF Return
  <2>2. VersionInv' /\ KeyInv'
    BY <1>7 DEF Return
  <2> QED BY <2>1, <2>2
<1> QED BY <1>1, <1>2, <1>3, <1>4, <1>5, <1>6, <1>7 DEF Read

\* A reader starts without a marker, and stores entries no longer lived than one.
LEMMA ReadFence ==
  ASSUME BaseInv, NEW r \in Reader, Read(r)
  PROVE  FenceInv'
<1> USE DEF BaseInv, FenceInv, Keyed, db, redis, writers, ReaderAt
<1> TypeOK
  OBVIOUS
<1>1. CASE Begin(r)
  BY <1>1 DEF Begin, Bypass, TypeOK
<1>2. CASE ReadGeneration(r)
  BY <1>2 DEF ReadGeneration, TypeOK
<1>3. CASE Get(r)
  BY <1>3 DEF Get, TypeOK
<1>4. CASE ReadFails(r)
  BY <1>4 DEF ReadFails, TypeOK
<1>5. CASE Load(r)
  BY <1>5 DEF Load, TypeOK
<1>6. CASE Store(r)
  <2> DEFINE new == [gen |-> key[r], val |-> data[r], left |-> EntryLife]
  <2>1. \A e \in entries' : e \in entries \/ e = new
    BY <1>6 DEF Store, Found
  <2>2. rpc[r] = "store" /\ rage[r] <= LoadLimit /\ dirtyLeft' = dirtyLeft
    BY <1>6 DEF Store, TypeOK
  <2>3. dirtyLeft > 0 => new.left <= dirtyLeft
    BY <2>2 DEF EntryLife, TypeOK
  <2>4. dirtyLeft' > 0 => \A e \in entries' : e.left <= dirtyLeft'
    BY <2>1, <2>2, <2>3
  <2>5. \A q \in Reader : rpc'[q] \in Keyed => rpc[q] \in Keyed /\ rage'[q] = rage[q]
    BY <1>6 DEF Store, TypeOK
  <2> QED BY <2>2, <2>4, <2>5
<1>7. CASE Return(r)
  BY <1>7 DEF Return, TypeOK
<1> QED BY <1>1, <1>2, <1>3, <1>4, <1>5, <1>6, <1>7 DEF Read

\* What a reader stores lacks only what was committed while it was at work.
LEMMA ReadSince ==
  ASSUME BaseInv, NEW r \in Reader, Read(r)
  PROVE  SinceInv'
<1> USE DEF BaseInv, db, redis, writers, ReaderAt
<1>0. TypeOK /\ SinceInv /\ version' = version /\ since' = since
  BY DEF Read, Begin, ReadGeneration, Get, ReadFails, Load, Store, Return
<1> SUFFICES ASSUME NEW v \in 1 .. MaxVersion, v <= version
             PROVE  /\ \A e \in entries' : since[v] + e.left > Ttl + LoadLimit => e.val >= v
                    /\ \A q \in Reader :
                         /\ rpc'[q] = "store" => (since[v] > rage'[q] => data'[q] >= v)
                         /\ rpc'[q] = "done" =>
                              (since[v] >= Ttl + LoadLimit + rage'[q] => data'[q] >= v)
  BY <1>0 DEF SinceInv
<1>old. /\ \A e \in entries : since[v] + e.left > Ttl + LoadLimit => e.val >= v
        /\ \A q \in Reader :
             /\ rpc[q] = "store" => (since[v] > rage[q] => data[q] >= v)
             /\ rpc[q] = "done" =>
                  (since[v] >= Ttl + LoadLimit + rage[q] => data[q] >= v)
  BY <1>0 DEF SinceInv
<1>typ. since[v] \in Nat /\ rage[r] \in 0 .. LoadLimit /\ data[r] \in Nat /\ version \in Nat
  BY <1>0 DEF TypeOK, SinceCap
<1>1. CASE Begin(r)
  BY <1>1, <1>old, <1>0 DEF Begin, TypeOK
<1>2. CASE ReadGeneration(r)
  BY <1>2, <1>old, <1>0 DEF ReadGeneration, TypeOK
<1>3. CASE Get(r)
  <2>1. \A e \in Found(key[r]) :
          e \in entries /\ e.left \in 1 .. Ttl /\ e.val \in 0 .. MaxVersion
    BY <1>0 DEF Found, TypeOK
  <2>2. entries' = entries /\ rage' = rage
    BY <1>3 DEF Get
  <2>3. \A q \in Reader \ {r} : rpc'[q] = rpc[q] /\ data'[q] = data[q]
    BY <1>3, <1>0 DEF Get, TypeOK
  <2>4. CASE rpc'[r] = "done" /\ \E e \in Found(key[r]) : data'[r] = e.val
    <3>1. PICK e \in Found(key[r]) : data'[r] = e.val
      BY <2>4
    <3>2. since[v] >= Ttl + LoadLimit + rage[r] => e.val >= v
      BY <2>1, <1>old, <1>typ
    <3> QED BY <3>1, <3>2, <2>2, <2>3, <2>4, <1>old
  <2>5. CASE rpc'[r] = "miss"
    BY <2>5, <2>2, <2>3, <1>old
  <2> QED BY <1>3, <1>0, <2>4, <2>5 DEF Get, TypeOK
<1>4. CASE ReadFails(r)
  BY <1>4, <1>old, <1>0 DEF ReadFails, TypeOK
<1>5. CASE Load(r)
  BY <1>5, <1>old, <1>0 DEF Load, TypeOK
<1>6. CASE Store(r)
  <2> DEFINE new == [gen |-> key[r], val |-> data[r], left |-> EntryLife]
  <2>1. \A e \in entries' : e \in entries \/ e = new
    BY <1>6 DEF Store, Found
  <2>2. since[v] + new.left > Ttl + LoadLimit => new.val >= v
    BY <1>6, <1>typ, <1>old DEF Store, EntryLife
  <2>3. \A e \in entries' : since[v] + e.left > Ttl + LoadLimit => e.val >= v
    BY <2>1, <2>2, <1>old
  <2>4. \A q \in Reader : /\ rpc'[q] = "store" => rpc[q] = "store"
                          /\ rpc'[q] = "done" => rpc[q] = "done" \/ q = r
    BY <1>6, <1>0 DEF Store, TypeOK
  <2>7. rage' = rage /\ data' = data
    BY <1>6 DEF Store
  <2>5. since[v] >= Ttl + LoadLimit + rage[r] => data[r] >= v
    BY <1>6, <1>typ, <1>old DEF Store
  <2>6. ASSUME NEW q \in Reader
        PROVE  /\ rpc'[q] = "store" => (since[v] > rage'[q] => data'[q] >= v)
               /\ rpc'[q] = "done" =>
                    (since[v] >= Ttl + LoadLimit + rage'[q] => data'[q] >= v)
    BY <2>4, <2>5, <2>7, <1>old
  <2> QED BY <2>3, <2>6
<1>7. CASE Return(r)
  BY <1>7, <1>old, <1>0 DEF Return, TypeOK
<1> QED BY <1>1, <1>2, <1>3, <1>4, <1>5, <1>6, <1>7 DEF Read

-----------------------------------------------------------------------------
(* The steps of a writer *)

LEMMA WriteType ==
  ASSUME BaseInv, NEW w \in Writer, Write(w)
  PROVE  TypeOK' /\ VersionInv' /\ KeyInv'
<1> USE DEF BaseInv, TypeOK, VersionInv, KeyInv, db, redis, writers, readers, WriterAt, WritePoint
<1>1. CASE Acquire(w)
  <2>1. wpc' \in [Writer -> WritePoint] /\ wage' \in [Writer -> 0 .. CommitLimit]
    BY <1>1 DEF Acquire
  <2>2. TypeOK'
    BY <1>1, <2>1 DEF Acquire
  <2>3. VersionInv' /\ KeyInv'
    BY <1>1 DEF Acquire
  <2> QED BY <2>2, <2>3
<1>2. CASE Mark(w)
  <2>1. dirtyLeft' \in 0 .. DirtyLife /\ faults' \in 0 .. MaxFaults
    BY <1>2, FaultType DEF Mark, MarkerLife
  <2>2. TypeOK'
    BY <1>2, <2>1 DEF Mark
  <2>3. VersionInv' /\ KeyInv'
    BY <1>2 DEF Mark
  <2> QED BY <2>2, <2>3
<1>3. CASE Commit(w)
  <2>1. faults' \in 0 .. MaxFaults
    BY <1>3, FaultType DEF Commit
  <2>2. /\ version' \in 0 .. MaxVersion /\ published' \in 0 .. MaxVersion
        /\ published' <= version' /\ published <= published' /\ version <= version'
        /\ since' = since
    BY <1>3 DEF Commit, CommitData
  <2>3. TypeOK'
    BY <1>3, <2>1, <2>2 DEF Commit
  <2>4. floor' = floor /\ key' = key /\ entries' = entries /\ generation' = generation
    BY <1>3 DEF Commit
  <2>5. VersionInv'
    BY <2>2, <2>4
  <2>6. KeyInv'
    BY <2>4
  <2> QED BY <2>3, <2>5, <2>6
<1>4. CASE Invalidate(w)
  <2>1. /\ faults' \in 0 .. MaxFaults
        /\ generation' \in Nat /\ generation <= generation'
        /\ published' \in {published, version}
    BY <1>4, FaultType DEF Invalidate, Increment
  <2>2. UNCHANGED <<version, since, entries, dirtyLeft, lock, lockLeft, wage, rpc, rage, key, data, floor>>
    BY <1>4 DEF Invalidate
  <2>3. wpc' \in [Writer -> WritePoint]
    BY <1>4 DEF Invalidate
  <2>4. TypeOK'
    BY <2>1, <2>2, <2>3
  <2>5. published <= published' /\ published' <= version
    BY <2>1
  <2>6. VersionInv'
    BY <2>1, <2>2, <2>5
  <2>7. KeyInv'
    BY <2>1, <2>2
  <2> QED BY <2>4, <2>6, <2>7
<1>5. CASE Clear(w)
  <2>1. dirtyLeft' \in 0 .. DirtyLife /\ faults' \in 0 .. MaxFaults
    BY <1>5, FaultType DEF Clear
  <2>2. TypeOK'
    BY <1>5, <2>1 DEF Clear
  <2>3. VersionInv' /\ KeyInv'
    BY <1>5 DEF Clear
  <2> QED BY <2>2, <2>3
<1>6. CASE Release(w)
  <2>1. wpc' \in [Writer -> WritePoint] /\ wage' \in [Writer -> 0 .. CommitLimit]
    BY <1>6 DEF Release
  <2>2. TypeOK'
    BY <1>6, <2>1 DEF Release
  <2>3. VersionInv' /\ KeyInv'
    BY <1>6 DEF Release
  <2> QED BY <2>2, <2>3
<1>7. CASE Crash(w)
  <2>1. faults' \in 0 .. MaxFaults
    BY <1>7, FaultType DEF Crash
  <2>2. wpc' \in [Writer -> WritePoint] /\ wage' \in [Writer -> 0 .. CommitLimit]
    BY <1>7 DEF Crash
  <2>3. TypeOK'
    BY <1>7, <2>1, <2>2 DEF Crash
  <2>4. VersionInv' /\ KeyInv'
    BY <1>7 DEF Crash
  <2> QED BY <2>3, <2>4
<1> QED BY <1>1, <1>2, <1>3, <1>4, <1>5, <1>6, <1>7 DEF Write

\* The marker of Mark is longer than what any entry can last.
LEMMA WriteFence ==
  ASSUME BaseInv, NEW w \in Writer, Write(w)
  PROVE  FenceInv'
<1> USE DEF BaseInv, db, redis, readers
<1>1. entries' = entries /\ rpc' = rpc /\ rage' = rage
  BY DEF Write, Acquire, Mark, Commit, Invalidate, Clear, Release, Crash
<1>2. CASE dirtyLeft' \in {0, dirtyLeft}
  BY <1>1, <1>2 DEF FenceInv
<1>3. CASE dirtyLeft' = DirtyLife
  BY <1>1, <1>3 DEF FenceInv, TypeOK
<1>4. dirtyLeft' \in {0, dirtyLeft, DirtyLife}
  BY DEF Write, Acquire, Mark, MarkerLife, Commit, Invalidate, Clear, Release, Crash
<1> QED BY <1>2, <1>3, <1>4

\* A new version is zero old.
LEMMA WriteSince ==
  ASSUME BaseInv, NEW w \in Writer, Write(w)
  PROVE  SinceInv'
<1> USE DEF BaseInv, db, redis, readers
<1>1. /\ entries' = entries /\ rpc' = rpc /\ rage' = rage /\ data' = data /\ since' = since
      /\ version' \in {version, version + 1}
  BY DEF Write, Acquire, Mark, Commit, CommitData, Invalidate, Clear, Release, Crash
<1>2. \A v \in 1 .. MaxVersion : v <= version' => v <= version \/ since[v] = 0
  BY <1>1 DEF VersionInv, TypeOK
<1>3. \A e \in entries : e.left \in 1 .. Ttl
  BY DEF TypeOK
<1>4. \A r \in Reader : rage[r] \in 0 .. LoadLimit
  BY DEF TypeOK
<1> QED BY <1>1, <1>2, <1>3, <1>4 DEF SinceInv

LEMMA FilingStep ==
  ASSUME BaseInv, CommitFiling
  PROVE  BaseInv'
<1> USE DEF BaseInv, CommitFiling, redis, writers, readers
<1>1. TypeOK' /\ VersionInv' /\ KeyInv' /\ FenceInv'
  BY DEF TypeOK, VersionInv, KeyInv, FenceInv
<1>2. \A v \in 1 .. MaxVersion : v <= version' => v <= version \/ since[v] = 0
  BY DEF VersionInv, TypeOK
<1>3. \A e \in entries : e.left \in 1 .. Ttl
  BY DEF TypeOK
<1>4. \A r \in Reader : rage[r] \in 0 .. LoadLimit
  BY DEF TypeOK
<1>5. SinceInv'
  BY <1>2, <1>3, <1>4 DEF SinceInv
<1> QED BY <1>1, <1>5

-----------------------------------------------------------------------------
(* Time *)

LEMMA LeastType ==
  ASSUME NEW a \in Nat, NEW b \in Nat
  PROVE  Least(a, b) \in 0 .. b /\ Least(a, b) <= a
BY DEF Least

\* A reader at work gets older, within its limit.
LEMMA TickReaders ==
  ASSUME TypeOK, Tick, NEW r \in Reader
  PROVE  /\ rage'[r] \in 0 .. LoadLimit
         /\ rage[r] \in Nat
         /\ rpc[r] # "idle" => rage[r] < LoadLimit /\ rage'[r] = rage[r] + 1
<1>1. rage[r] \in 0 .. LoadLimit
  BY DEF TypeOK
<1>2. /\ rpc[r] # "idle" => rage[r] < LoadLimit
      /\ rage'[r] = IF rpc[r] = "idle" THEN 0 ELSE rage[r] + 1
  BY DEF Tick
<1> QED BY <1>1, <1>2

\* And so does a writer.
LEMMA TickWriters ==
  ASSUME TypeOK, Tick, NEW w \in Writer
  PROVE  /\ wage'[w] \in 0 .. CommitLimit
         /\ wpc[w] # "idle" => wage[w] < CommitLimit /\ wage'[w] = wage[w] + 1
<1>1. wage[w] \in 0 .. CommitLimit
  BY DEF TypeOK
<1>2. /\ wpc[w] # "idle" => wage[w] < CommitLimit
      /\ wage'[w] = IF wpc[w] = "idle" THEN 0 ELSE wage[w] + 1
  BY DEF Tick
<1> QED BY <1>1, <1>2

LEMMA TickStep ==
  ASSUME BaseInv, Tick
  PROVE  BaseInv'
<1> USE DEF BaseInv
<1>1. TypeOK'
  <2>1. entries' \subseteq [gen : Nat, val : 0 .. MaxVersion, left : 1 .. Ttl]
    BY TickEntries
  <2>2. since' \in [1 .. MaxVersion -> 0 .. SinceCap]
    <3>1. SinceCap \in Nat
      BY DEF SinceCap
    <3>2. \A v \in 1 .. MaxVersion : Least(since[v] + 1, SinceCap) \in 0 .. SinceCap
      <4> TAKE v \in 1 .. MaxVersion
      <4>1. since[v] \in 0 .. SinceCap
        BY DEF TypeOK
      <4>2. since[v] + 1 \in Nat
        BY <3>1, <4>1
      <4> QED BY <3>1, <4>2, LeastType
    <3>3. 0 \in 0 .. SinceCap
      BY <3>1
    <3> QED BY <3>2, <3>3 DEF Tick
  <2>3. /\ wage' \in [Writer -> 0 .. CommitLimit]
        /\ rage' \in [Reader -> 0 .. LoadLimit]
    <3>1. wage' = [w \in Writer |-> wage'[w]] /\ rage' = [r \in Reader |-> rage'[r]]
      BY DEF Tick
    <3>2. TypeOK
      OBVIOUS
    <3>3. \A w \in Writer : wage'[w] \in 0 .. CommitLimit
      BY <3>2, TickWriters
    <3>4. \A r \in Reader : rage'[r] \in 0 .. LoadLimit
      BY <3>2, TickReaders
    <3> HIDE DEF BaseInv
    <3>5. wage' \in [Writer -> 0 .. CommitLimit]
      BY <3>1, <3>3
    <3>6. rage' \in [Reader -> 0 .. LoadLimit]
      BY <3>1, <3>4
    <3> QED BY <3>5, <3>6
  <2>4. /\ dirtyLeft' \in 0 .. DirtyLife /\ lockLeft' \in 0 .. LockLife
        /\ lock' \in Writer \cup {NoOne}
    <3>1. dirtyLeft \in 0 .. DirtyLife /\ lockLeft \in 0 .. LockLife
      BY DEF TypeOK
    <3>2. Less(dirtyLeft) \in 0 .. DirtyLife /\ Less(lockLeft) \in 0 .. LockLife
      BY <3>1 DEF Less
    <3> QED BY <3>2 DEF Tick, TypeOK
  <2> QED BY <2>1, <2>2, <2>3, <2>4 DEF Tick, TypeOK
<1>2. VersionInv'
  BY DEF Tick, VersionInv, TypeOK
<1>3. KeyInv'
  BY TickEntries DEF Tick, KeyInv
<1>4. FenceInv'
  <2> SUFFICES ASSUME dirtyLeft' > 0
               PROVE  /\ \A e \in entries' : e.left <= dirtyLeft'
                      /\ \A r \in Reader :
                           rpc'[r] \in Keyed => LoadLimit + Ttl <= dirtyLeft' + rage'[r]
    BY DEF FenceInv
  <2>1. dirtyLeft > 0 /\ dirtyLeft' + 1 = dirtyLeft /\ dirtyLeft' \in Nat
    <3>1. dirtyLeft \in Nat
      BY DEF TypeOK
    <3>2. dirtyLeft' = IF dirtyLeft = 0 THEN 0 ELSE dirtyLeft - 1
      BY DEF Tick, Less
    <3> QED BY <3>1, <3>2
  <2>2. \A e \in entries' : e.left <= dirtyLeft'
    <3> TAKE e \in entries'
    <3>1. /\ e.left \in Nat
          /\ \E f \in entries : e.left + 1 = f.left
      BY TickEntries
    <3>2. \A f \in entries : f.left <= dirtyLeft
      BY <2>1 DEF FenceInv
    <3> QED BY <2>1, <3>1, <3>2
  <2>3. ASSUME NEW r \in Reader, rpc'[r] \in Keyed
        PROVE  LoadLimit + Ttl <= dirtyLeft' + rage'[r]
    <3>1. rpc[r] \in Keyed /\ rage'[r] = rage[r] + 1 /\ rage[r] \in Nat
      <4>1. rpc' = rpc /\ rpc[r] # "idle"
        BY <2>3 DEF Tick, Keyed
      <4> QED BY <2>3, <4>1, TickReaders
    <3> QED BY <2>1, <3>1 DEF FenceInv
  <2> QED BY <2>2, <2>3
<1>5. SinceInv'
  <2> SUFFICES ASSUME NEW v \in 1 .. MaxVersion, v <= version
               PROVE  /\ \A e \in entries' :
                           since'[v] + e.left > Ttl + LoadLimit => e.val >= v
                      /\ \A r \in Reader :
                           /\ rpc'[r] = "store" => (since'[v] > rage'[r] => data'[r] >= v)
                           /\ rpc'[r] = "done" =>
                                (since'[v] >= Ttl + LoadLimit + rage'[r] => data'[r] >= v)
    BY DEF SinceInv, Tick
  <2>1. since[v] \in Nat /\ since'[v] \in Nat /\ since'[v] <= since[v] + 1
    <3>1. SinceCap \in Nat /\ since[v] \in Nat
      BY DEF SinceCap, TypeOK
    <3>2. since'[v] = Least(since[v] + 1, SinceCap)
      BY DEF Tick
    <3>3. since[v] + 1 \in Nat
      BY <3>1
    <3>4. since'[v] \in 0 .. SinceCap /\ since'[v] <= since[v] + 1
      <4> DEFINE older == since[v] + 1
      <4>1. older \in Nat
        BY <3>3
      <4> HIDE DEF older
      <4>2. Least(older, SinceCap) \in 0 .. SinceCap /\ Least(older, SinceCap) <= older
        BY <3>1, <4>1, LeastType
      <4> QED BY <3>2, <4>2 DEF older
    <3> QED BY <3>1, <3>4
  <2>2. \A e \in entries' : since'[v] + e.left > Ttl + LoadLimit => e.val >= v
    <3> TAKE e \in entries'
    <3>1. /\ e.left \in Nat
          /\ \E f \in entries : e.left + 1 = f.left /\ e.val = f.val
      BY TickEntries
    <3> QED BY <2>1, <3>1 DEF SinceInv
  <2>3. ASSUME NEW r \in Reader, rpc'[r] \in {"store", "done"}
        PROVE  /\ rpc'[r] = "store" => (since'[v] > rage'[r] => data'[r] >= v)
               /\ rpc'[r] = "done" =>
                    (since'[v] >= Ttl + LoadLimit + rage'[r] => data'[r] >= v)
    <3>1. /\ rpc'[r] = rpc[r] /\ data'[r] = data[r]
          /\ rage'[r] = rage[r] + 1 /\ rage[r] \in Nat
      <4>1. rpc' = rpc /\ data' = data
        BY DEF Tick
      <4>2. rpc[r] # "idle"
        BY <2>3, <4>1
      <4>3. rage[r] \in Nat
        BY DEF TypeOK
      <4> QED BY <4>1, <4>2, <4>3, TickReaders
    <3> QED BY <2>1, <3>1 DEF SinceInv
  <2> QED BY <2>2, <2>3
<1> QED BY <1>1, <1>2, <1>3, <1>4, <1>5

LEMMA BaseStep == BaseInv /\ [Next]_vars => BaseInv'
<1> SUFFICES ASSUME BaseInv, [Next]_vars PROVE BaseInv'
  OBVIOUS
<1>1. ASSUME NEW r \in Reader, Read(r) PROVE BaseInv'
  BY <1>1, ReadType, ReadFence, ReadSince DEF BaseInv
<1>2. ASSUME NEW w \in Writer, Write(w) PROVE BaseInv'
  BY <1>2, WriteType, WriteFence, WriteSince DEF BaseInv
<1>3. CASE CommitFiling
  BY <1>3, FilingStep
<1>4. CASE Tick
  BY <1>4, TickStep
<1>5. CASE UNCHANGED vars
  BY <1>5 DEF vars, BaseInv, TypeOK, VersionInv, KeyInv, FenceInv, SinceInv
<1> QED BY <1>1, <1>2, <1>3, <1>4, <1>5 DEF Next

-----------------------------------------------------------------------------
(* What holds however long a writer takes *)

\* BaseInv is an invariant: types, versions, keys, the marker's reach and the
\* age of what is cached, for every value of the constants.
THEOREM BaseInvariant == Spec => []BaseInv
<1>1. Init => BaseInv
  BY InitInv DEF IInv
<1> QED BY <1>1, BaseStep, PTL DEF Spec

\* Type correctness: no entry outlives cache_ttl, no clock its limit.
THEOREM TypeCorrect == Spec => []TypeOK
<1>1. BaseInv => TypeOK
  BY DEF BaseInv
<1> QED BY <1>1, BaseInvariant, PTL

\* No reader is served a catalogue that lacks a change older than one loading
\* and one life of an entry, whatever writers, Redis and interim commits do.
THEOREM StalenessBounded == Spec => []StaleIsBounded
<1>1. BaseInv => StaleIsBounded
  BY DEF BaseInv, SinceInv, StaleIsBounded, TypeOK
<1> QED BY <1>1, BaseInvariant, PTL

-----------------------------------------------------------------------------
(* The lock *)

\* One writer's step leaves the others where they are.
LEMMA WriteLock ==
  ASSUME IInv, NEW w \in Writer, Write(w)
  PROVE  LockInv'
<1> USE DEF redis, WriterAt
<1>1. /\ lockLeft \in Nat /\ wpc \in [Writer -> WritePoint]
      /\ wage \in [Writer -> 0 .. CommitLimit]
  BY DEF IInv, BaseInv, TypeOK
<1>2. \A v \in Writer : wpc[v] # "idle" =>
         wage[v] >= LockLife \/ (lock = v /\ lockLeft + wage[v] >= LockLife)
  BY DEF IInv, LockInv
<1>3. CASE Acquire(w)
  <2>1. \A v \in Writer : wpc[v] # "idle" => wage[v] >= LockLife
    BY <1>2, <1>3 DEF Acquire, LockFree
  <2>2. /\ \A v \in Writer : v # w => wpc'[v] = wpc[v] /\ wage'[v] = wage[v]
        /\ wage'[w] = 0 /\ lock' = w /\ lockLeft' = LockLife
    BY <1>1, <1>3 DEF Acquire
  <2> QED BY <2>1, <2>2 DEF LockInv
<1>4. CASE Mark(w) \/ Commit(w) \/ Invalidate(w) \/ Clear(w)
  <2>1. /\ lock' = lock /\ lockLeft' = lockLeft /\ wage' = wage
        /\ \A v \in Writer : wpc'[v] # "idle" => wpc[v] # "idle"
    BY <1>1, <1>4 DEF Mark, Commit, Invalidate, Clear
  <2> QED BY <1>2, <2>1 DEF LockInv
<1>5. CASE Release(w) \/ Crash(w)
  <2>1. /\ wpc'[w] = "idle"
        /\ \A v \in Writer : v # w => wpc'[v] = wpc[v] /\ wage'[v] = wage[v]
        /\ lock # w => lock' = lock /\ lockLeft' = lockLeft
    BY <1>1, <1>5 DEF Release, Crash
  <2> QED BY <1>2, <2>1 DEF LockInv
<1> QED BY <1>3, <1>4, <1>5 DEF Write

\* The lock is lost when it is as old as it lives.
LEMMA TickLock ==
  ASSUME IInv, Tick
  PROVE  LockInv'
<1>1. wpc' = wpc
  BY DEF Tick
<1>2. ASSUME NEW w \in Writer, wpc[w] # "idle"
      PROVE  wage'[w] >= LockLife \/ (lock' = w /\ lockLeft' + wage'[w] >= LockLife)
  <2>1. lockLeft \in Nat /\ wage[w] \in Nat
    BY DEF IInv, BaseInv, TypeOK
  <2>2. wage'[w] = wage[w] + 1
    BY <1>2 DEF Tick
  <2>3. wage[w] >= LockLife \/ (lock = w /\ lockLeft + wage[w] >= LockLife)
    BY <1>2 DEF IInv, LockInv
  <2>4. CASE lockLeft > 1
    <3>1. lock' = lock /\ lockLeft' = lockLeft - 1
      BY <2>1, <2>4 DEF Tick, Less
    <3> QED BY <2>1, <2>2, <2>3, <3>1
  <2>5. CASE lockLeft <= 1
    BY <2>1, <2>2, <2>3, <2>5
  <2> QED BY <2>1, <2>4, <2>5
<1> QED BY <1>1, <1>2 DEF LockInv

LEMMA LockStep ==
  ASSUME IInv, [Next]_vars
  PROVE  LockInv'
<1>1. ASSUME UNCHANGED <<lock, lockLeft, wpc, wage>>
      PROVE  LockInv'
  BY <1>1 DEF IInv, LockInv
<1>2. ASSUME NEW r \in Reader, Read(r)
      PROVE  UNCHANGED <<lock, lockLeft, wpc, wage>>
  BY <1>2 DEF Read, Begin, ReadGeneration, Get, ReadFails, Load, Store, Return, redis, writers
<1>3. CASE CommitFiling \/ UNCHANGED vars
  BY <1>1, <1>3 DEF CommitFiling, vars, redis, writers
<1> QED BY <1>1, <1>2, <1>3, WriteLock, TickLock DEF Next

-----------------------------------------------------------------------------
(* Freshness *)

\* Nothing older than a version that exists comes into a generation that has
\* nothing older already.
LEMMA KeepNotOlder ==
  ASSUME BaseInv, [Next]_vars, NEW g \in Nat, NEW n \in Nat, n <= version, NotOlder(g, n)
  PROVE  NotOlder(g, n)'
<1> USE DEF redis, db, readers, ReaderAt
<1>1. TypeOK
  BY DEF BaseInv
<1>2. /\ \A e \in entries : e.gen = g => e.val >= n
      /\ \A r \in Reader : rpc[r] = "store" /\ key[r] = g => data[r] >= n
  BY DEF NotOlder, Found
<1>3. SUFFICES /\ \A e \in entries' : e.gen = g => e.val >= n
               /\ \A r \in Reader : rpc'[r] = "store" /\ key'[r] = g => data'[r] >= n
  BY DEF NotOlder, Found
<1>4. CASE UNCHANGED <<entries, rpc, key, data>>
  BY <1>2, <1>4
<1>5. ASSUME NEW r \in Reader, Begin(r) \/ ReadGeneration(r) \/ Get(r) \/ ReadFails(r) \/ Return(r)
      PROVE  /\ entries' = entries
             /\ rpc'[r] # "store"
             /\ \A q \in Reader : q # r =>
                  rpc'[q] = rpc[q] /\ key'[q] = key[q] /\ data'[q] = data[q]
  BY <1>1, <1>5 DEF Begin, ReadGeneration, Get, ReadFails, Return, TypeOK
<1>6. ASSUME NEW r \in Reader, Load(r)
      PROVE  /\ entries' = entries /\ data'[r] = version
             /\ \A q \in Reader : q # r =>
                  rpc'[q] = rpc[q] /\ key'[q] = key[q] /\ data'[q] = data[q]
  BY <1>1, <1>6 DEF Load, TypeOK
<1>7. ASSUME NEW r \in Reader, Store(r)
      PROVE  /\ \A e \in entries' : e.gen = g => e.val >= n
             /\ \A q \in Reader : rpc'[q] = "store" /\ key'[q] = g => data'[q] >= n
  <2> DEFINE new == [gen |-> key[r], val |-> data[r], left |-> EntryLife]
  <2>1. \A e \in entries' : e \in entries \/ e = new
    BY <1>7 DEF Store, Found
  <2>2. new.gen = g => new.val >= n
    BY <1>2, <1>7 DEF Store
  <2>3. \A q \in Reader : rpc'[q] = "store" => rpc[q] = "store"
    BY <1>1, <1>7 DEF Store, TypeOK
  <2>4. key' = key /\ data' = data
    BY <1>7 DEF Store
  <2> QED BY <1>2, <2>1, <2>2, <2>3, <2>4
<1>8. CASE Tick
  <2>1. rpc' = rpc /\ key' = key /\ data' = data
    BY <1>8 DEF Tick
  <2>2. \A e \in entries' : \E f \in entries : e.gen = f.gen /\ e.val = f.val
    BY <1>1, <1>8, TickEntries
  <2> QED BY <1>2, <2>1, <2>2
<1>9. ASSUME NEW w \in Writer, Write(w)
      PROVE  UNCHANGED <<entries, rpc, key, data>>
  BY <1>9 DEF Write, Acquire, Mark, Commit, Invalidate, Clear, Release, Crash
<1>10. CASE CommitFiling \/ UNCHANGED vars
  BY <1>4, <1>10 DEF CommitFiling, vars
<1>11. ASSUME NEW r \in Reader, Read(r)
       PROVE  /\ \A e \in entries' : e.gen = g => e.val >= n
              /\ \A q \in Reader : rpc'[q] = "store" /\ key'[q] = g => data'[q] >= n
  BY <1>2, <1>5, <1>6, <1>7, <1>11 DEF Read
<1> QED BY <1>4, <1>8, <1>9, <1>10, <1>11 DEF Next

\* A generation nobody has used yet has nothing old.
LEMMA NewGeneration ==
  ASSUME BaseInv, NEW n
  PROVE  NotOlder(generation + 1, n)
<1>1. \A e \in entries : e.gen \in Nat /\ e.gen <= generation
  BY DEF BaseInv, TypeOK, KeyInv
<1>2. \A r \in Reader : key[r] \in Nat /\ key[r] <= generation
  BY DEF BaseInv, TypeOK, KeyInv
<1>3. generation \in Nat
  BY DEF BaseInv, TypeOK
<1> QED BY <1>1, <1>2, <1>3 DEF NotOlder, Found

\* When the marker expires, so has everything it covered.
LEMMA MarkerExpires ==
  ASSUME BaseInv, Tick, dirtyLeft > 0, dirtyLeft' = 0, NEW g, NEW n
  PROVE  NotOlder(g, n)'
<1>1. TypeOK
  BY DEF BaseInv
<1>2. dirtyLeft = 1
  <2>1. dirtyLeft \in Nat
    BY <1>1 DEF TypeOK
  <2>2. dirtyLeft' = IF dirtyLeft = 0 THEN 0 ELSE dirtyLeft - 1
    BY DEF Tick, Less
  <2> QED BY <2>1, <2>2
<1>3. entries' = {}
  <2> SUFFICES ASSUME NEW e \in entries' PROVE FALSE
    OBVIOUS
  <2>1. PICK f \in entries : f.left > 1
    BY <1>1, TickEntries
  <2>2. f.left <= 1 /\ f.left \in Nat
    BY <1>1, <1>2 DEF BaseInv, FenceInv, TypeOK
  <2> QED BY <2>1, <2>2
<1>4. ASSUME NEW r \in Reader, rpc'[r] = "store"
      PROVE  FALSE
  <2>1. rpc[r] = "store"
    BY <1>4 DEF Tick
  <2>2. rage[r] \in Nat /\ rage[r] < LoadLimit
    BY <1>1, <2>1, TickReaders
  <2>3. LoadLimit + Ttl <= 1 + rage[r]
    BY <1>2, <2>1 DEF BaseInv, FenceInv, Keyed
  <2> QED BY <2>2, <2>3
<1> QED BY <1>3, <1>4 DEF NotOlder, Found

\* What the cache has is not made old by a step that publishes nothing.
LEMMA StaysCurrent ==
  ASSUME BaseInv, [Next]_vars, NotOlder(generation, published),
         generation' = generation, published' = published
  PROVE  NotOlder(generation, published)'
<1> DEFINE g == generation
           n == published
<1>1. g \in Nat /\ n \in Nat /\ n <= version
  BY DEF BaseInv, TypeOK, VersionInv
<1>2. PICK i \in Nat, j \in Nat : i = g /\ j = n
  BY <1>1
<1>3. NotOlder(i, j)'
  BY <1>1, <1>2, KeepNotOlder
<1> QED BY <1>2, <1>3 DEF NotOlder, Found

\* Every way to a cache that readers trust leaves nothing old in its generation.
LEMMA CurrentStep ==
  ASSUME IInv, [Next]_vars
  PROVE  CurrentInv'
<1> DEFINE Trusted == dirtyLeft = 0 \/ \E w \in Writer : wpc[w] = "invalidated"
<1> SUFFICES ASSUME Trusted' PROVE NotOlder(generation, published)'
  BY DEF CurrentInv
<1>1. BaseInv /\ TypeOK /\ (Trusted => NotOlder(generation, published))
  BY DEF IInv, BaseInv, CurrentInv
<1>2. CASE Trusted /\ generation' = generation /\ published' = published
  BY <1>1, <1>2, StaysCurrent
<1>3. ASSUME NEW r \in Reader, Read(r)
      PROVE  UNCHANGED <<generation, published, dirtyLeft, wpc>>
  BY <1>3 DEF Read, Begin, ReadGeneration, Get, ReadFails, Load, Store, Return, db, redis, writers
<1>4. CASE CommitFiling \/ UNCHANGED vars
  BY <1>2, <1>4 DEF CommitFiling, vars, redis, writers
<1>5. CASE Tick
  <2>1. UNCHANGED <<generation, published, wpc>>
    BY <1>5 DEF Tick
  <2>2. CASE Trusted
    BY <1>2, <2>1, <2>2
  <2>3. CASE ~Trusted
    <3>1. dirtyLeft > 0 /\ dirtyLeft' = 0
      BY <1>1, <2>1, <2>3 DEF TypeOK
    <3>2. \A g, n : NotOlder(g, n)'
      BY <1>1, <1>5, <3>1, MarkerExpires
    <3> QED BY <3>2 DEF NotOlder, Found
  <2> QED BY <2>2, <2>3
<1>6. ASSUME NEW w \in Writer, Write(w)
      PROVE  NotOlder(generation, published)'
  <2> USE DEF db, redis, WriterAt
  <2>1. wpc \in [Writer -> WritePoint] /\ dirtyLeft \in Nat
    BY <1>1 DEF TypeOK
  <2>2. UNCHANGED <<entries, rpc, key, data>>
    BY <1>6 DEF Write, Acquire, Mark, Commit, Invalidate, Clear, Release, Crash, readers
  <2>3. ASSUME UNCHANGED <<generation, published>>,
               dirtyLeft' = 0 => Trusted,
               \A v \in Writer : wpc'[v] = "invalidated" => Trusted
        PROVE  NotOlder(generation, published)'
    BY <1>2, <2>3
  <2>4. CASE Acquire(w) \/ Release(w) \/ Crash(w)
    <3>1. /\ UNCHANGED <<generation, published, dirtyLeft>>
          /\ \A v \in Writer : wpc'[v] = "invalidated" => wpc[v] = "invalidated"
      BY <2>1, <2>4 DEF Acquire, Release, Crash
    <3> QED BY <2>3, <3>1
  <2>5. CASE Mark(w)
    <3>1. /\ UNCHANGED <<generation, published>> /\ dirtyLeft' \in {dirtyLeft, DirtyLife}
          /\ \A v \in Writer : wpc'[v] = "invalidated" => wpc[v] = "invalidated"
      BY <2>1, <2>5 DEF Mark, MarkerLife
    <3> QED BY <2>3, <3>1
  <2>6. CASE Commit(w)
    <3>1. /\ generation' = generation /\ dirtyLeft' = dirtyLeft /\ wpc[w] = "marked"
          /\ wpc'[w] # "invalidated" /\ \A v \in Writer : v # w => wpc'[v] = wpc[v]
      BY <2>1, <2>6 DEF Commit
    <3>2. CASE published' = published
      BY <2>3, <3>1, <3>2
    <3>3. CASE published' # published
      <4>1. Covered(w)
        BY <2>6, <3>3 DEF Commit, CommitData
      <4>2. dirtyLeft' # 0 /\ \A v \in Writer : wpc'[v] # "invalidated"
        BY <2>1, <3>1, <4>1 DEF Covered
      <4> QED BY <4>2
    <3> QED BY <3>2, <3>3
  <2>7. CASE Invalidate(w)
    <3>1. dirtyLeft' = dirtyLeft /\ (Increment \/ UNCHANGED <<generation, published>>)
      BY <2>7 DEF Invalidate
    <3>2. CASE Increment
      <4>1. generation' = generation + 1 /\ published' = version
        BY <3>2 DEF Increment
      <4>2. NotOlder(generation + 1, version)
        BY <1>1, NewGeneration
      <4> QED BY <2>2, <4>1, <4>2 DEF NotOlder, Found
    <3>3. CASE UNCHANGED <<generation, published>> /\ ~Increment
      <4>1. \A v \in Writer : wpc'[v] = "invalidated" => wpc[v] = "invalidated"
        BY <2>1, <2>7, <3>3 DEF Invalidate
      <4> QED BY <2>3, <3>1, <3>3, <4>1
    <3> QED BY <3>1, <3>2, <3>3
  <2>8. CASE Clear(w)
    <3>1. UNCHANGED <<generation, published>> /\ wpc[w] = "invalidated"
      BY <2>8 DEF Clear
    <3> QED BY <1>2, <3>1
  <2> QED BY <1>6, <2>4, <2>5, <2>6, <2>7, <2>8 DEF Write
<1>7. ASSUME NEW r \in Reader, Read(r) PROVE NotOlder(generation, published)'
  BY <1>2, <1>3, <1>7
<1> QED BY <1>4, <1>5, <1>6, <1>7 DEF Next

\* A reader without a marker is on a generation that is not older than its floor.
LEMMA FloorStep ==
  ASSUME IInv, [Next]_vars
  PROVE  FloorInv'
<1> SUFFICES ASSUME NEW q \in Reader
             PROVE  /\ rpc'[q] = "generation" => NotOlder(generation, floor[q])'
                    /\ rpc'[q] = "get" => NotOlder(key[q], floor[q])'
                    /\ rpc'[q] \in {"store", "done"} => data'[q] >= floor'[q]
  BY DEF FloorInv
<1>1. BaseInv /\ TypeOK
  BY DEF IInv, BaseInv
<1>2. /\ rpc[q] = "generation" => NotOlder(generation, floor[q])
      /\ rpc[q] = "get" => NotOlder(key[q], floor[q])
      /\ rpc[q] \in {"store", "done"} => data[q] >= floor[q]
  BY DEF IInv, FloorInv
<1>3. /\ generation \in Nat /\ key[q] \in Nat /\ floor[q] \in Nat /\ version \in Nat
      /\ published \in Nat /\ published <= version /\ floor[q] <= version
  BY <1>1 DEF BaseInv, TypeOK, VersionInv
<1>4. ASSUME NEW g \in Nat, NEW n \in Nat, n <= version, NotOlder(g, n)
      PROVE  NotOlder(g, n)'
  BY <1>1, <1>4, KeepNotOlder
<1>5. ASSUME rpc'[q] = rpc[q], floor'[q] = floor[q], data'[q] = data[q], key'[q] = key[q],
             generation' = generation
      PROVE  /\ rpc'[q] = "generation" => NotOlder(generation, floor[q])'
             /\ rpc'[q] = "get" => NotOlder(key[q], floor[q])'
             /\ rpc'[q] \in {"store", "done"} => data'[q] >= floor'[q]
  <2>1. PICK i \in Nat, j \in Nat, n \in Nat : i = generation /\ j = key[q] /\ n = floor[q]
    BY <1>3
  <2>2. /\ rpc[q] = "generation" => NotOlder(i, n)'
        /\ rpc[q] = "get" => NotOlder(j, n)'
    BY <1>2, <1>3, <1>4, <2>1
  <2>3. rpc'[q] = "generation" => NotOlder(generation, floor[q])'
    BY <1>5, <2>1, <2>2 DEF NotOlder, Found
  <2>4. rpc'[q] = "get" => NotOlder(key[q], floor[q])'
    BY <1>5, <2>1, <2>2 DEF NotOlder, Found
  <2> QED BY <1>2, <1>5, <2>3, <2>4
<1>6. ASSUME NEW r \in Reader, Read(r)
      PROVE  /\ rpc'[q] = "generation" => NotOlder(generation, floor[q])'
             /\ rpc'[q] = "get" => NotOlder(key[q], floor[q])'
             /\ rpc'[q] \in {"store", "done"} => data'[q] >= floor'[q]
  <2> USE DEF db, redis, ReaderAt
  <2>1. CASE r # q
    <3>1. /\ rpc'[q] = rpc[q] /\ floor'[q] = floor[q] /\ data'[q] = data[q]
          /\ key'[q] = key[q] /\ generation' = generation
      BY <1>1, <1>6, <2>1
      DEF Read, Begin, ReadGeneration, Get, ReadFails, Load, Store, Return, TypeOK
    <3> QED BY <1>5, <3>1
  <2>2. CASE r = q /\ Begin(q)
    <3>1. /\ rpc'[q] \in {"generation", "bypass"}
          /\ floor'[q] = published /\ generation' = generation
      BY <1>1, <2>2 DEF Begin, TypeOK
    <3>2. ASSUME rpc'[q] = "generation" PROVE NotOlder(generation, floor[q])'
      <4>1. dirtyLeft = 0
        BY <1>1, <2>2, <3>2 DEF Begin, Bypass, TypeOK
      <4>2. NotOlder(generation, published)
        BY <4>1 DEF IInv, CurrentInv
      <4>3. PICK i \in Nat, n \in Nat : i = generation /\ n = published
        BY <1>3
      <4>4. NotOlder(i, n)'
        BY <1>3, <1>4, <4>2, <4>3
      <4> QED BY <3>1, <4>3, <4>4 DEF NotOlder, Found
    <3> QED BY <3>1, <3>2
  <2>3. CASE r = q /\ ReadGeneration(q)
    <3>1. /\ rpc[q] = "generation" /\ rpc'[q] = "get"
          /\ key'[q] = generation /\ floor'[q] = floor[q]
      BY <1>1, <2>3 DEF ReadGeneration, TypeOK
    <3>2. PICK i \in Nat, n \in Nat : i = generation /\ n = floor[q]
      BY <1>3
    <3>3. NotOlder(i, n)'
      BY <1>2, <1>3, <1>4, <3>1, <3>2
    <3>4. NotOlder(key[q], floor[q])'
      BY <3>1, <3>2, <3>3 DEF NotOlder, Found
    <3> QED BY <3>1, <3>4
  <2>4. CASE r = q /\ Get(q)
    <3>1. /\ rpc[q] = "get" /\ floor'[q] = floor[q]
          /\ rpc'[q] = "miss" \/
               (rpc'[q] = "done" /\ \E e \in Found(key[q]) : data'[q] = e.val)
      BY <1>1, <2>4 DEF Get, TypeOK
    <3>2. \A e \in Found(key[q]) : e.val >= floor[q]
      BY <1>2, <3>1 DEF NotOlder
    <3> QED BY <3>1, <3>2
  <2>5. CASE r = q /\ ReadFails(q)
    BY <1>1, <2>5 DEF ReadFails, TypeOK
  <2>6. CASE r = q /\ Load(q)
    BY <1>1, <1>3, <2>6 DEF Load, TypeOK
  <2>7. CASE r = q /\ Store(q)
    BY <1>1, <1>2, <2>7 DEF Store, TypeOK
  <2>8. CASE r = q /\ Return(q)
    BY <1>1, <2>8 DEF Return, TypeOK
  <2> QED BY <1>6, <2>1, <2>2, <2>3, <2>4, <2>5, <2>6, <2>7, <2>8 DEF Read
<1>7. ASSUME NEW w \in Writer, Write(w)
      PROVE  /\ rpc'[q] = "generation" => NotOlder(generation, floor[q])'
             /\ rpc'[q] = "get" => NotOlder(key[q], floor[q])'
             /\ rpc'[q] \in {"store", "done"} => data'[q] >= floor'[q]
  <2>1. UNCHANGED <<rpc, key, data, floor, entries>>
    BY <1>7 DEF Write, Acquire, Mark, Commit, Invalidate, Clear, Release, Crash, readers, redis
  <2>2. generation' \in {generation, generation + 1}
    BY <1>7 DEF Write, Acquire, Mark, Commit, Invalidate, Increment, Clear, Release, Crash, redis
  <2>3. CASE generation' = generation
    BY <1>5, <2>1, <2>3
  <2>4. CASE generation' = generation + 1
    <3>1. NotOlder(generation + 1, floor[q])
      BY <1>1, NewGeneration
    <3>2. NotOlder(generation, floor[q])'
      BY <2>1, <2>4, <3>1 DEF NotOlder, Found
    <3>3. rpc[q] = "get" => NotOlder(key[q], floor[q])'
      BY <1>2, <2>1 DEF NotOlder, Found
    <3> QED BY <1>2, <2>1, <3>2, <3>3
  <2> QED BY <2>2, <2>3, <2>4
<1>8. CASE CommitFiling \/ Tick \/ UNCHANGED vars
  <2>1. UNCHANGED <<rpc, floor, data, key, generation>>
    BY <1>8 DEF CommitFiling, Tick, vars, readers, redis
  <2> QED BY <1>5, <2>1
<1> QED BY <1>6, <1>7, <1>8 DEF Next

LEMMA NextInv == IInv /\ [Next]_vars => IInv'
BY BaseStep, LockStep, CurrentStep, FloorStep DEF IInv

-----------------------------------------------------------------------------
(* What readers and writers are promised *)

\* IInv is an invariant, however long a writer takes.
THEOREM Invariant == Spec => []IInv
<1>1. IInv /\ [Next]_vars => IInv'
  BY NextInv
<1> QED BY <1>1, InitInv, PTL DEF Spec

\* No read is older than what was promised before it began, through slow stores,
\* failing calls, dying and overlapping writers and expiring keys.
THEOREM ReadsAreFresh == Spec => []FreshReads
<1>1. IInv => FreshReads
  BY DEF IInv, FloorInv, FreshReads
<1> QED BY <1>1, Invariant, PTL

\* One writer at a time from its marker to the end of its invalidation, unless it
\* has outlived its lock.
THEOREM CommitsAreSerial == Spec => []SerialCommits
<1>1. IInv => SerialCommits
  BY DEF IInv, LockInv, SerialCommits
<1> QED BY <1>1, Invariant, PTL

\* An entry of the current generation that lacks a published change is covered
\* by the marker until it expires.
THEOREM MarkerCoversOldEntries == Spec => []MarkerOutlivesOldEntries
<1>1. IInv => MarkerOutlivesOldEntries
  <2> SUFFICES ASSUME IInv, NEW e \in Found(generation), e.val < published
               PROVE  e.left <= dirtyLeft
    BY DEF MarkerOutlivesOldEntries
  <2>1. e \in entries /\ e.val \in Nat /\ published \in Nat /\ dirtyLeft \in Nat
    BY DEF Found, IInv, BaseInv, TypeOK
  <2>2. ~NotOlder(generation, published)
    BY <2>1 DEF NotOlder
  <2>3. dirtyLeft > 0
    BY <2>1, <2>2 DEF IInv, CurrentInv
  <2> QED BY <2>1, <2>3 DEF IInv, BaseInv, FenceInv
<1> QED BY <1>1, Invariant, PTL
=============================================================================
