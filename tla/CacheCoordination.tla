------------------------- MODULE CacheCoordination -------------------------
(***************************************************************************)
(* The public cache: the catalogue is kept in Redis under a key that has   *)
(* the current generation in it.  A writer of public data takes the lock   *)
(* cache:writer, sets the marker cache:dirty, commits, increments the      *)
(* generation and deletes the marker; a reader that sees the marker goes   *)
(* to the database.                                                        *)
(*                                                                         *)
(* Every step is one call of Redis or PostgreSQL, and every call of Redis  *)
(* may fail, with or without having had its effect.  The catalogue is      *)
(* represented by the number of commits it shows.  Time is discrete; the   *)
(* lock, the marker and the entries expire.                                *)
(***************************************************************************)
EXTENDS Naturals, FiniteSets

CONSTANTS
  Reader, Writer,
  NoOne,        \* no writer
  LockLife,     \* timeout of cache:writer
  DirtyLife,    \* ex of cache:dirty
  Ttl,          \* cache_ttl
  CommitLimit,  \* how long a writer takes from the lock to its release
  LoadLimit,    \* how long a reader takes from its first call to its last
  MaxVersion, MaxFaults  \* bounds of the model

ASSUME NoOneAssumption == NoOne \notin Writer
ASSUME LifeAssumption ==
  /\ LockLife \in Nat \ {0} /\ DirtyLife \in Nat /\ Ttl \in Nat \ {0}
  /\ CommitLimit \in Nat /\ LoadLimit \in Nat /\ MaxVersion \in Nat /\ MaxFaults \in Nat
  /\ LockLife <= DirtyLife
  /\ Ttl + LoadLimit <= DirtyLife

VARIABLES
  version,      \* commits so far
  published,    \* the version readers are promised (history variable)
  since,        \* since[v]: time since version v was committed
  generation, entries, dirtyLeft, lock, lockLeft,  \* Redis
  wpc, wage,    \* per writer: next step, time since it took the lock
  rpc, rage,    \* per reader: next step, time since its first call
  key, data,    \* per reader: generation read, version it serves
  floor,        \* published when it began (history variable)
  faults

db == <<version, published, since>>
redis == <<generation, entries, dirtyLeft, lock, lockLeft>>
writers == <<wpc, wage>>
readers == <<rpc, rage, key, data, floor>>
vars == <<version, published, since, generation, entries, dirtyLeft, lock, lockLeft,
          wpc, wage, rpc, rage, key, data, floor, faults>>

WritePoint == {"idle", "locked", "marked", "committed", "invalidated", "leaving"}
ReadPoint == {"idle", "generation", "get", "miss", "store", "bypass", "done"}
SinceCap == Ttl + 2 * LoadLimit + 1   \* no comparison tells older commits apart

TypeOK ==
  /\ version \in 0 .. MaxVersion /\ published \in 0 .. MaxVersion
  /\ since \in [1 .. MaxVersion -> 0 .. SinceCap]
  /\ generation \in Nat
  /\ entries \subseteq [gen : Nat, val : 0 .. MaxVersion, left : 1 .. Ttl]
  /\ dirtyLeft \in 0 .. DirtyLife
  /\ lock \in Writer \cup {NoOne} /\ lockLeft \in 0 .. LockLife
  /\ wpc \in [Writer -> WritePoint] /\ wage \in [Writer -> 0 .. CommitLimit]
  /\ rpc \in [Reader -> ReadPoint] /\ rage \in [Reader -> 0 .. LoadLimit]
  /\ key \in [Reader -> Nat] /\ data \in [Reader -> 0 .. MaxVersion]
  /\ floor \in [Reader -> 0 .. MaxVersion]
  /\ faults \in 0 .. MaxFaults

Init ==
  /\ version = 0 /\ published = 0 /\ since = [v \in 1 .. MaxVersion |-> 0]
  /\ generation = 0 /\ entries = {} /\ dirtyLeft = 0
  /\ lock = NoOne /\ lockLeft = 0
  /\ wpc = [w \in Writer |-> "idle"] /\ wage = [w \in Writer |-> 0]
  /\ rpc = [r \in Reader |-> "idle"] /\ rage = [r \in Reader |-> 0]
  /\ key = [r \in Reader |-> 0] /\ data = [r \in Reader |-> 0]
  /\ floor = [r \in Reader |-> 0]
  /\ faults = 0

-----------------------------------------------------------------------------
Least(a, b) == IF a <= b THEN a ELSE b

Fault == faults < MaxFaults /\ faults' = faults + 1

\* Faulty: the reader trusts the generation alone.
BypassNever == FALSE

\* exists("cache:dirty")
Bypass == dirtyLeft > 0

\* Faulty: a lock that does not exclude.
LockFreeAlways == TRUE

\* SET NX of the lock's token succeeds.
LockFree == lock = NoOne

\* Faulty: a marker that lives as long as an entry.
MarkerLifeTtl == Ttl

\* ex = max(2 * cache_ttl, 300)
MarkerLife == DirtyLife

\* Faulty: entries that live as long as the marker.
EntryLifeLong == DirtyLife

EntryLife == Ttl

\* The entries of a generation.
Found(g) == {e \in entries : e.gen = g}

WriterAt(w, p) == wpc' = [wpc EXCEPT ![w] = p]
ReaderAt(r, p) == rpc' = [rpc EXCEPT ![r] = p]

-----------------------------------------------------------------------------
(* cached *)

\* The first call, which may fail.
Begin(r) ==
  /\ rpc[r] = "idle"
  /\ \/ ReaderAt(r, IF Bypass THEN "bypass" ELSE "generation") /\ UNCHANGED faults
     \/ ReaderAt(r, "bypass") /\ Fault
  /\ rage' = [rage EXCEPT ![r] = 0]
  /\ floor' = [floor EXCEPT ![r] = published]
  /\ UNCHANGED <<db, redis, writers, key, data>>

ReadGeneration(r) ==
  /\ rpc[r] = "generation"
  /\ key' = [key EXCEPT ![r] = generation]
  /\ ReaderAt(r, "get")
  /\ UNCHANGED <<db, redis, writers, rage, data, floor, faults>>

Get(r) ==
  /\ rpc[r] = "get"
  /\ \/ /\ Found(key[r]) = {} /\ ReaderAt(r, "miss")
        /\ UNCHANGED data
     \/ \E e \in Found(key[r]) :
          /\ data' = [data EXCEPT ![r] = e.val]
          /\ ReaderAt(r, "done")
  /\ UNCHANGED <<db, redis, writers, rage, key, floor, faults>>

\* Any exception so far leads to the database, without a key.
ReadFails(r) ==
  /\ rpc[r] \in {"generation", "get"}
  /\ Fault
  /\ ReaderAt(r, "bypass")
  /\ UNCHANGED <<db, redis, writers, rage, key, data, floor>>

\* The catalogue is several queries; data is the oldest state it shows.
Load(r) ==
  /\ rpc[r] \in {"miss", "bypass"}
  /\ data' = [data EXCEPT ![r] = version]
  /\ ReaderAt(r, IF rpc[r] = "miss" THEN "store" ELSE "done")
  /\ UNCHANGED <<db, redis, writers, rage, key, floor, faults>>

\* setex, whose failure is ignored.
Store(r) ==
  /\ rpc[r] = "store"
  /\ \/ /\ entries' = (entries \ Found(key[r]))
                        \cup {[gen |-> key[r], val |-> data[r], left |-> EntryLife]}
        /\ UNCHANGED faults
     \/ Fault /\ UNCHANGED entries
  /\ ReaderAt(r, "done")
  /\ UNCHANGED <<db, generation, dirtyLeft, lock, lockLeft, writers, rage, key, data, floor>>

Return(r) ==
  /\ rpc[r] = "done"
  /\ ReaderAt(r, "idle")
  /\ rage' = [rage EXCEPT ![r] = 0]
  /\ key' = [key EXCEPT ![r] = 0]
  /\ data' = [data EXCEPT ![r] = 0]
  /\ floor' = [floor EXCEPT ![r] = 0]
  /\ UNCHANGED <<db, redis, writers, faults>>

-----------------------------------------------------------------------------
(* commit_with_invalidation *)

\* A writer that does not get the lock within five seconds commits nothing.
Acquire(w) ==
  /\ wpc[w] = "idle" /\ LockFree /\ version < MaxVersion
  /\ lock' = w /\ lockLeft' = LockLife
  /\ WriterAt(w, "locked")
  /\ wage' = [wage EXCEPT ![w] = 0]
  /\ UNCHANGED <<db, generation, entries, dirtyLeft, readers, faults>>

Mark(w) ==
  /\ wpc[w] = "locked"
  /\ \/ dirtyLeft' = MarkerLife /\ WriterAt(w, "marked") /\ UNCHANGED faults
     \/ dirtyLeft' \in {dirtyLeft, MarkerLife} /\ WriterAt(w, "leaving") /\ Fault
  /\ UNCHANGED <<db, generation, entries, lock, lockLeft, wage, readers>>

\* There is a marker, and nobody is about to delete it: a writer that has outlived
\* its lock may find neither its own nor another's.
Covered(w) == dirtyLeft > 0 /\ \A v \in Writer \ {w} : wpc[v] # "invalidated"

\* Under a marker a commit is promised at once, with all that was committed
\* before it; else the increment of its writer promises it.
CommitData(w) ==
  /\ version < MaxVersion
  /\ version' = version + 1
  /\ published' = IF Covered(w) THEN version + 1 ELSE published
  /\ UNCHANGED since

\* A commit that raises may have been applied; the marker stays.
Commit(w) ==
  /\ wpc[w] = "marked"
  /\ \/ CommitData(w) /\ WriterAt(w, "committed") /\ UNCHANGED faults
     \/ (CommitData(w) \/ UNCHANGED db) /\ WriterAt(w, "leaving") /\ Fault
  /\ UNCHANGED <<redis, wage, readers>>

\* A new generation shows all that was committed before it.
Increment == generation' = generation + 1 /\ published' = version

\* invalidate: without an answer the marker stays.
Invalidate(w) ==
  /\ wpc[w] = "committed"
  /\ \/ Increment /\ WriterAt(w, "invalidated") /\ UNCHANGED faults
     \/ (Increment \/ UNCHANGED <<generation, published>>) /\ WriterAt(w, "leaving") /\ Fault
  /\ UNCHANGED <<version, since, entries, dirtyLeft, lock, lockLeft, wage, readers>>

Clear(w) ==
  /\ wpc[w] = "invalidated"
  /\ \/ dirtyLeft' = 0 /\ UNCHANGED faults
     \/ dirtyLeft' \in {0, dirtyLeft} /\ Fault
  /\ WriterAt(w, "leaving")
  /\ UNCHANGED <<db, generation, entries, lock, lockLeft, wage, readers>>

\* The lock is deleted only while it holds the writer's token.
Release(w) ==
  /\ wpc[w] = "leaving"
  /\ lock' = IF lock = w THEN NoOne ELSE lock
  /\ lockLeft' = IF lock = w THEN 0 ELSE lockLeft
  /\ WriterAt(w, "idle")
  /\ wage' = [wage EXCEPT ![w] = 0]
  /\ UNCHANGED <<db, generation, entries, dirtyLeft, readers, faults>>

\* The process dies, or the release fails: the lock stays until it expires.
Crash(w) ==
  /\ wpc[w] # "idle"
  /\ Fault
  /\ WriterAt(w, "idle")
  /\ wage' = [wage EXCEPT ![w] = 0]
  /\ UNCHANGED <<db, redis, readers>>

\* A run commits each filing as soon as it is published, without the protocol.
CommitFiling ==
  /\ version < MaxVersion
  /\ version' = version + 1
  /\ UNCHANGED <<published, since, redis, writers, readers, faults>>

-----------------------------------------------------------------------------
Less(n) == IF n = 0 THEN 0 ELSE n - 1

Tick ==
  /\ \A w \in Writer : wpc[w] # "idle" => wage[w] < CommitLimit
  /\ \A r \in Reader : rpc[r] # "idle" => rage[r] < LoadLimit
  /\ wage' = [w \in Writer |-> IF wpc[w] = "idle" THEN 0 ELSE wage[w] + 1]
  /\ rage' = [r \in Reader |-> IF rpc[r] = "idle" THEN 0 ELSE rage[r] + 1]
  /\ entries' = {[e EXCEPT !.left = @ - 1] : e \in {f \in entries : f.left > 1}}
  /\ dirtyLeft' = Less(dirtyLeft)
  /\ lockLeft' = Less(lockLeft)
  /\ lock' = IF lockLeft <= 1 THEN NoOne ELSE lock
  /\ since' = [v \in 1 .. MaxVersion |->
        IF v <= version THEN Least(since[v] + 1, SinceCap) ELSE 0]
  /\ UNCHANGED <<version, published, generation, wpc, rpc, key, data, floor, faults>>

Read(r) ==
  \/ Begin(r) \/ ReadGeneration(r) \/ Get(r) \/ ReadFails(r) \/ Load(r) \/ Store(r) \/ Return(r)

Write(w) ==
  \/ Acquire(w) \/ Mark(w) \/ Commit(w) \/ Invalidate(w) \/ Clear(w) \/ Release(w) \/ Crash(w)

Next ==
  \/ \E r \in Reader : Read(r)
  \/ \E w \in Writer : Write(w)
  \/ CommitFiling
  \/ Tick

Spec == Init /\ [][Next]_vars
-----------------------------------------------------------------------------
(* Properties *)

\* What a writer has committed under the marker every later read shows, and what
\* it has committed without one from its increment of the generation on, although
\* slow readers store old catalogues, Redis fails after the commit, writers die
\* with the lock and writers overlap whose lock has expired (cache.py:42).
FreshReads == \A r \in Reader : rpc[r] = "done" => data[r] >= floor[r]

\* cache.py:43, "Serialize commit/invalidation", with its limit: two writers are
\* between the marker and the end of their invalidation only when one of them has
\* been at it for longer than its lock lives.
SerialCommits ==
  \A v, w \in Writer :
    v # w /\ {wpc[v], wpc[w]} \subseteq {"marked", "committed", "invalidated"} =>
      wage[v] >= LockLife \/ wage[w] >= LockLife

\* cache.py:57: "If a post-commit Redis failure occurs, the dirty marker outlives
\* all old entries."
MarkerOutlivesOldEntries ==
  \A e \in Found(generation) : e.val < published => e.left <= dirtyLeft

\* However a change was committed, what is served is never older than one
\* loading and one life of an entry (scaling.md:3, "bounded TTLs").
StaleIsBounded ==
  \A r \in Reader : rpc[r] = "done" =>
    \A v \in 1 .. version : since[v] >= Ttl + LoadLimit + rage[r] => data[r] >= v

=============================================================================
