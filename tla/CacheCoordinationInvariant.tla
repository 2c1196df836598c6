--------------------- MODULE CacheCoordinationInvariant ---------------------
(***************************************************************************)
(* The inductive invariant of CacheCoordination, for writers however slow: *)
(* the age of what is cached, the reach of the lock, and what a generation *)
(* that readers trust has in it.                                           *)
(***************************************************************************)
EXTENDS CacheCoordination

VersionInv ==
  /\ published <= version
  /\ \A r \in Reader : floor[r] <= published
  /\ \A v \in 1 .. MaxVersion : v > version => since[v] = 0

\* Nobody is ahead of the generation.
KeyInv ==
  /\ \A e \in entries : e.gen <= generation
  /\ \A r \in Reader : key[r] <= generation

\* Readers that saw no marker, and may store what they load.
Keyed == {"generation", "get", "miss", "store"}

\* While the marker lives it outlives every entry, and every entry that a reader
\* may still store.
FenceInv ==
  dirtyLeft > 0 =>
    /\ \A e \in entries : e.left <= dirtyLeft
    /\ \A r \in Reader : rpc[r] \in Keyed => LoadLimit + Ttl <= dirtyLeft + rage[r]

\* Entries, and what readers have loaded, lack recent changes only.
SinceInv ==
  \A v \in 1 .. MaxVersion : v <= version =>
    /\ \A e \in entries : since[v] + e.left > Ttl + LoadLimit => e.val >= v
    /\ \A r \in Reader :
         /\ rpc[r] = "store" => (since[v] > rage[r] => data[r] >= v)
         /\ rpc[r] = "done" => (since[v] >= Ttl + LoadLimit + rage[r] => data[r] >= v)

BaseInv == TypeOK /\ VersionInv /\ KeyInv /\ FenceInv /\ SinceInv

\* A writer that has lost the lock has had it for as long as it lives.
LockInv ==
  \A w \in Writer : wpc[w] # "idle" =>
    wage[w] >= LockLife \/ (lock = w /\ lockLeft + wage[w] >= LockLife)

\* No entry of generation g is older than version n, nor will one be that a
\* reader has loaded.
NotOlder(g, n) ==
  /\ \A e \in Found(g) : e.val >= n
  /\ \A r \in Reader : rpc[r] = "store" /\ key[r] = g => data[r] >= n

\* Without a marker, and once the generation is new, the cache is up to date.
CurrentInv ==
  dirtyLeft = 0 \/ (\E w \in Writer : wpc[w] = "invalidated") => NotOlder(generation, published)

\* What a reader has found, or will find, was published when it began.
FloorInv ==
  \A r \in Reader :
    /\ rpc[r] = "generation" => NotOlder(generation, floor[r])
    /\ rpc[r] = "get" => NotOlder(key[r], floor[r])
    /\ rpc[r] \in {"store", "done"} => data[r] >= floor[r]

IInv == BaseInv /\ LockInv /\ CurrentInv /\ FloorInv
=============================================================================
