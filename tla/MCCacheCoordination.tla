------------------------ MODULE MCCacheCoordination ------------------------
(***************************************************************************)
(* Small instances of CacheCoordination for TLC.                           *)
(***************************************************************************)
EXTENDS CacheCoordinationInvariant, TLC

Symmetry == Permutations(Reader) \cup Permutations(Writer)
=============================================================================
