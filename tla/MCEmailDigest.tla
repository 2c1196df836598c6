--------------------------- MODULE MCEmailDigest ---------------------------
(***************************************************************************)
(* A small instance of EmailDigest for TLC.                                *)
(***************************************************************************)
EXTENDS EmailDigest

TwoSubscribers == 1 .. 2
=============================================================================
