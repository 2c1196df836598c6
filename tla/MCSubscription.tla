--------------------------- MODULE MCSubscription ---------------------------
(***************************************************************************)
(* A small instance of Subscription for TLC.  No transaction locks rows of *)
(* two subscribers, so one address has every conflict.                     *)
(***************************************************************************)
EXTENDS Subscription
=============================================================================
