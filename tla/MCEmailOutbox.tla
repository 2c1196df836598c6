--------------------------- MODULE MCEmailOutbox ---------------------------
(***************************************************************************)
(* Small instances of EmailOutbox for TLC.                                 *)
(***************************************************************************)
EXTENDS EmailOutboxInvariant

CONSTANT ann

OneRow == {1}
TwoRows == 1 .. 2
ToAnn == [d \in Delivery |-> ann]

AlertAndVerify == <<"ALERT", "VERIFY">>
OneTest == <<"TEST">>
=============================================================================
