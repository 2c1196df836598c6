------------------------ MODULE MCFilingPublication ------------------------
(***************************************************************************)
(* A small instance of FilingPublication for TLC: three filings of six at  *)
(* a time.  Two of the NSE and one of BSE, which compete for the period;   *)
(* two links of the company's page, one found and one registered, and a    *)
(* filing that has no original but what administrators upload; and three   *)
(* of BSE, one more than a batch.                                          *)
(***************************************************************************)
EXTENDS FilingPublication

Exchanges == [first |-> "NSE", revised |-> "NSE",
              other |-> "BSE", late |-> "BSE", last |-> "BSE", listed |-> "BSE"]
Dates == [first |-> 1, revised |-> 2, other |-> 3, late |-> 4, last |-> 5, listed |-> 6]
Documents == [first |-> <<"x", "refused">>, revised |-> <<"y", "pdf">>,
              other |-> <<"x">>, late |-> <<"pdf">>, last |-> <<>>, listed |-> <<>>]
Uploads == [[f \in Filing |-> {}] EXCEPT !.listed = {"y", "refused"}]
Never == [f \in Filing |-> "never"]
AllWays ==
  {[Never EXCEPT !.first = "announced", !.revised = "announced", !.other = "manual"],
   [Never EXCEPT !.other = "page", !.late = "official", !.listed = "list"],
   [Never EXCEPT !.other = "announced", !.late = "detail", !.last = "list"]}
=============================================================================
