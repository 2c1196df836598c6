--------------------------- MODULE MCStagePublish ---------------------------
(***************************************************************************)
(* A small instance of StagePublish for TLC: one issue seen by two         *)
(* exchanges, a feed, an unofficial page and the consolidated bids of NSE. *)
(***************************************************************************)
EXTENDS StagePublish

Providers == {"NSE", "BSE", "IPOWEB", "NSE_CONSOLIDATED", "FEED"}
Ids == [p \in Providers |-> CASE p = "BSE" -> "bse" [] p = "IPOWEB" -> "web" [] OTHER -> "nse"]
Place(p) == IF p = "BSE" THEN "BSE" ELSE "NSE"
Seen(kind, p, authority, value) ==
  [kind |-> kind, provider |-> p, authority |-> authority, value |-> value]
Issue(p, authority, price, listing, official) ==
  Seen("ipos", p, authority, [price |-> price, listing |-> listing, official |-> official])
Bids(p, v) == Seen("subscriptions", p, Place(p), v)
Price(p, authority, day, close) == Seen("prices", p, authority, [day |-> day, close |-> close])
Issues == {Issue("FEED", "NSE", 1, 1, "OPEN"), Issue("FEED", "NSE", Missing, 2, "WITHDRAWN"),
           Issue("IPOWEB", "UNOFFICIAL", 2, Missing, "OPEN"), Issue("IPOWEB", "NSE", 1, Missing, "OPEN"),
           Issue("BSE", "BSE", 2, Missing, "OPEN")}
Demands == {Bids("NSE_CONSOLIDATED", 1), Bids("NSE_CONSOLIDATED", 2), Bids("BSE", 1)}
Closes == {Price("NSE", "NSE", 1, 1), Price("BSE", "BSE", 1, 1), Price("BSE", "BSE", 1, 2),
           Price("FEED", "LICENSED", 1, 1)}
Observed == Issues \cup Demands \cup Closes
=============================================================================
