----------------------------- MODULE MCAuctioneer -----------------------------
EXTENDS Auctioneer

(* two blocks compete for a height, and each may be proposed again *)
Competing == [a |-> 1, b |-> 1]
=============================================================================
