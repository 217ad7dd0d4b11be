--------------------------- MODULE MCCandidateFeed ---------------------------
(***************************************************************************)
(* An instance of CandidateFeed small enough for TLC: two proxies, one of  *)
(* them open when the bot starts, two vaults in escrow, a window of one    *)
(* position and a chunk of two reads.                                      *)
(***************************************************************************)
EXTENDS CandidateFeed

CONSTANTS p1, p2, v1, v2

TwoProxies == {p1, p2}
OneProxy   == {p1}
TwoVaults  == {v1, v2}
=============================================================================
