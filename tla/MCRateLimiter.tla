---------------------------- MODULE MCRateLimiter ---------------------------
(* A token redemption, a quote and two requests of discovery.               *)
EXTENDS RateLimiter

CONSTANTS auth, quote, scan1, scan2

AllRequests == {auth, quote, scan1, scan2}
RankOf == [r \in AllRequests |-> IF r = auth THEN 0 ELSE IF r = quote THEN 1 ELSE 4]
Scans == {scan1, scan2}
None == {}
=============================================================================
