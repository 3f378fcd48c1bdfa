--------------------------- MODULE MCRateLimiter ---------------------------
(***************************************************************************)
(* RateLimiter for TLC: two threads, rates of one, two and three bytes per *)
(* refill, and the rates zero and one, of less than a byte per refill.     *)
(***************************************************************************)
EXTENDS RateLimiter

CONSTANTS t1, t2

MCThreads == {t1, t2}
MCRates   == {0, 1, 2, 4, 6}

=============================================================================
