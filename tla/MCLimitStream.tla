--------------------------- MODULE MCLimitStream ---------------------------
(* Instances of LimitStream for TLC.                                        *)
EXTENDS LimitStream

CONSTANTS low, top

(* One limiter below another.               *)
PairUpper == [l \in Limiters |-> IF l = low THEN top ELSE NoLimiter]
=============================================================================
