--------------------------- MODULE MCLimitSocket ---------------------------
(* Instances of LimitSocket for TLC.                                        *)
EXTENDS LimitSocket

CONSTANTS low, top

(* One limiter below another.               *)
PairUpper == [l \in Limiters |-> IF l = low THEN top ELSE NoLimiter]
=============================================================================
