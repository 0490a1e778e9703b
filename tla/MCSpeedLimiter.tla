--------------------------- MODULE MCSpeedLimiter ---------------------------
(* Instance of SpeedLimiter for TLC: a limiter under another.  Sessions can
   be opened on either and share the upper one.                             *)
EXTENDS SpeedLimiter, TLC

CONSTANTS top, low

PairUpper == (low :> top) @@ (top :> NoLimiter)
=============================================================================
