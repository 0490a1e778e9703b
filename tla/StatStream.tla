----------------------------- MODULE StatStream -----------------------------
(***************************************************************************)
(* StatStream, StatRead and StatWrite (src/src/stat_stream.rs): streams    *)
(* that count what they move in a SpeedTracker, SfoSpeedStat, which other  *)
(* streams may share and other threads may look at.  The streams here move *)
(* bytes in one direction and share its SpeedState; the other direction    *)
(* has a SpeedState and a Mutex of its own.                                *)
(*                                                                         *)
(* A poll moves bytes through the inner stream first and counts them then, *)
(* under the Mutex; clock, statistics and the other streams go on in       *)
(* between.                                                                *)
(***************************************************************************)
EXTENDS SpeedStat

CONSTANTS
  Streams,    (* the readers, or the writers, of one SfoSpeedStat          *)
  Held,       (* bytes a caller may have in its ReadBuf already            *)
  Sizes,      (* what an inner stream moves in one poll                    *)
  MaxMoved,   (* bound: bytes moved in all                                 *)
  MaxAdds     (* bound: how often something is counted                     *)

ASSUME StatStreamAssumption ==
  /\ IsFiniteSet(Streams) /\ Held \subseteq Nat /\ Sizes \subseteq Nat
  /\ MaxMoved \in Nat /\ MaxAdds \in Nat

VARIABLES
  filled,     (* bytes in the caller's buffer before the poll              *)
  moving,     (* bytes the inner stream has just moved, not yet counted    *)
  stage,      (* "out", "inner": the inner stream is polled, "count"       *)
  moved,      (* history: bytes moved by each stream                       *)
  told        (* history: bytes each stream's caller was told of           *)

vars == <<statVars, filled, moving, stage, moved, told>>

All(f) == MapThenSumSet(LAMBDA s : f[s], Streams)

TypeOK ==
  /\ StatTypeOK
  /\ filled \in [Streams -> Nat] /\ moving \in [Streams -> {0} \cup Sizes]
  /\ stage \in [Streams -> {"out", "inner", "count"}]
  /\ \A s \in Streams : told[s] \in 0..moved[s]

Init ==
  /\ StatInit
  /\ filled = [s \in Streams |-> 0] /\ moving = [s \in Streams |-> 0]
  /\ stage = [s \in Streams |-> "out"]
  /\ moved = [s \in Streams |-> 0] /\ told = [s \in Streams |-> 0]
-----------------------------------------------------------------------------
(* poll_read or poll_write; a ReadBuf may hold bytes of earlier reads.      *)
Poll(s, held) ==
  /\ stage[s] = "out"
  /\ filled' = [filled EXCEPT ![s] = held]
  /\ stage' = [stage EXCEPT ![s] = "inner"]
  /\ UNCHANGED <<statVars, moving, moved, told>>

(* The ReadBuf's length after the poll less its length before; a write counts
   what the inner stream reports.                                           *)
ToCount(s, n) == (filled[s] + n) - filled[s]

(* The inner stream moves n bytes.                                          *)
Inner(s, n) ==
  /\ stage[s] = "inner"
  /\ All(moved) + n <= MaxMoved
  /\ Len(adds) + Cardinality({r \in Streams : stage[r] = "count"}) < MaxAdds
  /\ moved' = [moved EXCEPT ![s] = @ + n]
  /\ moving' = [moving EXCEPT ![s] = ToCount(s, n)]
  /\ filled' = [filled EXCEPT ![s] = 0]
  /\ stage' = [stage EXCEPT ![s] = "count"]
  /\ UNCHANGED <<statVars, told>>

(* It fails or is Pending: nothing was moved, nothing is counted.           *)
NotReady(s) ==
  /\ stage[s] = "inner"
  /\ stage' = [stage EXCEPT ![s] = "out"]
  /\ filled' = [filled EXCEPT ![s] = 0]
  /\ UNCHANGED <<statVars, moving, moved, told>>

Return(s) ==
  /\ stage[s] = "count" /\ stage' = [stage EXCEPT ![s] = "out"]
  /\ moving' = [moving EXCEPT ![s] = 0]
  /\ UNCHANGED <<filled, moved>>

(* add_data under the lock, then the result is returned ...                 *)
Count(s) ==
  /\ AddData(moving[s]) /\ Return(s)
  /\ told' = [told EXCEPT ![s] = @ + moving[s]]

(* ... or the panic unwinds through the poll.                               *)
CountPanics(s) == AddDataPanics(moving[s]) /\ Return(s) /\ UNCHANGED told

StreamStep(s) ==
  \/ \E held \in Held : Poll(s, held)
  \/ \E n \in Sizes : Inner(s, n)
  \/ NotReady(s) \/ Count(s) \/ CountPanics(s)

Others ==
  /\ GetSpeedPanics \/ \E t \in {BeforeEpoch} \cup 0..MaxTime : SetClock(t)
  /\ UNCHANGED <<filled, moving, stage, moved, told>>

Next == Others \/ \E s \in Streams : StreamStep(s)

Spec == Init /\ [][Next]_vars
-----------------------------------------------------------------------------
(* A byte is counted after it was moved and before anyone is told of it, and
   once: whatever moment the statistics are read at, on any thread, they lie
   between what the callers have got and what went through.  With no poll
   under way nothing is missing from the sum and no caller misses a byte:
   unless the clock has stood before the epoch in a call, which spoils the
   direction for good.                                                      *)
CountedOnce ==
  /\ All(told) <= sumSize /\ sumSize <= All(moved)
  /\ ~poisoned => /\ sumSize = All(told)
                  /\ All(moved) = sumSize + All(moving)
=============================================================================
