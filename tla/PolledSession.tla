--------------------------- MODULE PolledSession ---------------------------
(***************************************************************************)
(* Sessions of a SpeedLimiter whose until_ready futures are polled by      *)
(* tasks: what LimitStream and LimitDatagrams have in common.              *)
(*                                                                         *)
(* A poll runs the future until it returns or finds no token at the        *)
(* governor; then the future sleeps.  A sleeping future does nothing at    *)
(* all: it keeps its place in the chain but has no claim on the next       *)
(* token.  The governor's timer wakes the task that polled it last; by the *)
(* time the task polls again another session may have taken the token.     *)
(***************************************************************************)
EXTENDS Integers, Sequences, FiniteSets

(* The parameters and the state of SpeedLimiter.                            *)
CONSTANTS Limiters, NoLimiter, Upper, MaxDepth, Sessions, Cells, NoCell, Weights, Bursts

VARIABLES limiter, bucket, path, upRem, locRem, pc, at, quote, out, due

L == INSTANCE SpeedLimiter

ASSUME PolledAssumption == L!LimiterAssumption

VARIABLES
  polled,     (* polled[s]: a poll is running the future of the session    *)
  woken       (* woken[s]: the timer has fired since the future slept      *)

limiterVars == <<limiter, bucket, path, upRem, locRem, pc, at, quote, out, due>>
pollVars    == <<polled, woken>>

PollTypeOK ==
  /\ L!TypeOK
  /\ polled \in [Sessions -> BOOLEAN] /\ woken \in [Sessions -> BOOLEAN]

PollInit ==
  /\ L!Init
  /\ polled = [s \in Sessions |-> FALSE]
  /\ woken = [s \in Sessions |-> FALSE]
-----------------------------------------------------------------------------
Poll(s)  == polled' = [polled EXCEPT ![s] = TRUE] /\ woken' = [woken EXCEPT ![s] = FALSE]
Sleep(s) == polled' = [polled EXCEPT ![s] = FALSE] /\ UNCHANGED woken

(* The running poll takes the future further.                               *)
Advance(s) ==
  /\ polled[s]
  /\ L!Step(s) \/ L!Admit(s)
  /\ UNCHANGED pollVars

(* Mutant: the poll sleeps without having asked the governor.               *)
PendingUnchecked(s) == polled[s] /\ pc[s] = "wait"

(* It finds no token and returns Pending.                                   *)
Pending(s) ==
  /\ polled[s] /\ pc[s] = "wait"
  /\ bucket[quote[s].cell].tokens = 0

(* It has returned the permit.                                              *)
Granted(s) == polled[s] /\ pc[s] = "ready"

(* Mutant: only those who wait on the governor a limiter has now are woken. *)
AwaitsCurrent(s, c) ==
  pc[s] = "wait" /\ quote[s].cell = c /\ \E l \in Limiters : limiter[l].cell = c

Awaits(s, c) == pc[s] = "wait" /\ quote[s].cell = c

(* Time goes on: a token for one, a wakeup for all that sleep on it.        *)
Refill(c) ==
  /\ L!Refill(c)
  /\ woken' = [s \in Sessions |-> woken[s] \/ (~polled[s] /\ Awaits(s, c))]
  /\ UNCHANGED polled

Reconfigure == L!Reconfigure /\ UNCHANGED pollVars
-----------------------------------------------------------------------------
(* A future sleeps only as long as the governor it waits on has no token,
   also when set_limit has replaced that governor in the meantime.          *)
SleepsForToken(s) ==
  pc[s] = "wait" /\ ~polled[s] /\ ~woken[s] => bucket[quote[s].cell].tokens = 0
=============================================================================
