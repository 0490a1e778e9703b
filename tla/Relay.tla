------------------------------- MODULE Relay -------------------------------
(***************************************************************************)
(* What copying between two streams promises to the two peers, without     *)
(* buffers, polls, budgets or wakeups.  Every direction is a pipe: bytes   *)
(* are taken from its source until the source ends, delivered to its sink  *)
(* once, in order, and flushed; the sink is shut down only when everything *)
(* has arrived; and the copy succeeds only when both sinks are shut down.  *)
(***************************************************************************)
EXTENDS Integers, Sequences

CONSTANTS
  Dirs,                (* the two directions                               *)
  Supply               (* Supply[d]: bytes the source of d has at most     *)

VARIABLES
  got,                 (* got[d]: bytes 1..got[d] were taken               *)
  eof,                 (* eof[d]: the source of d has ended                *)
  delivered,           (* delivered[d]: the bytes its sink has accepted    *)
  dirty,               (* dirty[d]: some of them are not flushed           *)
  shut,                (* shut[d]: its sink is shut down                   *)
  result               (* "none" while the copy runs                       *)

relayVars == <<got, eof, delivered, dirty, shut, result>>

RelayInit ==
  /\ got = [d \in Dirs |-> 0]
  /\ eof = [d \in Dirs |-> FALSE]
  /\ delivered = [d \in Dirs |-> <<>>]
  /\ dirty = [d \in Dirs |-> FALSE]
  /\ shut = [d \in Dirs |-> FALSE]
  /\ result = "none"

Receive(d) ==
  /\ ~eof[d]
  /\ \E n \in got[d] + 1..Supply[d] : got' = [got EXCEPT ![d] = n]
  /\ UNCHANGED <<eof, delivered, dirty, shut, result>>

SourceEnds(d) ==
  /\ eof' = [eof EXCEPT ![d] = TRUE]
  /\ UNCHANGED <<got, delivered, dirty, shut, result>>

Deliver(d) ==
  /\ ~shut[d]
  /\ \E n \in Len(delivered[d]) + 1..got[d] :
       delivered' = [delivered EXCEPT ![d] = [i \in 1..n |-> i]]
  /\ dirty' = [dirty EXCEPT ![d] = TRUE]
  /\ UNCHANGED <<got, eof, shut, result>>

Flush(d) ==
  /\ dirty' = [dirty EXCEPT ![d] = FALSE]
  /\ UNCHANGED <<got, eof, delivered, shut, result>>

ShutDown(d) ==
  /\ eof[d] /\ ~dirty[d] /\ Len(delivered[d]) = got[d]
  /\ shut' = [shut EXCEPT ![d] = TRUE]
  /\ UNCHANGED <<got, eof, delivered, dirty, result>>

Succeed ==
  /\ \A d \in Dirs : shut[d]
  /\ result' = "ok"
  /\ UNCHANGED <<got, eof, delivered, dirty, shut>>

GiveUp ==
  /\ result' \in {"timeout", "error"}
  /\ UNCHANGED <<got, eof, delivered, dirty, shut>>

RelayNext ==
  /\ result = "none"
  /\ \/ \E d \in Dirs : \/ Receive(d) \/ SourceEnds(d) \/ Deliver(d)
                        \/ Flush(d) \/ ShutDown(d)
     \/ Succeed \/ GiveUp

RelaySpec == RelayInit /\ [][RelayNext]_relayVars
=============================================================================
