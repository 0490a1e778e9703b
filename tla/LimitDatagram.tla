--------------------------- MODULE LimitDatagram ---------------------------
(***************************************************************************)
(* LimitDatagram (src/src/limit_datagram.rs), the rate-limited datagram    *)
(* socket; LimitDatagramSend and LimitDatagramRecv are its two halves.     *)
(*                                                                         *)
(* An operation is an async function with two await points, the permit and *)
(* the inner socket, and its future may be dropped at either.  Both        *)
(* operations take &mut self: one runs at a time, over two separate states.*)
(***************************************************************************)
EXTENDS Datagram

CONSTANT
  Permits     (* the sizes until_ready can return                          *)

ASSUME DatagramAssumption == Permits \subseteq Nat \ {0} /\ MaxSize \in Nat

VARIABLES
  call,       (* the operation that runs, or "none"                        *)
  await,      (* the await point it stands at                              *)
  size,       (* bytes in the caller's buffer                              *)
  permit      (* the permit its Idle arm obtained, 0 before that           *)

vars == <<state, len, moved, call, await, size, permit, last, since>>

TypeOK ==
  /\ state \in [Directions -> {"Idle", "Moving"}]
  /\ len \in [Directions -> Permits \cup {0}] /\ moved \in [Directions -> Nat]
  /\ \A o \in Directions : moved[o] <= len[o]
  /\ call \in Directions \cup {"none"}
  /\ await \in {"none", "permit", "inner"}
  /\ size \in 0..MaxSize
  /\ permit \in Permits \cup {0}
  /\ last \in [Directions -> Permits \cup {0}]
  /\ since \in [Directions -> Nat]

Init ==
  /\ state = [o \in Directions |-> "Idle"]
  /\ len = [o \in Directions |-> 0] /\ moved = [o \in Directions |-> 0]
  /\ call = "none" /\ await = "none" /\ size = 0 /\ permit = 0
  /\ last = [o \in Directions |-> 0] /\ since = [o \in Directions |-> 0]
-----------------------------------------------------------------------------
(* send_to and recv_from up to their first await point.                     *)
Start(o, n) ==
  /\ call = "none"
  /\ call' = o /\ size' = n
  /\ await' = IF state[o] = "Idle" THEN "permit" ELSE "inner"
  /\ UNCHANGED <<state, len, moved, permit, last, since>>

SendTo(n)   == Start("send", n)
RecvFrom(n) == Start("recv", n)

(* The Idle arm obtains a permit.                                           *)
Permitted(n) ==
  /\ await = "permit"
  /\ permit' = n /\ await' = "inner"
  /\ last' = [last EXCEPT ![call] = n]
  /\ since' = [since EXCEPT ![call] = 0]
  /\ UNCHANGED <<state, len, moved, call, size>>

Return == call' = "none" /\ await' = "none" /\ size' = 0 /\ permit' = 0

(* The inner socket has moved a datagram of n bytes: all of the buffer when
   sending, at most the buffer when receiving.                              *)
Moved(n) ==
  /\ await = "inner"
  /\ IF call = "send" THEN n = size ELSE n <= size
  /\ IF state[call] = "Idle" THEN Open(call, permit, n) ELSE Continue(call, n)
  /\ since' = [since EXCEPT ![call] = @ + n]
  /\ Return
  /\ UNCHANGED last

(* The `?' on the inner socket: the state stays, a fresh permit is lost.    *)
InnerFails ==
  /\ await = "inner" /\ Return
  /\ UNCHANGED <<state, len, moved, last, since>>

(* The future is dropped at an await point.                                 *)
Cancel ==
  /\ call # "none" /\ Return
  /\ UNCHANGED <<state, len, moved, last, since>>

Next ==
  \/ \E n \in 0..MaxSize : SendTo(n) \/ RecvFrom(n) \/ Moved(n)
  \/ \E n \in Permits : Permitted(n)
  \/ InnerFails \/ Cancel

Spec == Init /\ [][Next]_vars
=============================================================================
