------------------------------ MODULE Datagram ------------------------------
(***************************************************************************)
(* ReadState and WriteState of the rate-limited datagram sockets           *)
(* (src/src/limit_datagram.rs, limit_datagram_local.rs).  A permit is for  *)
(* a number of bytes, a datagram moves whole: a permit carries on over     *)
(* datagrams until they have used it up.  LimitDatagram and LimitSocket    *)
(* are the machines that make these changes.                               *)
(***************************************************************************)
EXTENDS Integers

CONSTANT
  MaxSize     (* bound: bytes in a datagram                                *)

VARIABLES
  state,      (* state[o]: WriteState and ReadState                        *)
  len, moved, (* their fields: write_len and written_len, 0 when Idle      *)
  last,       (* history: last[o] = the last permit obtained for o         *)
  since       (* history: since[o] = bytes moved since then                *)

Directions == {"send", "recv"}

Set(o, s, l, m) ==
  /\ state' = [state EXCEPT ![o] = s]
  /\ len' = [len EXCEPT ![o] = l]
  /\ moved' = [moved EXCEPT ![o] = m]

(* Mutant: the datagram that opened the permit is not charged to it.        *)
OpenStale(o, permit, n) ==
  IF n > permit THEN Set(o, "Idle", 0, 0) ELSE Set(o, "Moving", permit, 0)

(* The end of the Idle arm, n bytes moved: a datagram larger than the permit
   uses it up, a smaller or equal one leaves the state to go on with it.    *)
Open(o, permit, n) ==
  IF n > permit THEN Set(o, "Idle", 0, 0) ELSE Set(o, "Moving", permit, n)

(* Mutant: the bytes of the datagrams that follow the first are not added up. *)
ContinueForgets(o, n) ==
  IF moved[o] + n >= len[o] THEN Set(o, "Idle", 0, 0) ELSE UNCHANGED <<state, len, moved>>

(* The end of the Writing arm, which compares with >=.                      *)
Continue(o, n) ==
  IF moved[o] + n >= len[o] THEN Set(o, "Idle", 0, 0)
  ELSE Set(o, "Moving", len[o], moved[o] + n)
-----------------------------------------------------------------------------
(* Whatever is cancelled or fails, a state that goes on with a permit has
   every byte moved under it on its account, and no other permit's.         *)
Accounted ==
  \A o \in Directions :
    state[o] = "Moving" => len[o] = last[o] /\ moved[o] = since[o]

(* One permit lets through its bytes and at most one whole datagram more:
   the price of not splitting datagrams never adds up.                      *)
OverrunBounded == \A o \in Directions : since[o] <= last[o] + MaxSize

(* The tests say of both directions that the state, once complete, is back
   at Idle ("Writing state complete, back to Idle", limit_datagram.rs:661). *)
CompletedIsIdle == \A o \in Directions : state[o] = "Moving" => moved[o] < len[o]
=============================================================================
