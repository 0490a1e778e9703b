----------------------------- MODULE LimitHalf -----------------------------
(***************************************************************************)
(* LimitRead and LimitWrite (src/src/limit_stream.rs): one direction of a  *)
(* rate-limited stream.  Both halves are the same machine around a permit: *)
(* ask the session for one, then let the inner stream move at most that    *)
(* many bytes over as many polls as it takes, then ask again.              *)
(*                                                                         *)
(* A poll is one step: it holds the half exclusively.  Between polls the   *)
(* permit may arrive, the inner stream may become ready, and the caller    *)
(* may give its call up and make another one with a different buffer.      *)
(* The lines named for the actions are LimitRead's; LimitWrite repeats     *)
(* them with a slice in place of the ReadBuf.                              *)
(***************************************************************************)
EXTENDS Integers

CONSTANTS
  Permits,    (* the sizes until_ready can return                          *)
  Rooms,      (* the buffer sizes the caller offers                        *)
  MaxPanics   (* bound: how often the inner stream may panic               *)

ASSUME LimitHalfAssumption ==
  /\ Permits \subseteq Nat \ {0}
  /\ Rooms \subseteq Nat /\ Rooms # {}
  /\ MaxPanics \in Nat

VARIABLES
  state,      (* ReadState; "WaitingNone" and "MovingNone" are the variants
                 left behind by a take() whose poll did not return         *)
  len, done,  (* read_len and readded_len                                  *)
  permit,     (* what the waiting future returns when polled, 0 = Pending  *)
  inner,      (* does the inner stream answer a poll: "dry" or "ready"     *)
  calling,    (* the caller has a poll_read outstanding                    *)
  parked,     (* what wakes the caller's task: "no" when it is awake       *)
  credit,     (* history: bytes permitted, less bytes moved and bytes given
                 up with an error or a panic                               *)
  starved,    (* history: the last poll of the inner stream had no room,
                 although the caller's buffer has                          *)
  panics      (* history: number of panics of the inner stream             *)

vars == <<state, len, done, permit, inner, calling, parked, credit, starved, panics>>

Least(m, n) == IF m < n THEN m ELSE n

TypeOK ==
  /\ state \in {"Idle", "Waiting", "WaitingNone", "Moving", "MovingNone"}
  /\ len \in Permits \cup {0}
  /\ done \in 0..len
  /\ permit \in Permits \cup {0}
  /\ inner \in {"dry", "ready"}
  /\ calling \in BOOLEAN
  /\ parked \in {"no", "permit", "inner"}
  /\ credit \in Int
  /\ starved \in BOOLEAN
  /\ panics \in 0..MaxPanics

Init ==
  /\ state = "Idle" /\ len = 0 /\ done = 0
  /\ permit = 0 /\ inner \in {"dry", "ready"}
  /\ calling = FALSE /\ parked = "no"
  /\ credit = 0 /\ starved = FALSE /\ panics = 0
-----------------------------------------------------------------------------
(* The state after d of the l permitted bytes are moved.  len and done are
   kept at 0 where the code's state has no such fields.                     *)
Idle == state' = "Idle" /\ len' = 0 /\ done' = 0

Keep(l, d) == state' = "Moving" /\ len' = l /\ done' = d

(* Mutant: a used-up permit is only recognised one byte later.              *)
SettleLate(l, d) == IF d > l THEN Idle ELSE Keep(l, d)

Settle(l, d) == IF d >= l THEN Idle ELSE Keep(l, d)

Return == calling' = FALSE /\ parked' = "no"

(* Mutant: the inner stream gets the whole of the caller's buffer.          *)
CapacityOffered(room, left) == room

(* The buffer given to the inner stream: no more than is permitted.         *)
Capacity(room, left) == Least(left, room)

(* The inner poll of every arm with a permit of l bytes, d of them moved and
   `fresh' of them granted in this poll.  An error gives up the rest of the
   permit.  A panic unwinds out of the arm and leaves what its take() left
   of the state: `torn'.                                                    *)
Transfer(room, l, d, fresh, torn) ==
  LET cap == Capacity(room, l - d)
  IN /\ starved' = (room > 0 /\ cap = 0)
     /\ permit' = 0
     /\ \/ /\ inner = "ready" /\ Return
           /\ \/ \E n \in 0..cap :
                   Settle(l, d + n) /\ credit' = credit + fresh - n
              \/ Idle /\ credit' = credit + fresh - (l - d)
           /\ inner' \in {"dry", "ready"}
           /\ UNCHANGED panics
        \/ /\ inner = "dry" /\ Keep(l, d) /\ parked' = "inner"
           /\ credit' = credit + fresh
           /\ UNCHANGED <<inner, calling, panics>>
        \/ /\ panics < MaxPanics /\ panics' = panics + 1 /\ Return
           /\ state' = torn /\ len' = 0 /\ done' = 0
           /\ credit' = credit + fresh - (l - d)
           /\ UNCHANGED inner
-----------------------------------------------------------------------------
(* The Idle arm makes a new until_ready future and polls it at once; a panic
   of the inner stream leaves the state Idle.                               *)
PollIdle(room) ==
  /\ state = "Idle"
  /\ \/ \E n \in Permits : Transfer(room, n, 0, n, "Idle")
     \/ /\ state' = "Waiting" /\ permit' = 0 /\ parked' = "permit"
        /\ UNCHANGED <<len, done, inner, calling, credit, starved, panics>>

(* Mutant: the arm stores the permit and returns Pending, without asking the
   inner stream, so that only the spent future knows the waker.             *)
PollWaitingParks(room) ==
  /\ state = "Waiting"
  /\ \/ /\ permit > 0 /\ Keep(permit, 0)
        /\ permit' = 0 /\ credit' = credit + permit /\ parked' = "permit"
        /\ UNCHANGED <<inner, calling, starved, panics>>
     \/ /\ permit = 0 /\ parked' = "permit"
        /\ UNCHANGED <<state, len, done, permit, inner, calling, credit, starved, panics>>

PollWaiting(room) ==
  /\ state = "Waiting"
  /\ \/ permit > 0 /\ Transfer(room, permit, 0, permit, "WaitingNone")
     \/ /\ permit = 0 /\ parked' = "permit"
        /\ UNCHANGED <<state, len, done, permit, inner, calling, credit, starved, panics>>

PollMoving(room) ==
  state = "Moving" /\ Transfer(room, len, done, 0, "MovingNone")

(* Waiting(None): take().unwrap() panics.                                   *)
PollWaitingNone ==
  /\ state = "WaitingNone" /\ Return
  /\ UNCHANGED <<state, len, done, permit, inner, credit, starved, panics>>

(* Mutant: the state stays Reading(None) after it.                          *)
PollMovingNoneForever(room) ==
  /\ state = "MovingNone" /\ inner = "ready"
  /\ \E n \in 0..room : credit' = credit - n
  /\ starved' = FALSE
  /\ Return /\ inner' \in {"dry", "ready"}
  /\ UNCHANGED <<state, len, done, permit, panics>>

(* Reading(None): one inner poll without any permit.                        *)
PollMovingNone(room) ==
  /\ state = "MovingNone"
  /\ starved' = FALSE
  /\ \/ /\ inner = "ready" /\ Idle /\ Return
        /\ \E n \in 0..room : credit' = credit - n
        /\ inner' \in {"dry", "ready"}
        /\ UNCHANGED panics
     \/ /\ inner = "dry" /\ parked' = "inner"
        /\ UNCHANGED <<state, len, done, inner, calling, credit, panics>>
     \/ /\ panics < MaxPanics /\ panics' = panics + 1 /\ Return
        /\ UNCHANGED <<state, len, done, inner, credit>>
  /\ UNCHANGED permit

Poll ==
  /\ calling
  /\ \/ \E room \in Rooms : \/ PollIdle(room) \/ PollWaiting(room)
                            \/ PollMoving(room) \/ PollMovingNone(room)
     \/ PollWaitingNone
-----------------------------------------------------------------------------
(* The caller begins a call, or gives one up: the half keeps its state.     *)
Begin ==
  /\ ~calling /\ calling' = TRUE
  /\ UNCHANGED <<state, len, done, permit, inner, parked, credit, starved, panics>>

GiveUp ==
  /\ calling /\ Return
  /\ UNCHANGED <<state, len, done, permit, inner, credit, starved, panics>>

(* The limiter admits the waiting session, the inner stream gets ready; each
   wakes the task that its last poll left with it.                          *)
Admit ==
  /\ state = "Waiting" /\ permit = 0
  /\ permit' \in Permits
  /\ parked' = IF parked = "permit" THEN "no" ELSE parked
  /\ UNCHANGED <<state, len, done, inner, calling, credit, starved, panics>>

InnerReady ==
  /\ inner = "dry" /\ inner' = "ready"
  /\ parked' = IF parked = "inner" THEN "no" ELSE parked
  /\ UNCHANGED <<state, len, done, permit, calling, credit, starved, panics>>

Next == Poll \/ Begin \/ GiveUp \/ Admit \/ InnerReady

Spec == Init /\ [][Next]_vars

(* A task that is awake is polled; the limiter and the inner stream answer
   at some time.                                                            *)
Fairness ==
  /\ WF_vars(Poll /\ parked = "no")
  /\ WF_vars(Admit)
  /\ WF_vars(InnerReady)

FairSpec == Spec /\ Fairness
-----------------------------------------------------------------------------
(* The state always knows exactly what is left of the permits: a new one is
   asked for only when the last one is used up or given up with an error,
   and the subtraction read_len - readded_len never wraps.  Only the
   transfer that follows a panic of the inner stream goes unmetered.        *)
CreditBacked ==
  panics = 0 =>
    /\ state \in {"Idle", "Waiting"} => credit = 0
    /\ state = "Moving" => credit = len - done /\ credit > 0
    /\ state \notin {"WaitingNone", "MovingNone"}

(* The inner stream is never given an empty buffer unless the caller's is
   empty: an empty read would pass for the end of the stream.               *)
NoSpuriousEof == ~starved

(* However often the inner stream panics, a half moves bytes without permit
   at most once before it meters again: never more than one buffer.         *)
FreeRideBounded == \E room \in Rooms : credit >= 0 - panics * room

(* Every call that is not given up is answered, whatever was abandoned
   before it: a task never sleeps on a permit already spent.                *)
Answered == calling ~> ~calling
=============================================================================
