---------------------------- MODULE LimitStream ----------------------------
(***************************************************************************)
(* LimitStream and LocalLimitStream: a stream split into a LimitRead and a *)
(* LimitWrite half (src/src/limit_stream.rs, limit_stream_local.rs), each  *)
(* with a session of a SpeedLimiter; the sessions may meet in the limiters *)
(* they share.  Here a poll is not atomic: inside it the session climbs    *)
(* its chain, step by step, against the other half, set_limit and time.    *)
(*                                                                         *)
(* The halves of a LimitStream may be polled by two threads; those of a    *)
(* LocalLimitStream are not Send and share one, which leaves them fewer    *)
(* behaviours.  A half keeps the until_ready future of a call that is      *)
(* given up, asleep, until the next call polls it.  Panics of the inner    *)
(* stream are in LimitHalf only.                                           *)
(***************************************************************************)
EXTENDS PolledSession

CONSTANTS
  Rooms       (* the buffer sizes the caller offers                        *)

ASSUME StreamAssumption ==
  /\ Sessions = {"read", "write"}
  /\ Rooms \subseteq Nat /\ Rooms # {}

VARIABLES
  state,      (* ReadState and WriteState                                  *)
  len, done,  (* read_len and readded_len, write_len and written_len       *)
  inner,      (* does the inner stream answer a poll: "dry" or "ready"     *)
  calling,    (* the caller has a call outstanding                         *)
  parked,     (* what its task sleeps on, "no" when it need not sleep      *)
  backed      (* history: backed[h][k] = bytes admitted to h at level k,
                 less those moved or given up with an error                *)

halfVars == <<state, len, done, inner, calling, parked, backed>>
vars == <<limiterVars, pollVars, halfVars>>

Halves == Sessions

TypeOK ==
  /\ PollTypeOK
  /\ state \in [Halves -> {"Idle", "Waiting", "Moving"}]
  /\ \A h \in Halves : /\ len[h] \in Nat /\ done[h] \in 0..len[h]
                        /\ state[h] = "Moving" <=> done[h] < len[h]
  /\ inner \in [Halves -> {"dry", "ready"}]
  /\ calling \in [Halves -> BOOLEAN]
  /\ parked \in [Halves -> {"no", "permit", "inner"}]
  /\ backed \in [Halves -> [L!Levels -> Int]]

Init ==
  /\ PollInit
  /\ state = [h \in Halves |-> "Idle"]
  /\ len = [h \in Halves |-> 0] /\ done = [h \in Halves |-> 0]
  /\ inner \in [Halves -> {"dry", "ready"}]
  /\ calling = [h \in Halves |-> FALSE] /\ parked = [h \in Halves |-> "no"]
  /\ backed = [h \in Halves |-> L!Zeros]
-----------------------------------------------------------------------------
(* LimitRead::new, LimitWrite::new.                                         *)
New(h, p) == L!NewSession(h, p) /\ UNCHANGED <<pollVars, halfVars>>

Begin(h) ==
  /\ pc[h] # "closed" /\ ~calling[h]
  /\ calling' = [calling EXCEPT ![h] = TRUE]
  /\ UNCHANGED <<limiterVars, pollVars, state, len, done, inner, parked, backed>>

Return(h) ==
  /\ calling' = [calling EXCEPT ![h] = FALSE]
  /\ parked' = [parked EXCEPT ![h] = "no"]

(* Mutant: the caller's future takes the half's state with it.              *)
GiveUpResets(h) ==
  /\ calling[h] /\ ~polled[h] /\ Return(h)
  /\ state' = [state EXCEPT ![h] = "Idle"]
  /\ UNCHANGED <<limiterVars, pollVars, len, done, inner, backed>>

(* The caller drops its future between polls.                               *)
GiveUp(h) ==
  /\ calling[h] /\ ~polled[h] /\ Return(h)
  /\ UNCHANGED <<limiterVars, pollVars, state, len, done, inner, backed>>
-----------------------------------------------------------------------------
Awake(h) == parked[h] = "no" \/ (parked[h] = "permit" /\ woken[h])

(* The executor polls a task that is awake.  The Idle arm makes a new
   until_ready future, the Waiting arm goes on with its own.                *)
Start(h) ==
  /\ calling[h] /\ Awake(h) /\ ~polled[h]
  /\ Poll(h)
  /\ IF state[h] = "Idle" THEN L!Call(h) ELSE UNCHANGED limiterVars
  /\ UNCHANGED halfVars

(* until_ready runs on inside the poll.                                     *)
Climb(h) ==
  /\ Advance(h)
  /\ backed' = [backed EXCEPT ![h] =
                  [k \in L!Levels |-> @[k] + due'[h][k] - due[h][k]]]
  /\ UNCHANGED <<state, len, done, inner, calling, parked>>

(* It is Pending: the future is kept, the task sleeps on it.                *)
Suspend(h) ==
  /\ Pending(h) /\ Sleep(h)
  /\ state' = [state EXCEPT ![h] = "Waiting"]
  /\ parked' = [parked EXCEPT ![h] = "permit"]
  /\ UNCHANGED <<limiterVars, len, done, inner, calling, backed>>

Set(h, s, l, d) ==
  /\ state' = [state EXCEPT ![h] = s]
  /\ len' = [len EXCEPT ![h] = l]
  /\ done' = [done EXCEPT ![h] = d]

Idle(h) == Set(h, "Idle", 0, 0)

(* Mutant: a permit counts as used up with the first transfer.              *)
SettleAtOnce(h, l, d) == IF d > 0 THEN Idle(h) ELSE Set(h, "Moving", l, d)

Settle(h, l, d) == IF d >= l THEN Idle(h) ELSE Set(h, "Moving", l, d)

Spend(h, n) ==
  backed' = [backed EXCEPT ![h] =
               [k \in L!Levels |-> IF k <= L!Depth(h) THEN @[k] - n ELSE @[k]]]

Least(m, n) == IF m < n THEN m ELSE n

(* Mutant: the inner stream gets the caller's buffer.                       *)
CapacityOffered(room, left) == room

Capacity(room, left) == Least(left, room)

(* The inner poll, with d of l permitted bytes moved: some bytes move, an
   error gives the permit up, or the task sleeps on the inner stream.       *)
Inner(h, l, d) ==
  \/ /\ inner[h] = "ready" /\ Return(h)
     /\ \/ \E room \in Rooms : \E n \in 0..Capacity(room, l - d) :
             Settle(h, l, d + n) /\ Spend(h, n)
        \/ Idle(h) /\ Spend(h, l - d)
     /\ \E r \in {"dry", "ready"} : inner' = [inner EXCEPT ![h] = r]
  \/ /\ inner[h] = "dry"
     /\ Set(h, "Moving", l, d)
     /\ parked' = [parked EXCEPT ![h] = "inner"]
     /\ UNCHANGED <<inner, calling, backed>>

(* The Idle and Waiting arms once the permit is there, the Reading and
   Writing arm at once.                                                     *)
Move(h) ==
  /\ polled[h] /\ Sleep(h)
  /\ \/ Granted(h) /\ L!Take(h) /\ Inner(h, out[h], 0)
     \/ state[h] = "Moving" /\ Inner(h, len[h], done[h]) /\ UNCHANGED limiterVars

Run(h) == Climb(h) \/ Suspend(h) \/ Move(h)

PollRead  == Start("read") \/ Run("read")
PollWrite == Start("write") \/ Run("write")
-----------------------------------------------------------------------------
InnerReady(h) ==
  /\ inner[h] = "dry" /\ inner' = [inner EXCEPT ![h] = "ready"]
  /\ parked' = [parked EXCEPT ![h] = IF @ = "inner" THEN "no" ELSE @]
  /\ UNCHANGED <<limiterVars, pollVars, state, len, done, calling, backed>>

(* Time and set_limit.                                                      *)
Time(c)  == Refill(c) /\ UNCHANGED halfVars
SetLimit == Reconfigure /\ UNCHANGED halfVars

Next ==
  \/ \E h \in Halves :
       \/ \E p \in L!Chains : New(h, p)
       \/ Begin(h) \/ GiveUp(h) \/ InnerReady(h)
  \/ PollRead \/ PollWrite
  \/ \E c \in Cells : Time(c)
  \/ SetLimit

Spec == Init /\ [][Next]_vars

(* The executor polls awake tasks in turn and a poll runs to its end; time
   goes on and the inner stream gets ready.                                 *)
Fairness ==
  /\ \A h \in Halves : WF_vars(Start(h)) /\ WF_vars(Run(h)) /\ WF_vars(InnerReady(h))
  /\ \A c \in Cells : WF_vars(Time(c))

FairSpec == Spec /\ Fairness
-----------------------------------------------------------------------------
(* From the inner stream to the root: no half ever moves a byte that some
   limiter of its chain has not admitted, whatever is given up, replaced or
   interleaved; and at most one token's worth of bytes is admitted and not
   moved: abandoned calls, futures and permits neither save up nor lose any.
   With TypeOK, by which a permit is never used up in the Reading state.    *)
MovedAsAdmitted ==
  /\ TypeOK
  /\ \A h \in Halves : \A k \in 1..L!Depth(h) :
       /\ backed[h][k] >= 0
       /\ \E w \in Weights : backed[h][k] <= w

(* The `static borrow of the session that the Idle arm makes is the only one:
   no future of an earlier call is alive then, not even a forgotten one.    *)
OneBorrow ==
  \A h \in Halves : state[h] = "Idle" /\ ~polled[h] => pc[h] \in {"closed", "idle"}

(* No task sleeps on what is already there.                                 *)
SleepsWatched ==
  \A h \in Halves :
    /\ parked[h] = "inner" => inner[h] = "dry"
    /\ parked[h] = "permit" /\ calling[h] /\ ~polled[h] =>
         pc[h] = "wait" /\ SleepsForToken(h)

(* A call that is never answered is overtaken forever by the other half; one
   that is given up and sleeps holds no token back.                         *)
OnlyOvertaken ==
  \A h \in Halves :
    <>[]calling[h] => []<><<\E g \in Halves \ {h} : L!Admit(g)>>_vars

(* Each half implements LimitHalf: the permits that LimitHalf gets from
   nowhere are those its session returns, and the bytes the limiter has
   admitted and the session does not hold are the credit LimitHalf keeps.   *)
Half(h) == INSTANCE LimitHalf WITH
  Permits <- UNION {1..w : w \in Weights}, MaxPanics <- 0,
  state <- state[h], len <- len[h], done <- done[h],
  permit <- IF state[h] = "Waiting" THEN out[h] ELSE 0,
  inner <- inner[h], calling <- calling[h],
  parked <- IF pc[h] = "ready" THEN "no" ELSE parked[h],
  credit <- backed[h][1] - locRem[h][1] - out[h],
  starved <- FALSE, panics <- 0

ImplementsHalves ==
  /\ \A h \in Halves : Half(h)!Init
  /\ [][\A h \in Halves : [Half(h)!Next]_(Half(h)!vars)]_vars
=============================================================================
