---------------------------- MODULE LimitSocket ----------------------------
(***************************************************************************)
(* The operations of LimitDatagram over real sessions: LimitDatagramSend   *)
(* and LimitDatagramRecv, LimitDatagram, which has both, and their Local   *)
(* variants (src/src/limit_datagram.rs, limit_datagram_local.rs).          *)
(*                                                                         *)
(* Unlike a stream half, an operation owns its until_ready future: giving  *)
(* the call up drops the future, and the next call makes a new one.  The   *)
(* halves may be in the hands of two tasks; a LimitDatagram is borrowed    *)
(* mutably by the operation that runs, which leaves it fewer behaviours.   *)
(***************************************************************************)
EXTENDS PolledSession, Datagram

ASSUME SocketAssumption == Sessions = Directions /\ MaxSize \in Nat

VARIABLES
  await,      (* where the operation stands: "none", "permit" or "inner"   *)
  size,       (* bytes in the caller's buffer                              *)
  permit,     (* the permit its Idle arm obtained, 0 before that           *)
  paid        (* history: paid[o][k] = bytes admitted to o at level k, less
                 those charged to a datagram or lost with a fresh permit   *)

opVars == <<state, len, moved, await, size, permit, last, since>>
vars == <<limiterVars, pollVars, opVars, paid>>

Ops == Sessions

TypeOK ==
  /\ PollTypeOK
  /\ \A o \in Ops :
       /\ len[o] \in Nat /\ moved[o] \in 0..len[o]
       /\ state[o] = IF len[o] = 0 THEN "Idle" ELSE "Moving"
       /\ permit[o] > 0 => state[o] = "Idle" /\ await[o] = "inner"
       /\ await[o] = "none" => pc[o] \in {"closed", "idle"}
  /\ paid \in [Ops -> [L!Levels -> Int]]

Init ==
  /\ PollInit
  /\ state = [o \in Ops |-> "Idle"]
  /\ len = [o \in Ops |-> 0] /\ moved = [o \in Ops |-> 0]
  /\ await = [o \in Ops |-> "none"] /\ size = [o \in Ops |-> 0]
  /\ permit = [o \in Ops |-> 0]
  /\ last = [o \in Ops |-> 0] /\ since = [o \in Ops |-> 0]
  /\ paid = [o \in Ops |-> L!Zeros]
-----------------------------------------------------------------------------
New(o, p) == L!NewSession(o, p) /\ UNCHANGED <<pollVars, opVars, paid>>

(* The bytes of a datagram to send; the buffer for one to receive, of which
   the datagram fills what it likes.                                        *)
Offers(o) == IF o = "send" THEN 0..MaxSize ELSE {MaxSize}

(* A call of send_to or recv_from: a permit that has bytes left is used
   first, else the session is polled for another.                           *)
Start(o, n) ==
  /\ pc[o] # "closed"
  /\ await[o] = "none"
  /\ size' = [size EXCEPT ![o] = n]
  /\ \/ /\ state[o] = "Idle" /\ L!Call(o) /\ Poll(o)
        /\ await' = [await EXCEPT ![o] = "permit"]
     \/ /\ state[o] = "Moving" /\ UNCHANGED <<limiterVars, pollVars>>
        /\ await' = [await EXCEPT ![o] = "inner"]
  /\ UNCHANGED <<state, len, moved, permit, last, since, paid>>

(* until_ready(): the poll goes on, or sleeps, or is taken up again.        *)
Climb(o) ==
  /\ Advance(o)
  /\ paid' = [paid EXCEPT ![o] =
                [k \in L!Levels |-> @[k] + due'[o][k] - due[o][k]]]
  /\ UNCHANGED opVars

Suspend(o) == Pending(o) /\ Sleep(o) /\ UNCHANGED <<limiterVars, opVars, paid>>

Resume(o) ==
  /\ await[o] = "permit" /\ ~polled[o] /\ woken[o] /\ Poll(o)
  /\ UNCHANGED <<limiterVars, opVars, paid>>

Permitted(o) ==
  /\ Granted(o) /\ L!Take(o) /\ Sleep(o)
  /\ permit' = [permit EXCEPT ![o] = out[o]]
  /\ await' = [await EXCEPT ![o] = "inner"]
  /\ last' = [last EXCEPT ![o] = out[o]]
  /\ since' = [since EXCEPT ![o] = 0]
  /\ UNCHANGED <<state, len, moved, size, paid>>
-----------------------------------------------------------------------------
Return(o) ==
  /\ await' = [await EXCEPT ![o] = "none"]
  /\ size' = [size EXCEPT ![o] = 0]
  /\ permit' = [permit EXCEPT ![o] = 0]

Charge(o, n) ==
  paid' = [paid EXCEPT ![o] =
             [k \in L!Levels |-> IF k <= L!Depth(o) THEN @[k] - n ELSE @[k]]]

Least(m, n) == IF m < n THEN m ELSE n

(* Mutant: the datagram that opened the permit is not charged to it.        *)
SettleStale(o, n) ==
  IF state[o] = "Idle" THEN OpenStale(o, permit[o], n) ELSE Continue(o, n)

(* The end of either arm.                                                   *)
Settle(o, n) ==
  IF state[o] = "Idle" THEN Open(o, permit[o], n) ELSE Continue(o, n)

Left(o) == IF state[o] = "Idle" THEN permit[o] ELSE len[o] - moved[o]

(* The inner socket has moved a datagram of n bytes.                        *)
Moved(o, n) ==
  /\ await[o] = "inner"
  /\ IF o = "send" THEN n = size[o] ELSE n <= size[o]
  /\ Settle(o, n) /\ Charge(o, Least(n, Left(o)))
  /\ since' = [since EXCEPT ![o] = @ + n]
  /\ Return(o)
  /\ UNCHANGED <<limiterVars, pollVars, last>>

(* The inner socket fails, or the future is dropped while it waits for it: a
   fresh permit goes with it, an older one stays.                           *)
Abort(o) ==
  /\ await[o] = "inner" /\ Return(o) /\ Charge(o, permit[o])
  /\ UNCHANGED <<limiterVars, pollVars, state, len, moved, last, since>>

(* The future is dropped while it sleeps, and until_ready with it.          *)
CancelWait(o) ==
  /\ await[o] = "permit" /\ ~polled[o] /\ L!Cancel(o) /\ Return(o)
  /\ UNCHANGED <<pollVars, state, len, moved, last, since, paid>>

Run(o) ==
  \/ Climb(o) \/ Suspend(o) \/ Resume(o) \/ Permitted(o)
  \/ \E n \in 0..MaxSize : Moved(o, n)
  \/ Abort(o)

Socket(o) == Run(o) \/ CancelWait(o) \/ \E n \in Offers(o) : Start(o, n)

SendTo   == Socket("send")
RecvFrom == Socket("recv")

(* Time and set_limit.                                                      *)
Time(c)  == Refill(c) /\ UNCHANGED <<opVars, paid>>
SetLimit == Reconfigure /\ UNCHANGED <<opVars, paid>>

Next ==
  \/ \E o \in Ops, p \in L!Chains : New(o, p)
  \/ SendTo \/ RecvFrom
  \/ \E c \in Cells : Time(c)
  \/ SetLimit

Spec == Init /\ [][Next]_vars

(* A poll runs to its end, a task that is awake is polled, the inner socket
   answers, and time goes on.                                               *)
Fairness ==
  /\ \A o \in Ops : WF_vars(Run(o))
  /\ \A c \in Cells : WF_vars(Time(c))

FairSpec == Spec /\ Fairness
-----------------------------------------------------------------------------
(* Every byte of every datagram was admitted by each limiter of the chain,
   except the end of a datagram that finds the permit too small; and at most
   one token's worth of bytes is admitted and not charged, whatever fails or
   is cancelled (the arms of send_to and recv_from).  With TypeOK, by which
   no permit and no session is held between two operations.                 *)
DatagramsPaid ==
  /\ TypeOK
  /\ \A o \in Ops : \A k \in 1..L!Depth(o) :
       /\ paid[o][k] >= 0
       /\ \E w \in Weights : paid[o][k] <= w

(* A caller that gives every wait up, after a timeout say, and tries again
   gets its permit in the end, although a sleeping call has no claim on the
   next token and a cancelled one leaves nothing behind: else the other half
   takes the tokens.                                                        *)
RetriesSucceed ==
  \A o \in Ops :
    []<><<state[o] = "Idle" /\ \E n \in Offers(o) : Start(o, n)>>_vars
      => []<><<Permitted(o) \/ \E p \in Ops \ {o} : L!Admit(p)>>_vars

(* Each operation implements LimitDatagram, whose permits come from nowhere
   and whose operations run one at a time.                                  *)
Only(o, f, none) == [x \in Directions |-> IF x = o THEN f ELSE none]

One(o) == INSTANCE LimitDatagram WITH
  Permits <- UNION {1..w : w \in Weights},
  state <- Only(o, state[o], "Idle"),
  len <- Only(o, len[o], 0), moved <- Only(o, moved[o], 0),
  call <- IF await[o] = "none" THEN "none" ELSE o,
  await <- await[o], size <- size[o], permit <- permit[o],
  last <- Only(o, last[o], 0), since <- Only(o, since[o], 0)

ImplementsDatagram ==
  /\ \A o \in Ops : One(o)!Init
  /\ [][\A o \in Ops : [One(o)!Next]_(One(o)!vars)]_vars
=============================================================================
