------------------------- MODULE LimitSocket_proofs -------------------------
(***************************************************************************)
(* Proofs about LimitDatagram, for all permits and datagram sizes, and     *)
(* about LimitSocket, for chains of limiters of any length and any         *)
(* weights.  What the theorems of SpeedLimiter say of sessions is carried  *)
(* over to the sessions of the operations.                                 *)
(***************************************************************************)
EXTENDS LimitSocket, TLAPS

(* LimitDatagram, whatever permits it is given.                             *)
CONSTANT Permits
VARIABLE call

D == INSTANCE LimitDatagram

(* What a running operation has obtained: in the Idle arm a fresh permit
   with nothing moved under it.                                             *)
Running ==
  /\ await # "none" => call \in D!Directions
  /\ await = "permit" => state[call] = "Idle"
  /\ await = "inner" /\ state[call] = "Idle" =>
       permit \in Permits /\ permit = last[call] /\ since[call] = 0

DatagramInv == D!TypeOK /\ Running /\ D!Accounted /\ D!OverrunBounded

LEMMA DatagramInit == ASSUME D!DatagramAssumption PROVE D!Init => DatagramInv
<1> SUFFICES ASSUME D!Init PROVE DatagramInv
  OBVIOUS
<1>1. 0 \in Nat /\ 0 <= 0 /\ 0 \in 0..MaxSize /\ MaxSize \in Nat
  BY DEF D!DatagramAssumption
<1>2. D!TypeOK
  BY <1>1 DEF D!Init, D!TypeOK
<1>3. Running /\ D!Accounted
  BY DEF D!Init, Running, D!Accounted
<1>4. D!OverrunBounded
  BY <1>1 DEF D!Init, D!OverrunBounded
<1> QED
  BY <1>2, <1>3, <1>4 DEF DatagramInv

(* Moving a datagram is where bytes and permits meet.                       *)
LEMMA DatagramMoved ==
  ASSUME D!DatagramAssumption, DatagramInv, NEW n \in 0..MaxSize, D!Moved(n)
  PROVE  DatagramInv'
<1> USE DEF D!DatagramAssumption
<1> DEFINE o == call
<1>1. /\ o \in D!Directions /\ n \in Nat /\ n <= MaxSize
      /\ state[o] = "Idle" => permit \in Permits /\ permit = last[o] /\ since[o] = 0
  BY DEF D!Moved, DatagramInv, Running
<1>2. since' = [since EXCEPT ![o] = @ + n] /\ last' = last
  BY DEF D!Moved
<1>3. /\ since \in [D!Directions -> Nat] /\ last \in [D!Directions -> Permits \cup {0}]
      /\ since' \in [D!Directions -> Nat] /\ since'[o] = since[o] + n
      /\ \A p \in D!Directions : p # o => since'[p] = since[p]
  BY <1>1, <1>2 DEF DatagramInv, D!TypeOK
<1>4. last[o] \in Nat /\ since[o] \in Nat /\ MaxSize \in Nat /\ since[o] <= last[o]
  <2>0. last[o] \in Nat /\ since[o] \in Nat /\ MaxSize \in Nat
    <3>1. last[o] \in Permits \cup {0} /\ since[o] \in Nat
      BY <1>1, <1>3
    <3>2. \A x : x \in Permits => x \in Nat
      OBVIOUS
    <3> QED
      BY <3>1, <3>2
  <2>1. CASE state[o] = "Idle"
    BY <1>1, <2>0, <2>1
  <2>2. CASE state[o] = "Moving"
    <3>1. len[o] = last[o] /\ moved[o] = since[o] /\ moved[o] <= len[o]
      BY <1>1, <2>2 DEF DatagramInv, D!TypeOK, D!Accounted
    <3> QED
      BY <2>0, <3>1
  <2> QED
    BY <1>1, <2>0, <2>1, <2>2 DEF DatagramInv, D!TypeOK
<1>5. D!OverrunBounded'
  <2>1. since'[o] <= last'[o] + MaxSize
    BY <1>1, <1>2, <1>3, <1>4
  <2> QED
    BY <2>1, <1>2, <1>3 DEF DatagramInv, D!OverrunBounded
<1>6. Running' /\ call' = "none" /\ await' = "none" /\ size' = 0 /\ permit' = 0
  BY DEF D!Moved, D!Return, Running
<1>7. \/ D!Set(o, "Idle", 0, 0)
      \/ D!Set(o, "Moving", last[o], since[o] + n) /\ since[o] + n <= last[o]
  <2>1. CASE state[o] = "Idle"
    BY <1>1, <1>4, <2>1 DEF D!Moved, D!Open
  <2>2. CASE state[o] # "Idle"
    <3>1. len[o] = last[o] /\ moved[o] = since[o]
      BY <1>1, <2>2 DEF DatagramInv, D!TypeOK, D!Accounted
    <3>2. D!Continue(o, n)
      BY <2>2 DEF D!Moved
    <3> QED
      BY <1>1, <1>4, <3>1, <3>2 DEF D!Continue
  <2> QED
    BY <2>1, <2>2
<1>8. /\ state \in [D!Directions -> {"Idle", "Moving"}]
      /\ len \in [D!Directions -> Permits \cup {0}] /\ moved \in [D!Directions -> Nat]
      /\ \A p \in D!Directions : moved[p] <= len[p]
      /\ D!Accounted
      /\ 0 \in Nat /\ 0 <= 0 /\ last[o] \in Permits \cup {0}
  BY <1>1, <1>3 DEF DatagramInv, D!TypeOK
<1>9. /\ state' \in [D!Directions -> {"Idle", "Moving"}]
      /\ len' \in [D!Directions -> Permits \cup {0}] /\ moved' \in [D!Directions -> Nat]
      /\ \A p \in D!Directions : moved'[p] <= len'[p]
      /\ D!Accounted'
  <2>1. CASE D!Set(o, "Idle", 0, 0)
    BY <1>1, <1>2, <1>3, <1>8, <2>1 DEF D!Set, D!Accounted
  <2>2. CASE D!Set(o, "Moving", last[o], since[o] + n) /\ since[o] + n <= last[o]
    <3>1. since[o] + n \in Nat
      BY <1>1, <1>4
    <3> QED
      BY <1>1, <1>2, <1>3, <1>8, <2>2, <3>1 DEF D!Set, D!Accounted
  <2> QED
    BY <1>7, <2>1, <2>2
<1>10. D!TypeOK'
  BY <1>2, <1>3, <1>6, <1>9 DEF DatagramInv, D!TypeOK
<1> QED
  BY <1>5, <1>6, <1>9, <1>10 DEF DatagramInv

(* Every other step obtains a permit, or leaves the two accounts alone.     *)
LEMMA DatagramNext ==
  ASSUME D!DatagramAssumption PROVE DatagramInv /\ [D!Next]_(D!vars) => DatagramInv'
<1> SUFFICES ASSUME DatagramInv, [D!Next]_(D!vars) PROVE DatagramInv'
  OBVIOUS
<1> USE DEF D!DatagramAssumption
<1>1. ASSUME NEW o \in D!Directions, NEW n \in 0..MaxSize, D!Start(o, n) PROVE DatagramInv'
  <2>1. state[o] = "Idle" \/ state[o] = "Moving"
    BY DEF DatagramInv, D!TypeOK
  <2>2. D!TypeOK' /\ D!Accounted' /\ D!OverrunBounded'
    BY <1>1 DEF DatagramInv, D!TypeOK, D!Accounted, D!OverrunBounded, D!Start
  <2>3. Running'
    BY <1>1, <2>1 DEF DatagramInv, Running, D!Start
  <2> QED
    BY <2>2, <2>3 DEF DatagramInv
<1>2. ASSUME NEW n \in Permits, D!Permitted(n) PROVE DatagramInv'
  <2>1. call \in D!Directions /\ state[call] = "Idle"
    BY <1>2 DEF DatagramInv, Running, D!Permitted
  <2>2. /\ last \in [D!Directions -> Permits \cup {0}] /\ since \in [D!Directions -> Nat]
        /\ last' = [last EXCEPT ![call] = n] /\ since' = [since EXCEPT ![call] = 0]
    BY <1>2 DEF DatagramInv, D!TypeOK, D!Permitted
  <2>3. D!TypeOK'
    <3>1. /\ last' \in [D!Directions -> Permits \cup {0}] /\ since' \in [D!Directions -> Nat]
          /\ permit' \in Permits \cup {0} /\ await' \in {"none", "permit", "inner"}
          /\ UNCHANGED <<state, len, moved, call, size>>
      BY <1>2, <2>1, <2>2 DEF D!Permitted
    <3> QED
      BY <3>1 DEF DatagramInv, D!TypeOK
  <2>4. Running'
    BY <1>2, <2>1, <2>2 DEF Running, D!Permitted
  <2>5. D!Accounted'
    BY <1>2, <2>1, <2>2 DEF DatagramInv, D!Accounted, D!Permitted
  <2>6. D!OverrunBounded'
    <3>1. 0 <= n + MaxSize
      OBVIOUS
    <3> QED
      BY <1>2, <2>1, <2>2, <3>1 DEF DatagramInv, D!OverrunBounded
  <2> QED
    BY <2>3, <2>4, <2>5, <2>6 DEF DatagramInv
<1>3. ASSUME D!InnerFails \/ D!Cancel PROVE DatagramInv'
  <2>1. /\ call' = "none" /\ await' = "none" /\ size' = 0 /\ permit' = 0
        /\ UNCHANGED <<state, len, moved, last, since>> /\ 0 \in 0..MaxSize
    BY <1>3 DEF D!InnerFails, D!Cancel, D!Return
  <2> QED
    BY <2>1 DEF DatagramInv, D!TypeOK, Running, D!Accounted, D!OverrunBounded
<1>4. CASE UNCHANGED D!vars
  BY <1>4 DEF D!vars, DatagramInv, D!TypeOK, Running, D!Accounted, D!OverrunBounded
<1> QED
  BY <1>1, <1>2, <1>3, <1>4, DatagramMoved DEF D!Next, D!SendTo, D!RecvFrom, D!Directions

(* The two accounts are sound in every reachable state.                     *)
THEOREM DatagramInvariance ==
  ASSUME D!DatagramAssumption PROVE D!Spec => []DatagramInv
<1> QED
  BY DatagramInit, DatagramNext, PTL DEF D!Spec

(* Both states stay well typed over every failure and cancellation: what is
   moved under a permit that carries on never exceeds it, so that the
   subtraction in the Writing and Reading arms never wraps.                 *)
THEOREM DatagramTypes ==
  ASSUME D!DatagramAssumption PROVE D!Spec => []D!TypeOK
<1>1. DatagramInv => D!TypeOK
  BY DEF DatagramInv
<1> QED
  BY <1>1, DatagramInvariance, PTL

(* A permit that carries on over datagrams is charged with every byte moved
   under it, whatever was cancelled or failed on the way.                   *)
THEOREM DatagramAccounts ==
  ASSUME D!DatagramAssumption PROVE D!Spec => []Accounted
<1>1. DatagramInv => Accounted
  BY DEF DatagramInv, D!Accounted, Accounted, D!Directions, Directions
<1> QED
  BY <1>1, DatagramInvariance, PTL

(* No permit ever lets through more than its bytes and one datagram.        *)
THEOREM DatagramOverrun ==
  ASSUME D!DatagramAssumption PROVE D!Spec => []OverrunBounded
<1>1. DatagramInv => OverrunBounded
  BY DEF DatagramInv, D!OverrunBounded, OverrunBounded, D!Directions, Directions
<1> QED
  BY <1>1, DatagramInvariance, PTL
-----------------------------------------------------------------------------
(* From here on, LimitSocket.                                               *)
P == INSTANCE SpeedLimiter_proofs

(* The sessions are in order: their ledger balances and they are frugal.    *)
Sound == P!IInv /\ P!FrugalInv

Fields ==
  /\ {polled, woken} \subseteq [Ops -> BOOLEAN]
  /\ {len, moved, size, permit, last, since} \subseteq [Ops -> Nat]
  /\ state \in [Ops -> {"Idle", "Moving"}]
  /\ await \in [Ops -> {"none", "permit", "inner"}]
  /\ paid \in [Ops -> [P!Levels -> Int]]

(* What an operation is doing tells where its session stands: in a call
   exactly while it awaits its permit, asleep only at the governor.         *)
Called == {"enter", "local", "wait", "ready"}

Stage(o) ==
  /\ moved[o] <= len[o] /\ (state[o] = "Moving" <=> len[o] > 0)
  /\ size[o] <= MaxSize
  /\ await[o] = "permit" => state[o] = "Idle" /\ pc[o] \in Called /\ (polled[o] \/ pc[o] = "wait")
  /\ await[o] # "permit" => pc[o] \in {"closed", "idle"} /\ ~polled[o]
  /\ await[o] = "inner" /\ state[o] = "Idle" <=> permit[o] > 0
  /\ pc[o] = "closed" => state[o] = "Idle" /\ await[o] = "none"

(* A permit is on the account of the operation from where it left the
   session's until its bytes are used up.                                   *)
Unspent(o) == permit[o] + (len[o] - moved[o])

Share(o, k) == IF k <= P!Depth(o) THEN Unspent(o) ELSE 0

Credit(o) ==
  \A k \in P!Levels :
    /\ paid[o][k] = due[o][k] + Share(o, k)
    /\ Unspent(o) > 0 /\ k <= P!Depth(o) => \E w \in Weights : paid[o][k] <= w

OInv == Fields /\ \A o \in Ops : Stage(o) /\ Credit(o)
-----------------------------------------------------------------------------
(* Both instances of SpeedLimiter are the same.                             *)
LEMMA Assumed == P!LimiterAssumption
BY PolledAssumption DEF L!LimiterAssumption, P!LimiterAssumption

LEMMA SameInit == L!Init => P!Init
BY DEF L!Init, P!Init, L!Pairs, P!Pairs, L!NoGov, P!NoGov, L!Zeros, P!Zeros,
       L!Levels, P!Levels, L!NoQuote, P!NoQuote

LEMMA SameGrant == ASSUME NEW s, NEW w PROVE L!Grant(s, w) <=> P!Grant(s, w)
BY DEF L!Grant, P!Grant, L!Returned, P!Returned, L!Depth, P!Depth, L!Least, P!Least,
       L!Levels, P!Levels

LEMMA SameStep == ASSUME NEW s PROVE L!Step(s) => P!Step(s)
<1>1. L!NeedsToken(s) <=> P!NeedsToken(s)
  BY DEF L!NeedsToken, P!NeedsToken, L!Depth, P!Depth
<1>2. L!Pair(s) = P!Pair(s)
  BY DEF L!Pair, P!Pair
<1>3. L!Climb(s) => P!Climb(s)
  BY DEF L!Climb, P!Climb, L!Depth, P!Depth, L!limiterVars, P!limiterVars
<1>4. L!UseUpper(s) => P!UseUpper(s)
  BY DEF L!UseUpper, P!UseUpper, L!Depth, P!Depth, L!limiterVars, P!limiterVars
<1>5. L!UseLocal(s) => P!UseLocal(s)
  BY SameGrant DEF L!UseLocal, P!UseLocal, L!limiterVars, P!limiterVars
<1>6. L!Unlimited(s) => P!Unlimited(s)
  BY <1>1, <1>2, SameGrant DEF L!Unlimited, P!Unlimited, L!limiterVars, P!limiterVars
<1>7. L!Wait(s) => P!Wait(s)
  BY <1>1, <1>2 DEF L!Wait, P!Wait, L!limiterVars, P!limiterVars
<1> QED
  BY <1>3, <1>4, <1>5, <1>6, <1>7 DEF L!Step, P!Step

LEMMA SameCollect ==
  ASSUME NEW b, NEW lim, NEW quo PROVE L!Collect(b, lim, quo) = P!Collect(b, lim, quo)
BY DEF L!Collect, P!Collect, L!Referenced, P!Referenced, L!NoGov, P!NoGov

LEMMA SameAdmit == ASSUME NEW s PROVE L!Admit(s) => P!Admit(s)
BY SameGrant, SameCollect DEF L!Admit, P!Admit, L!NoQuote, P!NoQuote

LEMMA SameUse ==
  ASSUME NEW s, \/ L!Call(s) \/ L!Take(s) \/ L!Cancel(s)
                \/ \E p \in L!Chains : L!NewSession(s, p)
  PROVE  P!Use(s)
<1>1. L!Call(s) => P!Call(s)
  BY DEF L!Call, P!Call, L!limiterVars, P!limiterVars
<1>2. L!Take(s) => P!Take(s)
  BY DEF L!Take, P!Take, L!limiterVars, P!limiterVars, L!Depth, P!Depth, L!Levels, P!Levels
<1>4. L!Cancel(s) => P!Cancel(s)
  BY SameCollect DEF L!Cancel, P!Cancel, L!NoQuote, P!NoQuote
<1>3. (\E p \in L!Chains : L!NewSession(s, p)) => \E p \in P!Chains : P!NewSession(s, p)
  BY DEF L!NewSession, P!NewSession, L!limiterVars, P!limiterVars, L!Chains, P!Chains,
         L!IsChain, P!IsChain, L!Levels, P!Levels
<1> QED
  BY <1>1, <1>2, <1>3, <1>4 DEF P!Use

LEMMA SameReconfigure == L!Reconfigure => P!Reconfigure
<1>1. \A l, w : L!SetUnlimited(l, w) => P!SetUnlimited(l, w)
  BY SameCollect DEF L!SetUnlimited, P!SetUnlimited, L!sessionVars, P!sessionVars
<1>2. \A l, w, c, b : L!SetLimit(l, w, c, b) => P!SetLimit(l, w, c, b)
  BY SameCollect DEF L!SetLimit, P!SetLimit, L!sessionVars, P!sessionVars, L!NoGov, P!NoGov
<1> QED
  BY <1>1, <1>2 DEF L!Reconfigure, P!Reconfigure

LEMMA SameRefill == ASSUME NEW c PROVE L!Refill(c) => P!Refill(c)
BY DEF L!Refill, P!Refill, L!sessionVars, P!sessionVars
-----------------------------------------------------------------------------
(* What one operation, its caller and its socket can do.                    *)
OpStep(o) == (\E p \in L!Chains : New(o, p)) \/ Socket(o)

LEMMA Steps ==
  Next => \/ \E o \in Ops : OpStep(o)
          \/ \E c \in Cells : Time(c)
          \/ SetLimit
BY SocketAssumption DEF Directions, Next, SendTo, RecvFrom, OpStep, Ops

(* A step of an operation is one of its session, or leaves the limiters
   alone.                                                                   *)
LEMMA OpSession ==
  ASSUME NEW o, OpStep(o)
  PROVE  P!Step(o) \/ P!Admit(o) \/ P!Use(o) \/ UNCHANGED limiterVars
<1>1. ASSUME NEW p \in L!Chains, New(o, p) PROVE P!Use(o)
  BY <1>1, SameUse DEF New
<1>2. ASSUME NEW n, Start(o, n) PROVE P!Use(o) \/ UNCHANGED limiterVars
  BY <1>2, SameUse DEF Start
<1>3. CASE Climb(o)
  BY <1>3, SameStep, SameAdmit DEF Climb, Advance
<1>4. CASE Suspend(o) \/ Resume(o) \/ Abort(o) \/ \E n \in 0..MaxSize : Moved(o, n)
  BY <1>4 DEF Suspend, Resume, Abort, Moved
<1>5. CASE Permitted(o) \/ CancelWait(o)
  BY <1>5, SameUse DEF Permitted, CancelWait
<1> QED
  BY <1>1, <1>2, <1>3, <1>4, <1>5 DEF OpStep, Socket, Run

LEMMA Simulates == [Next]_vars => [P!Next]_(P!vars)
<1>1. (\E o \in Ops : OpStep(o)) => [P!Next]_(P!vars)
  BY OpSession DEF P!Next, P!vars, limiterVars, Ops
<1>2. (\E c \in Cells : Time(c)) => P!Next
  BY SameRefill DEF Time, Refill, P!Next
<1>3. SetLimit => P!Next
  BY SameReconfigure DEF SetLimit, Reconfigure, P!Next
<1>4. UNCHANGED vars => UNCHANGED P!vars
  BY DEF vars, limiterVars, P!vars
<1> QED
  BY <1>1, <1>2, <1>3, <1>4, Steps

(* Whatever the operations do, abandoned and failed ones included, their
   sessions keep the invariants of sessions: what SpeedLimiter promises
   holds inside the socket.                                                 *)
THEOREM SocketSessionsSound == Spec => []Sound
<1>1. Spec => P!Spec
  <2>1. Init => P!Init
    BY SameInit DEF Init, PollInit
  <2> QED
    BY <2>1, Simulates, PTL DEF Spec, P!Spec
<1>2. P!Spec => []P!IInv
  BY P!Invariance, Assumed
<1>3. P!Spec => []P!FrugalInv
  BY P!Frugality, Assumed
<1> QED
  BY <1>1, <1>2, <1>3, PTL DEF Sound
-----------------------------------------------------------------------------
(* What is known of the session of an operation.                                  *)
LEMMA Session ==
  ASSUME Sound, NEW o \in Ops
  PROVE  /\ 1 \in P!Levels /\ P!Levels \subseteq Nat \ {0} /\ P!Depth(o) \in Nat
         /\ due[o] \in [P!Levels -> Int] /\ locRem[o] \in [P!Levels -> Nat] /\ out[o] \in Nat
         /\ pc[o] \in {"closed", "idle"} \cup Called
         /\ pc[o] = "closed" => due[o] = [k \in P!Levels |-> 0] /\ locRem[o][1] = 0
         /\ pc[o] = "ready" => out[o] > 0
         /\ pc[o] # "ready" => out[o] = 0
         /\ due[o][1] = locRem[o][1] + out[o]
         /\ pc[o] # "closed" => 1 <= P!Depth(o)
         /\ \A k \in P!Levels : k <= P!Depth(o) =>
              due[o][k] >= out[o] /\ \E w \in Weights : due[o][k] <= w
<1>1. P!IInv /\ P!Frugal(o) /\ o \in Sessions
  BY DEF Sound, P!FrugalInv, Ops
<1>2. /\ 1 \in P!Levels /\ \A j \in P!Levels : j \in Nat /\ j >= 1
      /\ due[o] \in [P!Levels -> Int] /\ locRem[o] \in [P!Levels -> Nat] /\ out[o] \in Nat
      /\ pc[o] = "closed" => P!Depth(o) = 0
      /\ pc[o] # "closed" => P!Depth(o) \in P!Levels
  BY <1>1, Assumed, P!Standing
<1>3. P!Levels \subseteq Nat \ {0} /\ P!Depth(o) \in Nat /\ (pc[o] # "closed" => 1 <= P!Depth(o))
  BY <1>2
<1>4. /\ P!Placed(o) /\ P!Holds(o) /\ P!Balanced(o)
      /\ pc[o] \in {"closed", "idle"} \cup Called
  BY <1>1 DEF P!IInv, P!TypeOK, Called
<1>5. /\ pc[o] = "closed" => due[o] = [k \in P!Levels |-> 0] /\ locRem[o][1] = 0
      /\ pc[o] = "ready" => out[o] > 0
      /\ pc[o] # "ready" => out[o] = 0
  BY <1>2, <1>4 DEF P!Holds, P!Zeros
<1>6. due[o][1] = locRem[o][1] + out[o]
  <2>1. due[o][1] - locRem[o][1] = out[o] /\ due[o][1] \in Int /\ locRem[o][1] \in Nat
    BY <1>2, <1>4 DEF P!Balanced, P!Passed
  <2> QED
    BY <1>2, <2>1
<1>7. ASSUME NEW k \in P!Levels, k <= P!Depth(o)
      PROVE  due[o][k] >= out[o] /\ \E w \in Weights : due[o][k] <= w
  <2>1. k \in 1..P!Depth(o)
    BY <1>2, <1>3, <1>7
  <2>2. due[o][k] >= out[o]
    BY <1>1, <2>1, Assumed, P!Covered
  <2> QED
    BY <1>1, <1>7, <2>2 DEF P!Frugal
<1> QED
  BY <1>2, <1>3, <1>4, <1>5, <1>6, <1>7

(* until_ready goes on: inside the call, in the same chain.                 *)
LEMMA Advances ==
  ASSUME Sound, NEW o \in Ops, L!Step(o) \/ L!Admit(o)
  PROVE  /\ pc[o] \in Called \ {"ready"} /\ pc'[o] \in Called
         /\ path' = path
<1>1. o \in DOMAIN pc /\ pc \in [Sessions -> {"closed", "idle"} \cup Called]
  BY DEF Sound, P!IInv, P!TypeOK, Ops, Called
<1>2. ASSUME NEW w, L!Grant(o, w) PROVE pc'[o] \in Called /\ path' = path
  BY <1>1, <1>2 DEF L!Grant, Called
<1>3. CASE L!UseLocal(o) \/ L!Unlimited(o) \/ L!Admit(o)
  BY <1>2, <1>3 DEF L!UseLocal, L!Unlimited, L!Admit, L!NeedsToken, Called
<1>4. CASE L!Climb(o) \/ L!UseUpper(o) \/ L!Wait(o)
  BY <1>1, <1>4 DEF L!Climb, L!UseUpper, L!Wait, L!NeedsToken, Called
<1> QED
  BY <1>3, <1>4 DEF L!Step

(* The caller takes its permit out of the session's account.                *)
LEMMA Takes ==
  ASSUME Sound, NEW o \in Ops, L!Take(o)
  PROVE  /\ pc[o] = "ready" /\ pc'[o] = "idle" /\ path' = path
         /\ due'[o] = [k \in P!Levels |->
                         IF k <= P!Depth(o) THEN due[o][k] - out[o] ELSE due[o][k]]
<1>1. o \in DOMAIN pc /\ o \in DOMAIN due
  BY DEF Sound, P!IInv, P!TypeOK, Ops
<1> QED
  BY <1>1 DEF L!Take, L!Levels, P!Levels, L!Depth, P!Depth

-----------------------------------------------------------------------------
Own(o) == Stage(o) /\ Credit(o)

LEMMA InitOps == Init => OInv
<1> SUFFICES ASSUME Init PROVE OInv
  OBVIOUS
<1>1. /\ polled = [o \in Ops |-> FALSE] /\ woken = [o \in Ops |-> FALSE]
      /\ pc = [o \in Ops |-> "closed"] /\ due = [o \in Ops |-> [k \in P!Levels |-> 0]]
      /\ paid = [o \in Ops |-> [k \in P!Levels |-> 0]]
  BY DEF Init, PollInit, L!Init, Ops, L!Zeros, L!Levels, P!Levels
<1>2. Fields
  BY <1>1 DEF Init, Fields
<1>3. ASSUME NEW o \in Ops PROVE Own(o)
  <2>1. Stage(o)
    BY <1>1, <1>3, SocketAssumption DEF Directions, Init, Stage
  <2>2. Credit(o)
    BY <1>1, <1>3 DEF Init, Credit, Share, Unspent
  <2> QED
    BY <2>1, <2>2 DEF Own
<1> QED
  BY <1>2, <1>3 DEF OInv, Own

(* The session and the account of bytes stay, and so does what is open.     *)
LEMMA CreditKept ==
  ASSUME NEW o, Credit(o), path'[o] = path[o], due'[o] = due[o], paid'[o] = paid[o],
         Unspent(o)' = Unspent(o)
  PROVE  Credit(o)'
BY DEF Credit, Share, P!Depth, P!Levels

(* The caller: a session is opened, a call begins.                          *)
LEMMA CallerInv ==
  ASSUME Sound, OInv, NEW o \in Ops,
         \/ \E p \in L!Chains : New(o, p)
         \/ \E n \in Offers(o) : Start(o, n)
  PROVE  Fields' /\ Own(o)'
<1> USE DEF OInv
<1>1. /\ pc \in [Sessions -> {"closed", "idle"} \cup Called] /\ o \in Sessions
      /\ Fields /\ Stage(o) /\ Credit(o) /\ P!Levels' = P!Levels
      /\ len[o] \in Nat /\ moved[o] \in Nat /\ permit[o] \in Nat
  BY DEF Sound, P!IInv, P!TypeOK, Called, Ops, P!Levels, Fields
<1>2. ASSUME NEW p \in L!Chains, New(o, p) PROVE Fields' /\ Own(o)'
  <2>1. /\ pc[o] = "closed" /\ pc'[o] = "idle"
        /\ UNCHANGED <<due, polled, woken, state, len, moved, await, size, permit, last,
                       since, paid>>
    BY <1>1, <1>2 DEF New, L!NewSession, pollVars, opVars
  <2>2. state[o] = "Idle" /\ await[o] = "none" /\ Unspent(o) = 0
    BY <1>1, <2>1 DEF Stage, Unspent
  <2>3. Fields' /\ Stage(o)'
    BY <1>1, <2>1, <2>2 DEF Fields, Stage
  <2>4. Unspent(o)' = 0
    BY <2>1, <2>2 DEF Unspent
  <2>5. \A k \in P!Levels : Share(o, k) = 0 /\ Share(o, k)' = 0
    BY <2>2, <2>4 DEF Share
  <2>6. Credit(o)'
    BY <1>1, <2>1, <2>4, <2>5 DEF Credit
  <2> QED
    BY <2>3, <2>6 DEF Own
<1>3. ASSUME NEW n \in Offers(o), Start(o, n) PROVE Fields' /\ Own(o)'
  <2>1. /\ n \in Nat /\ n <= MaxSize
        /\ pc[o] # "closed" /\ await[o] = "none" /\ size' = [size EXCEPT ![o] = n]
        /\ UNCHANGED <<state, len, moved, permit, last, since, paid>>
    BY <1>3, SocketAssumption DEF Directions, Start, Offers
  <2>2. Unspent(o)' = Unspent(o)
    BY <2>1 DEF Unspent
  <2>3. CASE state[o] = "Idle" /\ L!Call(o) /\ Poll(o) /\ await' = [await EXCEPT ![o] = "permit"]
    <3>1. pc'[o] = "enter" /\ UNCHANGED <<path, due>>
      BY <1>1, <2>3 DEF L!Call
    <3>2. polled'[o] = TRUE /\ Fields'
      BY <1>1, <2>1, <2>3 DEF Fields, Poll
    <3>3. Stage(o)'
      BY <1>1, <2>1, <2>3, <3>1, <3>2 DEF Stage, Called, Fields
    <3> QED
      BY <1>1, <2>1, <2>2, <3>1, <3>2, <3>3, CreditKept DEF Own
  <2>4. CASE state[o] = "Moving" /\ UNCHANGED <<limiterVars, pollVars>>
             /\ await' = [await EXCEPT ![o] = "inner"]
    <3>1. UNCHANGED <<path, due, pc, polled, woken>>
      BY <2>4 DEF limiterVars, pollVars
    <3>2. Fields'
      BY <1>1, <2>1, <2>4, <3>1 DEF Fields
    <3>3. Stage(o)'
      BY <1>1, <2>1, <2>4, <3>1 DEF Stage, Fields
    <3> QED
      BY <1>1, <2>1, <2>2, <3>1, <3>2, <3>3, CreditKept DEF Own
  <2> QED
    BY <1>3, <2>3, <2>4 DEF Start
<1> QED
  BY <1>2, <1>3

(* until_ready goes on, sleeps or is given up; its permit is taken.          *)
LEMMA ReadyInv ==
  ASSUME Sound, Sound', OInv, NEW o \in Ops,
         Climb(o) \/ Suspend(o) \/ Resume(o) \/ Permitted(o) \/ CancelWait(o)
  PROVE  Fields' /\ Own(o)'
<1> USE DEF OInv
<1>1. /\ pc \in [Sessions -> {"closed", "idle"} \cup Called] /\ o \in Sessions
      /\ Fields /\ Stage(o) /\ Credit(o) /\ P!Levels' = P!Levels /\ P!Levels \subseteq Nat
      /\ len[o] \in Nat /\ moved[o] \in Nat /\ permit[o] \in Nat /\ MaxSize \in Nat
      /\ paid[o] \in [P!Levels -> Int] /\ P!Depth(o) \in Nat
      /\ due[o] \in [P!Levels -> Int] /\ due'[o] \in [P!Levels -> Int]
  <2>1. /\ P!Levels \subseteq Nat /\ P!Depth(o) \in Nat /\ due[o] \in [P!Levels -> Int]
    BY Session
  <2>2. P!Levels' = P!Levels /\ o \in Sessions
    BY DEF P!Levels, Ops
  <2>3. due'[o] \in [P!Levels -> Int]
    BY <2>2 DEF Sound, P!IInv, P!TypeOK
  <2>4. pc \in [Sessions -> {"closed", "idle"} \cup Called]
    BY DEF Sound, P!IInv, P!TypeOK, Called
  <2> QED
    BY <2>1, <2>2, <2>3, <2>4, SocketAssumption DEF Directions, Fields
<1>2. CASE Climb(o)
  <2>1. /\ polled[o] /\ pc[o] \in Called \ {"ready"} /\ pc'[o] \in Called /\ path' = path
        /\ UNCHANGED <<polled, woken, state, len, moved, await, size, permit, last, since>>
        /\ paid' = [paid EXCEPT ![o] =
                        [k \in P!Levels |-> paid[o][k] + due'[o][k] - due[o][k]]]
    BY <1>2, Advances DEF Climb, Advance, pollVars, opVars, L!Levels, P!Levels, Fields
  <2>2. await[o] = "permit" /\ state[o] = "Idle" /\ Unspent(o) = 0
    <3>1. await[o] = "permit" /\ state[o] = "Idle"
      BY <1>1, <2>1 DEF Stage, Called
    <3>2. ~(permit[o] > 0) /\ ~(len[o] > 0) /\ moved[o] <= len[o]
      BY <1>1, <3>1 DEF Stage
    <3> QED
      BY <1>1, <3>1, <3>2 DEF Unspent
  <2>3. \A k \in P!Levels : paid[o][k] + due'[o][k] - due[o][k] \in Int
    BY <1>1
  <2>4. paid' \in [Ops -> [P!Levels -> Int]]
    BY <2>1, <2>3 DEF Fields
  <2>5. Fields'
    BY <1>1, <2>1, <2>4 DEF Fields
  <2>6. Stage(o)'
    BY <1>1, <2>1, <2>2 DEF Stage, Called
  <2>7. Unspent(o)' = 0
    BY <2>1, <2>2 DEF Unspent
  <2>8. ASSUME NEW k \in P!Levels PROVE paid'[o][k] = due'[o][k] /\ Share(o, k)' = 0
    <3>1. paid[o][k] = due[o][k]
      BY <1>1, <2>2 DEF Credit, Share
    <3> QED
      BY <1>1, <2>1, <2>7, <3>1 DEF Fields, Share
  <2>9. Credit(o)'
    BY <1>1, <2>7, <2>8 DEF Credit
  <2> QED
    BY <2>5, <2>6, <2>9 DEF Own
<1>3. CASE Suspend(o) \/ Resume(o)
  <2>1. /\ pc[o] \in Called /\ await[o] = "permit"
        /\ pc[o] = "wait" \/ polled'[o]
        /\ Fields'
        /\ UNCHANGED <<path, pc, due, state, len, moved, await, size, permit, last, since, paid>>
    <3>1. CASE Suspend(o)
      BY <1>1, <3>1 DEF Suspend, Pending, Sleep, limiterVars, opVars, Stage, Fields, Called
    <3>2. CASE Resume(o)
      BY <1>1, <3>2 DEF Resume, Poll, limiterVars, opVars, Stage, Fields
    <3> QED
      BY <1>3, <3>1, <3>2
  <2>2. Stage(o)' /\ Unspent(o)' = Unspent(o)
    BY <1>1, <2>1 DEF Stage, Unspent
  <2> QED
    BY <1>1, <2>1, <2>2, CreditKept DEF Own
<1>4. CASE Permitted(o)
  <2>1. /\ pc[o] = "ready" /\ pc'[o] = "idle" /\ path' = path
        /\ due'[o] = [k \in P!Levels |->
                        IF k <= P!Depth(o) THEN due[o][k] - out[o] ELSE due[o][k]]
    BY <1>4, Takes DEF Permitted
  <2>2. /\ out[o] \in Nat /\ out[o] > 0
        /\ \A k \in P!Levels : k <= P!Depth(o) => \E w \in Weights : due[o][k] <= w
    BY <2>1, Session
  <2>3. /\ state[o] = "Idle" /\ ~(len[o] > 0) /\ moved[o] <= len[o] /\ ~(permit[o] > 0)
        /\ size[o] <= MaxSize
    <3>1. await[o] = "permit" /\ state[o] = "Idle"
      BY <1>1, <2>1 DEF Stage, Called
    <3> QED
      BY <1>1, <3>1 DEF Stage
  <2>4. /\ polled'[o] = FALSE /\ await'[o] = "inner" /\ permit'[o] = out[o]
        /\ state'[o] = "Idle" /\ len'[o] = len[o] /\ moved'[o] = moved[o] /\ size'[o] = size[o]
        /\ paid' = paid
    BY <1>1, <1>4, <2>3 DEF Permitted, Sleep, Fields
  <2>5. Fields'
    BY <1>1, <1>4, <2>2 DEF Permitted, Sleep, Fields
  <2>6. Stage(o)'
    BY <1>1, <2>1, <2>2, <2>3, <2>4 DEF Stage
  <2>7. Unspent(o)' = out[o] /\ Unspent(o) = 0
    BY <1>1, <2>2, <2>3, <2>4 DEF Unspent
  <2>8. ASSUME NEW k \in P!Levels
        PROVE  /\ paid[o][k] = due'[o][k] + (IF k <= P!Depth(o) THEN out[o] ELSE 0)
               /\ k <= P!Depth(o) => \E w \in Weights : paid[o][k] <= w
    <3>1. paid[o][k] = due[o][k]
      BY <1>1, <2>7 DEF Credit, Share
    <3> QED
      BY <1>1, <2>1, <2>2, <3>1
  <2>9. Credit(o)'
    BY <1>1, <2>1, <2>4, <2>7, <2>8 DEF Credit, Share, P!Depth
  <2> QED
    BY <2>5, <2>6, <2>9 DEF Own
<1>5. CASE CancelWait(o)
  <2>1. /\ pc[o] = "wait" /\ pc'[o] = "idle" /\ ~polled[o] /\ await[o] = "permit"
        /\ UNCHANGED <<path, due, polled, woken, state, len, moved, last, since, paid>>
        /\ await' = [await EXCEPT ![o] = "none"] /\ size' = [size EXCEPT ![o] = 0]
        /\ permit' = [permit EXCEPT ![o] = 0]
    BY <1>1, <1>5 DEF CancelWait, L!Cancel, Return, pollVars
  <2>2. state[o] = "Idle" /\ permit[o] = 0
    <3>1. state[o] = "Idle" /\ ~(permit[o] > 0)
      BY <1>1, <2>1 DEF Stage
    <3> QED
      BY <1>1, <3>1
  <2>3. await'[o] = "none" /\ size'[o] = 0 /\ permit'[o] = 0 /\ Fields'
    BY <1>1, <2>1 DEF Fields
  <2>4. Stage(o)' /\ Unspent(o)' = Unspent(o)
    BY <1>1, <2>1, <2>2, <2>3 DEF Stage, Unspent
  <2> QED
    BY <1>1, <2>1, <2>3, <2>4, CreditKept DEF Own
<1> QED
  BY <1>2, <1>3, <1>4, <1>5

(* The inner socket is done: what its datagram uses of the permit, and what
   a failure loses of it, leaves the account of the operation.              *)
LEMMA SpendInv ==
  ASSUME Sound, OInv, NEW o \in Ops, await[o] = "inner", Return(o),
         UNCHANGED <<limiterVars, pollVars>>,
         NEW n \in Nat, n <= Unspent(o), Charge(o, n),
         Unspent(o)' = Unspent(o) - n, moved'[o] <= len'[o], state'[o] = "Moving" <=> len'[o] > 0,
         {len', moved', last', since'} \subseteq [Ops -> Nat],
         state' \in [Ops -> {"Idle", "Moving"}]
  PROVE  Fields' /\ Own(o)'
<1> USE DEF OInv
<1>1. /\ Fields /\ Stage(o) /\ Credit(o) /\ P!Levels' = P!Levels /\ P!Levels \subseteq Nat
      /\ pc[o] \in {"closed", "idle"} /\ ~polled[o] /\ pc[o] # "closed"
      /\ UNCHANGED <<path, pc, due, polled, woken>>
      /\ paid[o] \in [P!Levels -> Int] /\ P!Depth(o) \in Nat /\ P!Depth(o)' = P!Depth(o)
      /\ due[o] \in [P!Levels -> Int] /\ Weights \subseteq Nat /\ MaxSize \in Nat
  BY Session, Assumed, SocketAssumption
     DEF Fields, Stage, P!Levels, limiterVars, pollVars, P!Depth, P!LimiterAssumption
<1>2. /\ await'[o] = "none" /\ size'[o] = 0 /\ permit'[o] = 0
      /\ await' \in [Ops -> {"none", "permit", "inner"}]
      /\ {size', permit'} \subseteq [Ops -> Nat]
  BY <1>1 DEF Return, Fields
<1>3. /\ paid' = [paid EXCEPT ![o] = [k \in P!Levels |->
                     IF k <= P!Depth(o) THEN paid[o][k] - n ELSE paid[o][k]]]
  BY <1>1 DEF Charge, Fields, P!Levels, L!Levels, P!Depth, L!Depth
<1>4. paid' \in [Ops -> [P!Levels -> Int]]
  <2>1. [k \in P!Levels |-> IF k <= P!Depth(o) THEN paid[o][k] - n ELSE paid[o][k]]
          \in [P!Levels -> Int]
    BY <1>1
  <2> QED
    BY <1>3, <2>1 DEF Fields
<1>5. Fields'
  BY <1>1, <1>2, <1>4 DEF Fields
<1>6. Stage(o)'
  BY <1>1, <1>2 DEF Stage
<1>7. Unspent(o) \in Nat
  <2>1. len[o] \in Nat /\ moved[o] \in Nat /\ permit[o] \in Nat /\ moved[o] <= len[o]
    BY <1>1 DEF Fields, Stage
  <2> QED
    BY <2>1 DEF Unspent
<1>8. Credit(o)'
  <2>1. ASSUME NEW k \in P!Levels
        PROVE  /\ paid'[o][k] = due[o][k] + (IF k <= P!Depth(o) THEN Unspent(o) - n ELSE 0)
               /\ Unspent(o) - n > 0 /\ k <= P!Depth(o) => \E w \in Weights : paid'[o][k] <= w
    <3>1. /\ paid'[o][k] = IF k <= P!Depth(o) THEN paid[o][k] - n ELSE paid[o][k]
          /\ paid[o][k] \in Int /\ due[o][k] \in Int
      BY <1>1, <1>3 DEF Fields
    <3>2. /\ paid[o][k] = due[o][k] + (IF k <= P!Depth(o) THEN Unspent(o) ELSE 0)
          /\ Unspent(o) > 0 /\ k <= P!Depth(o) => \E w \in Weights : paid[o][k] <= w
      BY <1>1 DEF Credit, Share
    <3>3. CASE k <= P!Depth(o)
      <4>1. paid'[o][k] = paid[o][k] - n /\ paid[o][k] = due[o][k] + Unspent(o)
        BY <3>1, <3>2, <3>3
      <4>2. paid'[o][k] = due[o][k] + (Unspent(o) - n)
        BY <1>7, <3>1, <4>1
      <4>3. ASSUME Unspent(o) - n > 0 PROVE \E w \in Weights : paid'[o][k] <= w
        <5>1. PICK w \in Weights : paid[o][k] <= w
          BY <1>7, <3>2, <3>3, <4>3
        <5> QED
          BY <1>1, <3>1, <4>1, <5>1
      <4> QED
        BY <3>3, <4>2, <4>3
    <3>4. CASE ~(k <= P!Depth(o))
      BY <3>1, <3>2, <3>4
    <3> QED
      BY <3>3, <3>4
  <2> QED
    BY <1>1, <2>1 DEF Credit, Share
<1> QED
  BY <1>5, <1>6, <1>8 DEF Own

(* Whichever arm it is in, an operation at the inner socket has as many bytes
   left as are on its account; the datagram takes what it can.              *)
LEMMA Settled ==
  ASSUME OInv, NEW o \in Ops, await[o] = "inner", NEW n \in Nat, Settle(o, n)
  PROVE  /\ Left(o) = Unspent(o) /\ Unspent(o) \in Nat
         /\ \E s \in {"Idle", "Moving"}, m, d \in Nat :
              /\ Set(o, s, m, d) /\ d <= m /\ (s = "Moving" <=> m > 0)
              /\ m - d = Unspent(o) - Least(n, Unspent(o))
<1>1. /\ len[o] \in Nat /\ moved[o] \in Nat /\ permit[o] \in Nat /\ moved[o] <= len[o]
      /\ state[o] \in {"Idle", "Moving"} /\ (state[o] = "Moving" <=> len[o] > 0)
      /\ state[o] = "Idle" <=> permit[o] > 0
  BY DEF OInv, Fields, Stage
<1>2. CASE state[o] = "Idle"
  <2>1. len[o] = 0 /\ moved[o] = 0 /\ permit[o] > 0
    BY <1>1, <1>2
  <2>2. Left(o) = permit[o] /\ Unspent(o) = permit[o]
    BY <1>1, <1>2, <2>1 DEF Left, Unspent
  <2>3. CASE n > permit[o]
    <3>1. Set(o, "Idle", 0, 0)
      BY <1>2, <2>3 DEF Settle, Open, Continue
    <3>2. 0 \in Nat /\ 0 - 0 = Unspent(o) - Least(n, Unspent(o)) /\ 0 <= 0 /\ ~(0 > 0)
      BY <1>1, <2>2, <2>3 DEF Least
    <3> QED
      BY <1>1, <2>2, <3>1, <3>2
  <2>4. CASE ~(n > permit[o])
    <3>1. Set(o, "Moving", permit[o], n)
      BY <1>2, <2>4 DEF Settle, Open, Continue
    <3>2. permit[o] - n = Unspent(o) - Least(n, Unspent(o)) /\ n <= permit[o]
      BY <1>1, <2>2, <2>4 DEF Least
    <3> QED
      BY <1>1, <2>1, <2>2, <3>1, <3>2
  <2> QED
    BY <2>3, <2>4
<1>3. CASE state[o] = "Moving"
  <2>1. permit[o] = 0 /\ len[o] > 0
    BY <1>1, <1>3
  <2>2. Left(o) = len[o] - moved[o] /\ Unspent(o) = len[o] - moved[o] /\ len[o] - moved[o] \in Nat
    BY <1>1, <1>3, <2>1 DEF Left, Unspent
  <2>3. CASE moved[o] + n >= len[o]
    <3>1. Set(o, "Idle", 0, 0)
      BY <1>3, <2>3 DEF Settle, Open, Continue
    <3>2. 0 \in Nat /\ 0 - 0 = Unspent(o) - Least(n, Unspent(o)) /\ 0 <= 0 /\ ~(0 > 0)
      BY <1>1, <2>2, <2>3 DEF Least
    <3> QED
      BY <1>1, <2>2, <3>1, <3>2
  <2>4. CASE ~(moved[o] + n >= len[o])
    <3>1. Set(o, "Moving", len[o], moved[o] + n)
      BY <1>3, <2>4 DEF Settle, Open, Continue
    <3>2. /\ len[o] - (moved[o] + n) = Unspent(o) - Least(n, Unspent(o))
          /\ moved[o] + n <= len[o] /\ moved[o] + n \in Nat
      BY <1>1, <2>2, <2>4 DEF Least
    <3> QED
      BY <1>1, <2>1, <2>2, <3>1, <3>2
  <2> QED
    BY <2>3, <2>4
<1> QED
  BY <1>1, <1>2, <1>3

LEMMA InnerInv ==
  ASSUME Sound, OInv, NEW o \in Ops, Abort(o) \/ \E n \in 0..MaxSize : Moved(o, n)
  PROVE  Fields' /\ Own(o)'
<1>1. /\ len[o] \in Nat /\ moved[o] \in Nat /\ permit[o] \in Nat /\ moved[o] <= len[o]
      /\ state[o] \in {"Idle", "Moving"} /\ (state[o] = "Moving" <=> len[o] > 0)
      /\ Fields /\ MaxSize \in Nat
  BY SocketAssumption DEF Directions, OInv, Fields, Stage
<1>2. CASE Abort(o)
  <2>1. /\ await[o] = "inner" /\ Return(o) /\ Charge(o, permit[o])
        /\ UNCHANGED <<limiterVars, pollVars>> /\ UNCHANGED <<state, len, moved, last, since>>
    BY <1>2 DEF Abort
  <2>2. permit'[o] = 0
    BY <1>1, <2>1 DEF Return, Fields
  <2>3. permit[o] <= Unspent(o) /\ Unspent(o)' = Unspent(o) - permit[o]
    BY <1>1, <2>1, <2>2 DEF Unspent
  <2>4. /\ moved'[o] <= len'[o] /\ (state'[o] = "Moving" <=> len'[o] > 0)
        /\ {len', moved', last', since'} \subseteq [Ops -> Nat]
        /\ state' \in [Ops -> {"Idle", "Moving"}]
    BY <1>1, <2>1 DEF Fields
  <2> QED
    BY <1>1, <2>1, <2>3, <2>4, SpendInv
<1>3. ASSUME NEW n \in 0..MaxSize, Moved(o, n) PROVE Fields' /\ Own(o)'
  <2>1. /\ n \in Nat /\ await[o] = "inner" /\ Return(o) /\ Settle(o, n)
        /\ Charge(o, Least(n, Left(o)))
        /\ UNCHANGED <<limiterVars, pollVars>> /\ since' = [since EXCEPT ![o] = @ + n]
        /\ last' = last
    BY <1>1, <1>3 DEF Moved
  <2>2. Left(o) = Unspent(o) /\ Unspent(o) \in Nat
    BY <2>1, Settled
  <2>3. PICK s \in {"Idle", "Moving"}, m \in Nat, d \in Nat :
          /\ Set(o, s, m, d) /\ d <= m /\ (s = "Moving" <=> m > 0)
          /\ m - d = Unspent(o) - Least(n, Unspent(o))
    BY <2>1, Settled
  <2>4. Least(n, Unspent(o)) \in Nat /\ Least(n, Unspent(o)) <= Unspent(o)
    BY <2>1, <2>2 DEF Least
  <2>5. /\ state'[o] = s /\ len'[o] = m /\ moved'[o] = d /\ permit'[o] = 0
        /\ {len', moved', last', since'} \subseteq [Ops -> Nat]
        /\ state' \in [Ops -> {"Idle", "Moving"}]
    BY <1>1, <2>1, <2>3 DEF Set, Return, Fields
  <2>6. Unspent(o)' = Unspent(o) - Least(n, Unspent(o))
    BY <2>3, <2>5 DEF Unspent
  <2> QED
    BY <2>1, <2>2, <2>3, <2>4, <2>5, <2>6, SpendInv
<1> QED
  BY <1>2, <1>3

(* An operation is not disturbed by what the other one does.                *)
Untouched(o) ==
  /\ path'[o] = path[o] /\ pc'[o] = pc[o] /\ due'[o] = due[o] /\ out'[o] = out[o]
  /\ polled'[o] = polled[o] /\ woken'[o] = woken[o]
  /\ state'[o] = state[o] /\ len'[o] = len[o] /\ moved'[o] = moved[o]
  /\ await'[o] = await[o] /\ size'[o] = size[o] /\ permit'[o] = permit[o]
  /\ last'[o] = last[o] /\ since'[o] = since[o] /\ paid'[o] = paid[o]

LEMMA OtherUntouched ==
  ASSUME Sound, OInv, NEW g \in Ops, OpStep(g), NEW o \in Ops, o # g
  PROVE  Untouched(o)
<1>1. /\ path'[o] = path[o] /\ pc'[o] = pc[o] /\ due'[o] = due[o] /\ out'[o] = out[o]
  <2>1. CASE UNCHANGED limiterVars
    BY <2>1 DEF limiterVars
  <2>2. CASE P!Step(g) \/ P!Admit(g) \/ P!Use(g)
    BY <2>2, Assumed, P!OthersUntouched DEF Sound, Ops
  <2> QED
    BY <2>1, <2>2, OpSession
<1>2. /\ polled'[o] = polled[o] /\ woken'[o] = woken[o]
      /\ state'[o] = state[o] /\ len'[o] = len[o] /\ moved'[o] = moved[o]
      /\ await'[o] = await[o] /\ size'[o] = size[o] /\ permit'[o] = permit[o]
      /\ last'[o] = last[o] /\ since'[o] = since[o] /\ paid'[o] = paid[o]
  <2> USE DEF OInv, Fields
  <2>1. CASE \E p \in L!Chains : New(g, p)
    BY <2>1 DEF New, pollVars, opVars
  <2>2. CASE \E n \in Offers(g) : Start(g, n)
    BY <2>2 DEF Start, Poll, pollVars
  <2>3. CASE Climb(g) \/ Suspend(g) \/ Resume(g)
    BY <2>3 DEF Climb, Suspend, Resume, Advance, Poll, Sleep, pollVars, opVars
  <2>4. CASE Permitted(g) \/ CancelWait(g) \/ Abort(g)
    BY <2>4 DEF Permitted, CancelWait, Abort, Sleep, Return, Charge, pollVars
  <2>5. CASE \E n \in 0..MaxSize : Moved(g, n)
    <3>1. PICK n : Moved(g, n)
      BY <2>5
    <3>2. state'[o] = state[o] /\ len'[o] = len[o] /\ moved'[o] = moved[o]
      BY <3>1 DEF Moved, Settle, Open, Continue, Set
    <3> QED
      BY <3>1, <3>2 DEF Moved, Return, Charge, pollVars
  <2> QED
    BY <2>1, <2>2, <2>3, <2>4, <2>5 DEF OpStep, Socket, Run
<1> QED
  BY <1>1, <1>2 DEF Untouched

LEMMA KeptInv ==
  ASSUME NEW o, Own(o), Untouched(o) PROVE Own(o)'
<1>1. Stage(o)'
  BY DEF Own, Untouched, Stage
<1>2. Unspent(o)' = Unspent(o)
  BY DEF Untouched, Unspent
<1> QED
  BY <1>1, <1>2, CreditKept DEF Own, Untouched

LEMMA OpStepInv ==
  ASSUME Sound, Sound', OInv, NEW o \in Ops, OpStep(o) PROVE OInv'
<1>1. Fields' /\ Own(o)'
  BY CallerInv, ReadyInv, InnerInv DEF OpStep, Socket, Run
<1>2. ASSUME NEW g \in Ops, g # o PROVE Own(g)'
  BY <1>2, OtherUntouched, KeptInv DEF OInv, Own
<1> QED
  BY <1>1, <1>2 DEF OInv, Own

(* Time and set_limit are seen by the tasks, by their wakeups only.         *)
LEMMA OutsideInv ==
  ASSUME Sound, OInv, (\E c \in Cells : Time(c)) \/ SetLimit \/ UNCHANGED vars PROVE OInv'
<1>1. /\ UNCHANGED <<path, pc, due, polled, state, len, moved, await, size, permit, last,
                     since, paid>>
      /\ woken' \in [Ops -> BOOLEAN]
  <2>1. ASSUME NEW c \in Cells, Time(c)
        PROVE  woken' = [s \in Sessions |-> woken[s] \/ (~polled[s] /\ Awaits(s, c))]
    BY <2>1 DEF Time, Refill
  <2>2. ASSUME NEW c \in Cells, Time(c) PROVE woken' \in [Ops -> BOOLEAN]
    BY <2>1, <2>2, Zenon DEF Ops
  <2>3. SetLimit \/ UNCHANGED vars => woken' = woken
    BY DEF SetLimit, Reconfigure, pollVars, vars
  <2> QED
    BY <2>2, <2>3
       DEF Time, Refill, L!Refill, SetLimit, Reconfigure, L!Reconfigure, L!SetUnlimited,
           L!SetLimit, L!sessionVars, pollVars, opVars, vars, limiterVars, OInv, Fields
<1>2. Fields'
  BY <1>1 DEF OInv, Fields, P!Levels
<1>3. ASSUME NEW o \in Ops PROVE Own(o)'
  <2>1. Stage(o)'
    BY <1>1 DEF OInv, Stage
  <2>2. Unspent(o)' = Unspent(o)
    BY <1>1 DEF Unspent
  <2> QED
    BY <1>1, <2>1, <2>2, CreditKept DEF Own, OInv
<1> QED
  BY <1>2, <1>3 DEF OInv, Own

(* A socket is in order in every reachable state.                           *)
THEOREM SocketInvariance == Spec => [](Sound /\ OInv)
<1>1. Sound /\ Sound' /\ OInv /\ [Next]_vars => OInv'
  BY Steps, OpStepInv, OutsideInv
<1> QED
  BY InitOps, SocketSessionsSound, <1>1, PTL DEF Spec
-----------------------------------------------------------------------------
LEMMA SameTypes == P!TypeOK => L!TypeOK
BY DEF P!TypeOK, L!TypeOK, L!Pairs, P!Pairs, L!Chains, P!Chains, L!IsChain, P!IsChain,
       L!Levels, P!Levels, L!NoQuote, P!NoQuote

LEMMA SocketTyped == Sound /\ OInv => TypeOK
<1> SUFFICES ASSUME Sound, OInv PROVE TypeOK
  OBVIOUS
<1>1. PollTypeOK
  BY SameTypes DEF PollTypeOK, Sound, P!IInv, OInv, Fields, Ops
<1>2. ASSUME NEW o \in Ops
      PROVE  /\ len[o] \in Nat /\ moved[o] \in 0..len[o]
             /\ state[o] = IF len[o] = 0 THEN "Idle" ELSE "Moving"
             /\ permit[o] > 0 => state[o] = "Idle" /\ await[o] = "inner"
             /\ await[o] = "none" => pc[o] \in {"closed", "idle"}
  <2>1. /\ len[o] \in Nat /\ moved[o] \in Nat /\ permit[o] \in Nat /\ moved[o] <= len[o]
        /\ state[o] \in {"Idle", "Moving"} /\ (state[o] = "Moving" <=> len[o] > 0)
        /\ await[o] = "inner" /\ state[o] = "Idle" <=> permit[o] > 0
        /\ await[o] # "permit" => pc[o] \in {"closed", "idle"}
    BY DEF OInv, Fields, Stage
  <2> QED
    BY <2>1
<1>3. paid \in [Ops -> [L!Levels -> Int]]
  BY DEF OInv, Fields, L!Levels, P!Levels
<1> QED
  BY <1>1, <1>2, <1>3 DEF TypeOK

(* No operation moves bytes that some limiter of its chain has not admitted,
   but for the end of a datagram that finds its permit too small, and never
   is more than one token's worth admitted and not charged: for chains of any
   length, through failures, calls given up and limits replaced.            *)
THEOREM PaidForByAll == Spec => []DatagramsPaid
<1>1. ASSUME Sound, OInv, NEW o \in Ops, NEW k \in 1..L!Depth(o)
      PROVE  paid[o][k] >= 0 /\ \E w \in Weights : paid[o][k] <= w
  <2>1. /\ k \in P!Levels /\ k <= P!Depth(o) /\ due[o][k] \in Int /\ out[o] \in Nat
        /\ due[o][k] >= out[o] /\ \E w \in Weights : due[o][k] <= w
    <3>1. P!Depth(o) \in P!Levels \cup {0} /\ P!Depth(o) = L!Depth(o)
      <4>1. P!Depth(o) \in P!Levels \cup {0}
        BY <1>1, Assumed, P!Standing DEF Sound, Ops
      <4> QED
        BY <4>1 DEF P!Depth, L!Depth
    <3>2. k \in P!Levels /\ k <= P!Depth(o)
      BY <1>1, <3>1, Assumed DEF P!Levels, P!LimiterAssumption
    <3> QED
      BY <1>1, <3>2, Session
  <2>2. /\ paid[o][k] = due[o][k] + Unspent(o)
        /\ Unspent(o) > 0 => \E w \in Weights : paid[o][k] <= w
    BY <1>1, <2>1 DEF OInv, Credit, Share
  <2>3. Unspent(o) \in Nat
    <3>1. len[o] \in Nat /\ moved[o] \in Nat /\ permit[o] \in Nat /\ moved[o] <= len[o]
      BY <1>1 DEF OInv, Fields, Stage
    <3> QED
      BY <3>1 DEF Unspent
  <2>4. paid[o][k] >= 0
    BY <2>1, <2>2, <2>3
  <2>5. CASE Unspent(o) > 0
    BY <2>2, <2>4, <2>5
  <2>6. CASE ~(Unspent(o) > 0)
    <3>1. paid[o][k] = due[o][k]
      BY <2>1, <2>2, <2>3, <2>6
    <3> QED
      BY <2>1, <2>4, <3>1
  <2> QED
    BY <2>5, <2>6
<1>2. Sound /\ OInv => DatagramsPaid
  BY <1>1, SocketTyped DEF DatagramsPaid
<1> QED
  BY SocketInvariance, <1>2, PTL

-----------------------------------------------------------------------------
(* What LimitDatagram promises of a permit holds of the real ones, too.     *)
Books(o) ==
  /\ state[o] = "Moving" => len[o] = last[o] /\ moved[o] = since[o]
  /\ await[o] = "inner" /\ state[o] = "Idle" => permit[o] = last[o] /\ since[o] = 0
  /\ since[o] <= last[o] + MaxSize

LEMMA BooksMoved ==
  ASSUME OInv, NEW o \in Ops, Books(o), NEW n \in 0..MaxSize, Moved(o, n)
  PROVE  Books(o)'
<1>1. /\ {len[o], moved[o], permit[o], last[o], since[o], n, MaxSize} \subseteq Nat
      /\ n <= MaxSize /\ moved[o] <= len[o] /\ state[o] \in {"Idle", "Moving"}
  BY SocketAssumption DEF OInv, Fields, Stage
<1>2. /\ await[o] = "inner" /\ await'[o] = "none" /\ Settle(o, n)
      /\ since'[o] = since[o] + n /\ last'[o] = last[o]
  BY DEF Moved, Return, OInv, Fields
<1>3. ASSUME NEW s, NEW l, NEW m, Set(o, s, l, m)
      PROVE  state'[o] = s /\ len'[o] = l /\ moved'[o] = m
  BY <1>3 DEF Set, OInv, Fields
<1>4. since[o] <= last[o]
  BY <1>1, <1>2 DEF Books
<1>5. since'[o] <= last'[o] + MaxSize
  BY <1>1, <1>2, <1>4
<1>6. state'[o] = "Moving" => len'[o] = last'[o] /\ moved'[o] = since'[o]
  <2>1. CASE state[o] = "Idle"
    <3>1. permit[o] = last[o] /\ since[o] = 0 /\ 0 + n = n
      BY <1>1, <1>2, <2>1 DEF Books
    <3> QED
      BY <1>2, <1>3, <2>1, <3>1 DEF Settle, Open
  <2>2. CASE state[o] = "Moving"
    <3>1. len[o] = last[o] /\ moved[o] = since[o]
      BY <2>2 DEF Books
    <3> QED
      BY <1>2, <1>3, <2>2, <3>1 DEF Settle, Continue
  <2> QED
    BY <1>1, <2>1, <2>2
<1> QED
  BY <1>2, <1>5, <1>6 DEF Books

LEMMA BooksStep ==
  ASSUME Sound, OInv, NEW o \in Ops, Books(o), OpStep(o)
  PROVE  Books(o)'
<1>2. CASE \E n \in Offers(o) : Start(o, n)
  <2>1. /\ await'[o] = "inner" => state[o] = "Moving"
        /\ UNCHANGED <<state, len, moved, permit, last, since>>
    BY <1>2 DEF Start, OInv, Fields
  <2> QED
    BY <2>1 DEF Books
<1>3. CASE (\E p \in L!Chains : New(o, p)) \/ Climb(o) \/ Suspend(o) \/ Resume(o)
  BY <1>3 DEF New, Climb, Suspend, Resume, opVars, Books
<1>4. CASE Permitted(o)
  <2>1. pc[o] = "ready"
    BY <1>4 DEF Permitted, Granted
  <2>2. state[o] = "Idle"
    BY <2>1 DEF OInv, Stage
  <2>3. permit'[o] = out[o] /\ last'[o] = out[o] /\ since'[o] = 0 /\ state'[o] = "Idle"
    BY <1>4, <2>2 DEF Permitted, OInv, Fields
  <2>4. 0 <= out[o] + MaxSize
    BY <2>1, Session, SocketAssumption
  <2> QED
    BY <2>3, <2>4 DEF Books
<1>5. CASE Abort(o) \/ CancelWait(o)
  <2>1. await'[o] = "none" /\ UNCHANGED <<state, len, moved, last, since>>
    BY <1>5 DEF Abort, CancelWait, Return, OInv, Fields
  <2> QED
    BY <2>1 DEF Books
<1>6. CASE \E n \in 0..MaxSize : Moved(o, n)
  BY <1>6, BooksMoved
<1> QED
  BY <1>2, <1>3, <1>4, <1>5, <1>6 DEF OpStep, Socket, Run

(* Whatever the limiters admit, to whomever, and whatever is cancelled: both
   operations of a socket charge a permit with every byte moved under it, and
   exceed it by at most one datagram.                                       *)
THEOREM SocketAccounts == Spec => [](Accounted /\ OverrunBounded)
<1> DEFINE Inv == \A o \in Ops : Books(o)
<1>1. Init => Inv
  <2>1. 0 <= 0 + MaxSize
    BY SocketAssumption
  <2> QED
    BY <2>1 DEF Init, Books
<1>2. Sound /\ OInv /\ Sound' /\ OInv' /\ Inv /\ [Next]_vars => Inv'
  <2> SUFFICES ASSUME Sound, OInv, OInv', Inv, [Next]_vars, NEW o \in Ops PROVE Books(o)'
    OBVIOUS
  <2>1. CASE OpStep(o)
    BY <2>1, BooksStep
  <2>2. ASSUME NEW g \in Ops, OpStep(g), g # o PROVE Books(o)'
    BY <2>2, OtherUntouched DEF Untouched, Books
  <2>3. CASE (\E c \in Cells : Time(c)) \/ SetLimit \/ UNCHANGED vars
    BY <2>3 DEF Time, SetLimit, vars, opVars, Books
  <2> QED
    BY <2>1, <2>2, <2>3, Steps
<1>3. Inv => Accounted /\ OverrunBounded
  BY SocketAssumption DEF Books, Accounted, OverrunBounded, Ops
<1> HIDE DEF Inv
<1> QED
  BY <1>1, <1>2, <1>3, SocketInvariance, PTL DEF Spec
-----------------------------------------------------------------------------
(* The refinement: what LimitDatagram sees of an operation.                 *)
Seen(o) == <<state[o], len[o], moved[o], await[o], size[o], permit[o], last[o], since[o]>>

(* Nothing that LimitDatagram sees changes: the operation stutters.         *)
LEMMA Unseen == ASSUME NEW o, Seen(o)' = Seen(o) PROVE UNCHANGED One(o)!vars
BY DEF Seen, Only, One!vars

LEMMA OnlyAt ==
  ASSUME NEW o \in {"send", "recv"}, NEW f, NEW g, NEW none
  PROVE  /\ Only(o, f, none)[o] = f
         /\ [Only(o, f, none) EXCEPT ![o] = g] = Only(o, g, none)
BY DEF Only, Directions

LEMMA OpsInit == Init => \A o \in Ops : One(o)!Init
<1> SUFFICES ASSUME Init, NEW o \in Ops PROVE One(o)!Init
  OBVIOUS
<1>1. /\ state[o] = "Idle" /\ len[o] = 0 /\ moved[o] = 0 /\ await[o] = "none" /\ size[o] = 0
      /\ permit[o] = 0 /\ last[o] = 0 /\ since[o] = 0
  BY DEF Init
<1> QED
  BY <1>1 DEF Only, One!Init, One!Directions, Directions

LEMMA StartRefines ==
  ASSUME OInv, NEW o \in Ops, NEW n \in Offers(o), Start(o, n)
  PROVE  One(o)!Next
<1>1. o \in {"send", "recv"} /\ n \in 0..MaxSize
  BY SocketAssumption DEF Directions, Ops, Offers
<1>2. /\ await[o] = "none" /\ size'[o] = n
      /\ await'[o] = IF state[o] = "Idle" THEN "permit" ELSE "inner"
      /\ UNCHANGED <<state, len, moved, permit, last, since>>
  BY DEF Start, OInv, Fields
<1>3. One(o)!Start(o, n)
  BY <1>1, <1>2, OnlyAt DEF One!Start, Only, One!Directions, Directions
<1> QED
  BY <1>1, <1>3 DEF One!Next, One!SendTo, One!RecvFrom

(* What until_ready returns is what some governor can have admitted at once. *)
LEMMA ReturnsGrant ==
  ASSUME Sound, NEW o \in Ops, pc[o] = "ready"
  PROVE  out[o] \in UNION {1..w : w \in Weights}
<1>1. /\ 1 \in P!Levels /\ 1 <= P!Depth(o) /\ out[o] \in Nat /\ out[o] > 0
      /\ due[o][1] \in Int
      /\ due[o][1] >= out[o] /\ \E w \in Weights : due[o][1] <= w
  BY Session
<1>2. PICK w \in Weights : due[o][1] <= w
  BY <1>1
<1>3. w \in Nat
  BY Assumed DEF P!LimiterAssumption
<1>4. out[o] \in 1..w
  BY <1>1, <1>2, <1>3
<1> QED
  BY <1>4

LEMMA PermittedRefines ==
  ASSUME Sound, OInv, NEW o \in Ops, Permitted(o)
  PROVE  One(o)!Next
<1>1. o \in {"send", "recv"} /\ pc[o] = "ready"
  BY SocketAssumption DEF Directions, Ops, Permitted, Granted
<1>2. PICK l \in UNION {1..w : w \in Weights} : l = out[o]
  BY <1>1, ReturnsGrant
<1>3. await[o] = "permit"
  BY <1>1 DEF OInv, Stage
<1>4. /\ permit'[o] = l /\ await'[o] = "inner" /\ last'[o] = l /\ since'[o] = 0
      /\ UNCHANGED <<state, len, moved, size>>
  BY <1>2 DEF Permitted, OInv, Fields
<1>5. One(o)!Permitted(l)
  <2>1. /\ Only(o, last'[o], 0) = [Only(o, last[o], 0) EXCEPT ![o] = l]
        /\ Only(o, since'[o], 0) = [Only(o, since[o], 0) EXCEPT ![o] = 0]
    BY <1>1, <1>4, OnlyAt
  <2> QED
    BY <1>3, <1>4, <2>1 DEF One!Permitted, Only
<1> QED
  BY <1>5 DEF One!Next

(* An operation given up, or one that fails.                                *)
LEMMA GivenUpRefines ==
  ASSUME OInv, NEW o \in Ops, Abort(o) \/ CancelWait(o)
  PROVE  One(o)!Next
<1>1. /\ await[o] \in {"permit", "inner"} /\ o # "none"
      /\ await'[o] = "none" /\ size'[o] = 0 /\ permit'[o] = 0
      /\ UNCHANGED <<state, len, moved, last, since>>
  BY SocketAssumption DEF Directions, Abort, CancelWait, Return, OInv, Fields, Ops
<1>2. One(o)!Cancel
  BY <1>1 DEF One!Cancel, One!Return, Only
<1> QED
  BY <1>2 DEF One!Next

LEMMA MovedRefines ==
  ASSUME OInv, NEW o \in Ops, NEW n \in 0..MaxSize, Moved(o, n)
  PROVE  One(o)!Next
<1>1. /\ o \in {"send", "recv"} /\ n \in Nat /\ await[o] = "inner"
      /\ IF o = "send" THEN n = size[o] ELSE n <= size[o]
      /\ await'[o] = "none" /\ size'[o] = 0 /\ permit'[o] = 0
      /\ since'[o] = since[o] + n /\ last' = last
      /\ state[o] \in {"Idle", "Moving"} /\ Settle(o, n)
  BY SocketAssumption DEF Directions, Moved, Return, OInv, Fields, Ops
<1>2. ASSUME NEW s, NEW l, NEW m, Set(o, s, l, m) PROVE One(o)!Set(o, s, l, m)
  <2>1. state'[o] = s /\ len'[o] = l /\ moved'[o] = m
    BY <1>2 DEF Set, OInv, Fields
  <2>2. /\ Only(o, state'[o], "Idle") = [Only(o, state[o], "Idle") EXCEPT ![o] = s]
        /\ Only(o, len'[o], 0) = [Only(o, len[o], 0) EXCEPT ![o] = l]
        /\ Only(o, moved'[o], 0) = [Only(o, moved[o], 0) EXCEPT ![o] = m]
    BY <1>1, <2>1, OnlyAt
  <2> QED
    BY <2>2 DEF One!Set, Only
<1>3. IF state[o] = "Idle" THEN One(o)!Open(o, permit[o], n) ELSE One(o)!Continue(o, n)
  <2>1. Only(o, len[o], 0)[o] = len[o] /\ Only(o, moved[o], 0)[o] = moved[o]
    BY <1>1, OnlyAt
  <2>2. CASE state[o] = "Idle"
    BY <1>1, <1>2, <2>2 DEF Settle, Open, One!Open
  <2>3. CASE state[o] # "Idle"
    BY <1>1, <1>2, <2>1, <2>3 DEF Settle, Continue, One!Continue
  <2> QED
    BY <2>2, <2>3
<1>4. One(o)!Return /\ One(o)!Moved(n)
  <2>1. Only(o, state[o], "Idle")[o] = state[o]
    BY <1>1, OnlyAt
  <2>2. Only(o, since'[o], 0) = [Only(o, since[o], 0) EXCEPT ![o] = since[o] + n]
    BY <1>1, OnlyAt
  <2>3. Only(o, since[o], 0)[o] = since[o]
    BY <1>1, OnlyAt
  <2>4. Only(o, since[o], 0)' = [Only(o, since[o], 0) EXCEPT ![o] = @ + n]
    BY <2>2, <2>3 DEF Only
  <2>5. One(o)!Return
    BY <1>1 DEF One!Return
  <2>6. UNCHANGED Only(o, last[o], 0)
    BY <1>1 DEF Only
  <2> QED
    BY <1>1, <1>3, <2>1, <2>4, <2>5, <2>6 DEF One!Moved
<1> QED
  BY <1>4 DEF One!Next

(* The session's own steps, those of the other operation, time and set_limit
   are not seen.                                                            *)
LEMMA OpsNext ==
  Sound /\ OInv /\ [Next]_vars => \A o \in Ops : [One(o)!Next]_(One(o)!vars)
<1> SUFFICES ASSUME Sound, OInv, [Next]_vars, NEW o \in Ops
             PROVE  [One(o)!Next]_(One(o)!vars)
  OBVIOUS
<1>1. ASSUME NEW p \in L!Chains, New(o, p) PROVE UNCHANGED One(o)!vars
  BY <1>1, Unseen DEF New, opVars, Seen
<1>2. CASE Climb(o) \/ Suspend(o) \/ Resume(o)
  BY <1>2, Unseen DEF Climb, Suspend, Resume, opVars, Seen
<1>3. CASE OpStep(o)
  BY <1>1, <1>2, <1>3, StartRefines, PermittedRefines, GivenUpRefines, MovedRefines
     DEF OpStep, Socket, Run
<1>4. ASSUME NEW g \in Ops, OpStep(g), g # o PROVE UNCHANGED One(o)!vars
  <2>1. Seen(o)' = Seen(o)
    BY <1>4, OtherUntouched DEF Untouched, Seen
  <2> QED
    BY <2>1, Unseen
<1>5. CASE (\E c \in Cells : Time(c)) \/ SetLimit \/ UNCHANGED vars
  <2>1. Seen(o)' = Seen(o)
    BY <1>5 DEF Time, SetLimit, vars, opVars, Seen
  <2> QED
    BY <2>1, Unseen
<1> QED
  BY <1>3, <1>4, <1>5, Steps

(* Each operation, with its session climbing step by step against the other
   one, implements the operation whose permits come from nowhere.           *)
THEOREM OpsImplement == Spec => ImplementsDatagram
BY SocketInvariance, OpsInit, OpsNext, PTL DEF Spec, ImplementsDatagram
=============================================================================
