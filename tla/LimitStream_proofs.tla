------------------------- MODULE LimitStream_proofs -------------------------
(***************************************************************************)
(* Proofs about LimitStream, for chains of limiters of any length, any     *)
(* weights and any buffer sizes.  What the theorems of SpeedLimiter say of *)
(* sessions is carried over to the sessions inside the halves.             *)
(***************************************************************************)
EXTENDS LimitStream, TLAPS

P == INSTANCE SpeedLimiter_proofs

(* The sessions in the halves are in order: their ledger balances, they are
   frugal, and whoever waits for a governor keeps it alive.                 *)
Sound == P!IInv /\ P!FrugalInv /\ P!PairInv

Fields ==
  /\ {polled, woken, calling} \subseteq [Halves -> BOOLEAN]
  /\ {len, done} \subseteq [Halves -> Nat]
  /\ state \in [Halves -> {"Idle", "Waiting", "Moving"}]
  /\ inner \in [Halves -> {"dry", "ready"}]
  /\ parked \in [Halves -> {"no", "permit", "inner"}]
  /\ backed \in [Halves -> [P!Levels -> Int]]

(* What a half is doing tells where its session stands: in a call exactly
   while the half is polled before it has its permit, or sleeps on it.      *)
Called == {"enter", "local", "wait", "ready"}

Stage(h) ==
  /\ done[h] <= len[h] /\ (state[h] = "Moving" <=> done[h] < len[h])
  /\ state[h] = "Moving" => pc[h] = "idle"
  /\ state[h] # "Moving" /\ polled[h] => pc[h] \in Called
  /\ state[h] = "Idle" /\ ~polled[h] => pc[h] \in {"closed", "idle"}
  /\ state[h] = "Waiting" /\ ~polled[h] => pc[h] = "wait"

(* What its task sleeps on is not there yet.                                *)
Watch(h) ==
  /\ parked[h] = "permit" => state[h] = "Waiting"
  /\ parked[h] = "inner" => state[h] = "Moving" /\ inner[h] = "dry" /\ ~polled[h]
  /\ polled[h] => calling[h]
  /\ SleepsForToken(h)

(* A permit is on the account of the half from where it left the session's. *)
Left(h, k) == IF k <= P!Depth(h) THEN len[h] - done[h] ELSE 0

Credit(h) ==
  \A k \in P!Levels :
    /\ backed[h][k] = due[h][k] + Left(h, k)
    /\ state[h] = "Moving" /\ k <= P!Depth(h) => \E w \in Weights : backed[h][k] <= w

HInv == Fields /\ \A h \in Halves : Stage(h) /\ Watch(h) /\ Credit(h)
-----------------------------------------------------------------------------
(* Both instances of SpeedLimiter are the same.                             *)
LEMMA Assumed == P!LimiterAssumption
BY PolledAssumption DEF L!LimiterAssumption, P!LimiterAssumption

LEMMA SameInit == L!Init => P!Init
BY DEF L!Init, P!Init, L!Pairs, P!Pairs, L!NoGov, P!NoGov, L!Zeros, P!Zeros,
       L!Levels, P!Levels, L!NoQuote, P!NoQuote

LEMMA SameGrant == ASSUME NEW s, NEW w PROVE L!Grant(s, w) <=> P!Grant(s, w)
BY DEF L!Grant, P!Grant, L!Returned, P!Returned, L!Depth, P!Depth, L!Least, P!Least,
       L!Levels, P!Levels

LEMMA SameStep == ASSUME NEW s PROVE L!Step(s) => P!Step(s)
<1>1. L!NeedsToken(s) <=> P!NeedsToken(s)
  BY DEF L!NeedsToken, P!NeedsToken, L!Depth, P!Depth
<1>2. L!Pair(s) = P!Pair(s)
  BY DEF L!Pair, P!Pair
<1>3. L!Climb(s) => P!Climb(s)
  BY DEF L!Climb, P!Climb, L!Depth, P!Depth, L!limiterVars, P!limiterVars
<1>4. L!UseUpper(s) => P!UseUpper(s)
  BY DEF L!UseUpper, P!UseUpper, L!Depth, P!Depth, L!limiterVars, P!limiterVars
<1>5. L!UseLocal(s) => P!UseLocal(s)
  BY SameGrant DEF L!UseLocal, P!UseLocal, L!limiterVars, P!limiterVars
<1>6. L!Unlimited(s) => P!Unlimited(s)
  BY <1>1, <1>2, SameGrant DEF L!Unlimited, P!Unlimited, L!limiterVars, P!limiterVars
<1>7. L!Wait(s) => P!Wait(s)
  BY <1>1, <1>2 DEF L!Wait, P!Wait, L!limiterVars, P!limiterVars
<1> QED
  BY <1>3, <1>4, <1>5, <1>6, <1>7 DEF L!Step, P!Step

LEMMA SameCollect ==
  ASSUME NEW b, NEW lim, NEW quo PROVE L!Collect(b, lim, quo) = P!Collect(b, lim, quo)
BY DEF L!Collect, P!Collect, L!Referenced, P!Referenced, L!NoGov, P!NoGov

LEMMA SameAdmit == ASSUME NEW s PROVE L!Admit(s) => P!Admit(s)
BY SameGrant, SameCollect DEF L!Admit, P!Admit, L!NoQuote, P!NoQuote

LEMMA SameUse ==
  ASSUME NEW s, \/ L!Call(s) \/ L!Take(s)
                \/ \E p \in L!Chains : L!NewSession(s, p)
  PROVE  P!Use(s)
<1>1. L!Call(s) => P!Call(s)
  BY DEF L!Call, P!Call, L!limiterVars, P!limiterVars
<1>2. L!Take(s) => P!Take(s)
  BY DEF L!Take, P!Take, L!limiterVars, P!limiterVars, L!Depth, P!Depth, L!Levels, P!Levels
<1>3. (\E p \in L!Chains : L!NewSession(s, p)) => \E p \in P!Chains : P!NewSession(s, p)
  BY DEF L!NewSession, P!NewSession, L!limiterVars, P!limiterVars, L!Chains, P!Chains,
         L!IsChain, P!IsChain, L!Levels, P!Levels
<1> QED
  BY <1>1, <1>2, <1>3 DEF P!Use

LEMMA SameReconfigure == L!Reconfigure => P!Reconfigure
<1>1. \A l, w : L!SetUnlimited(l, w) => P!SetUnlimited(l, w)
  BY SameCollect DEF L!SetUnlimited, P!SetUnlimited, L!sessionVars, P!sessionVars
<1>2. \A l, w, c, b : L!SetLimit(l, w, c, b) => P!SetLimit(l, w, c, b)
  BY SameCollect DEF L!SetLimit, P!SetLimit, L!sessionVars, P!sessionVars, L!NoGov, P!NoGov
<1> QED
  BY <1>1, <1>2 DEF L!Reconfigure, P!Reconfigure

LEMMA SameRefill == ASSUME NEW c PROVE L!Refill(c) => P!Refill(c)
BY DEF L!Refill, P!Refill, L!sessionVars, P!sessionVars
-----------------------------------------------------------------------------
(* What one half, or its caller and inner stream, can do.                   *)
HalfStep(h) ==
  \/ \E p \in L!Chains : New(h, p)
  \/ Begin(h) \/ GiveUp(h) \/ InnerReady(h) \/ Start(h) \/ Run(h)

LEMMA Steps ==
  Next => \/ \E h \in Halves : HalfStep(h)
          \/ \E c \in Cells : Time(c)
          \/ SetLimit
BY StreamAssumption DEF Next, PollRead, PollWrite, HalfStep, Halves

(* A step of a half is one of its session, or leaves the limiters alone.    *)
LEMMA HalfSession ==
  ASSUME NEW h, HalfStep(h)
  PROVE  P!Step(h) \/ P!Admit(h) \/ P!Use(h) \/ UNCHANGED limiterVars
<1>1. ASSUME NEW p \in L!Chains, New(h, p) PROVE P!Use(h)
  BY <1>1, SameUse DEF New
<1>2. CASE Begin(h) \/ GiveUp(h) \/ InnerReady(h)
  BY <1>2 DEF Begin, GiveUp, InnerReady
<1>3. CASE Start(h)
  BY <1>3, SameUse DEF Start
<1>4. CASE Climb(h)
  BY <1>4, SameStep, SameAdmit DEF Climb, Advance
<1>5. CASE Suspend(h)
  BY <1>5 DEF Suspend
<1>6. CASE Move(h)
  BY <1>6, SameUse DEF Move
<1> QED
  BY <1>1, <1>2, <1>3, <1>4, <1>5, <1>6 DEF HalfStep, Run

LEMMA Simulates == [Next]_vars => [P!Next]_(P!vars)
<1>1. (\E h \in Halves : HalfStep(h)) => [P!Next]_(P!vars)
  BY HalfSession DEF P!Next, P!vars, limiterVars, Halves
<1>2. (\E c \in Cells : Time(c)) => P!Next
  BY SameRefill DEF Time, Refill, P!Next
<1>3. SetLimit => P!Next
  BY SameReconfigure DEF SetLimit, Reconfigure, P!Next
<1>4. UNCHANGED vars => UNCHANGED P!vars
  BY DEF vars, limiterVars, P!vars
<1> QED
  BY <1>1, <1>2, <1>3, <1>4, Steps

(* Whatever the halves do, their sessions keep the invariants of sessions:
   what SpeedLimiter promises holds inside the streams.                     *)
THEOREM SessionsSound == Spec => []Sound
<1>1. Spec => P!Spec
  <2>1. Init => P!Init
    BY SameInit DEF Init, PollInit
  <2> QED
    BY <2>1, Simulates, PTL DEF Spec, P!Spec
<1>2. P!Spec => []P!IInv
  BY P!Invariance, Assumed
<1>3. P!Spec => []P!FrugalInv
  BY P!Frugality, Assumed
<1>4. P!Spec => []P!PairInv
  BY P!PairInvariance, Assumed
<1> QED
  BY <1>1, <1>2, <1>3, <1>4, PTL DEF Sound
-----------------------------------------------------------------------------
(* What is known of the session of a half.                                  *)
LEMMA Session ==
  ASSUME Sound, NEW h \in Halves
  PROVE  /\ 1 \in P!Levels /\ P!Levels \subseteq Nat \ {0} /\ P!Depth(h) \in Nat
         /\ due[h] \in [P!Levels -> Int] /\ locRem[h] \in [P!Levels -> Nat] /\ out[h] \in Nat
         /\ pc[h] \in {"closed", "idle"} \cup Called
         /\ pc[h] = "closed" => due[h] = [k \in P!Levels |-> 0] /\ locRem[h][1] = 0
         /\ pc[h] = "ready" => out[h] > 0
         /\ pc[h] # "ready" => out[h] = 0
         /\ due[h][1] = locRem[h][1] + out[h]
         /\ pc[h] # "closed" => 1 <= P!Depth(h)
         /\ \A k \in P!Levels : k <= P!Depth(h) =>
              due[h][k] >= out[h] /\ \E w \in Weights : due[h][k] <= w
<1>1. P!IInv /\ P!Frugal(h) /\ h \in Sessions
  BY DEF Sound, P!FrugalInv, Halves
<1>2. /\ 1 \in P!Levels /\ \A j \in P!Levels : j \in Nat /\ j >= 1
      /\ due[h] \in [P!Levels -> Int] /\ locRem[h] \in [P!Levels -> Nat] /\ out[h] \in Nat
      /\ pc[h] = "closed" => P!Depth(h) = 0
      /\ pc[h] # "closed" => P!Depth(h) \in P!Levels
  BY <1>1, Assumed, P!Standing
<1>3. P!Levels \subseteq Nat \ {0} /\ P!Depth(h) \in Nat /\ (pc[h] # "closed" => 1 <= P!Depth(h))
  BY <1>2
<1>4. /\ P!Placed(h) /\ P!Holds(h) /\ P!Balanced(h)
      /\ pc[h] \in {"closed", "idle"} \cup Called
  BY <1>1 DEF P!IInv, P!TypeOK, Called
<1>5. /\ pc[h] = "closed" => due[h] = [k \in P!Levels |-> 0] /\ locRem[h][1] = 0
      /\ pc[h] = "ready" => out[h] > 0
      /\ pc[h] # "ready" => out[h] = 0
  BY <1>2, <1>4 DEF P!Holds, P!Zeros
<1>6. due[h][1] = locRem[h][1] + out[h]
  <2>1. due[h][1] - locRem[h][1] = out[h] /\ due[h][1] \in Int /\ locRem[h][1] \in Nat
    BY <1>2, <1>4 DEF P!Balanced, P!Passed
  <2> QED
    BY <1>2, <2>1
<1>7. ASSUME NEW k \in P!Levels, k <= P!Depth(h)
      PROVE  due[h][k] >= out[h] /\ \E w \in Weights : due[h][k] <= w
  <2>1. k \in 1..P!Depth(h)
    BY <1>2, <1>3, <1>7
  <2>2. due[h][k] >= out[h]
    BY <1>1, <2>1, Assumed, P!Covered
  <2> QED
    BY <1>1, <1>7, <2>2 DEF P!Frugal
<1> QED
  BY <1>2, <1>3, <1>4, <1>5, <1>6, <1>7

(* until_ready goes on: inside the call, in the same chain.                 *)
LEMMA Advances ==
  ASSUME Sound, NEW h \in Halves, L!Step(h) \/ L!Admit(h)
  PROVE  /\ pc[h] \in Called \ {"ready"} /\ pc'[h] \in Called
         /\ path' = path
<1>1. h \in DOMAIN pc /\ pc \in [Sessions -> {"closed", "idle"} \cup Called]
  BY DEF Sound, P!IInv, P!TypeOK, Halves, Called
<1>2. ASSUME NEW w, L!Grant(h, w) PROVE pc'[h] \in Called /\ path' = path
  BY <1>1, <1>2 DEF L!Grant, Called
<1>3. CASE L!UseLocal(h) \/ L!Unlimited(h) \/ L!Admit(h)
  BY <1>2, <1>3 DEF L!UseLocal, L!Unlimited, L!Admit, L!NeedsToken, Called
<1>4. CASE L!Climb(h) \/ L!UseUpper(h) \/ L!Wait(h)
  BY <1>1, <1>4 DEF L!Climb, L!UseUpper, L!Wait, L!NeedsToken, Called
<1> QED
  BY <1>3, <1>4 DEF L!Step

(* The caller takes its permit out of the session's account.                *)
LEMMA Takes ==
  ASSUME Sound, NEW h \in Halves, L!Take(h)
  PROVE  /\ pc[h] = "ready" /\ pc'[h] = "idle" /\ path' = path
         /\ due'[h] = [k \in P!Levels |->
                         IF k <= P!Depth(h) THEN due[h][k] - out[h] ELSE due[h][k]]
<1>1. h \in DOMAIN pc /\ h \in DOMAIN due
  BY DEF Sound, P!IInv, P!TypeOK, Halves
<1> QED
  BY <1>1 DEF L!Take, L!Levels, P!Levels, L!Depth, P!Depth

(* No token appears but by Refill and set_limit.                            *)
LEMMA NoToken ==
  ASSUME Sound, NEW h \in Halves, HalfStep(h), NEW c \in Cells, bucket[c].tokens = 0
  PROVE  bucket'[c].tokens = 0
<1>0. bucket \in [Cells -> [tokens : Nat, burst : Nat]]
  BY DEF Sound, P!IInv, P!TypeOK
<1>1. CASE UNCHANGED bucket
  BY <1>1
<1>2. CASE L!Admit(h)
  <2>1. PICK d, quo : /\ bucket[d].tokens > 0
                      /\ bucket' = L!Collect([bucket EXCEPT ![d].tokens = @ - 1], limiter, quo)
    BY <1>2 DEF L!Admit
  <2>2. c # d
    BY <1>0, <2>1
  <2>3. [bucket EXCEPT ![d].tokens = @ - 1][c] = bucket[c]
    BY <1>0, <2>2
  <2> QED
    BY <2>1, <2>3 DEF L!Collect, L!NoGov
<1>3. CASE Climb(h)
  <2>1. CASE L!Step(h)
    BY <1>1, <2>1 DEF L!Step, L!Climb, L!UseUpper, L!UseLocal, L!Unlimited, L!Wait, L!limiterVars
  <2> QED
    BY <1>2, <1>3, <2>1 DEF Climb, Advance
<1>4. CASE Begin(h) \/ GiveUp(h) \/ InnerReady(h) \/ Suspend(h)
  BY <1>1, <1>4 DEF Begin, GiveUp, InnerReady, Suspend, limiterVars
<1>5. CASE (\E p \in L!Chains : New(h, p)) \/ Start(h)
  BY <1>1, <1>5 DEF New, Start, L!NewSession, L!Call, L!limiterVars, limiterVars
<1>6. CASE Move(h)
  BY <1>1, <1>6 DEF Move, L!Take, L!limiterVars, limiterVars
<1> QED
  BY <1>3, <1>4, <1>5, <1>6 DEF HalfStep, Run
-----------------------------------------------------------------------------
Own(h) == Stage(h) /\ Watch(h) /\ Credit(h)

LEMMA InitHalves == Init => HInv
<1> SUFFICES ASSUME Init PROVE HInv
  OBVIOUS
<1>1. /\ polled = [h \in Halves |-> FALSE] /\ woken = [h \in Halves |-> FALSE]
      /\ pc = [h \in Halves |-> "closed"] /\ due = [h \in Halves |-> [k \in P!Levels |-> 0]]
      /\ backed = [h \in Halves |-> [k \in P!Levels |-> 0]]
  BY DEF Init, PollInit, L!Init, Halves, L!Zeros, L!Levels, P!Levels
<1>2. Fields
  BY <1>1 DEF Init, Fields
<1>3. ASSUME NEW h \in Halves PROVE Own(h)
  <2>1. Stage(h)
    BY <1>1, <1>3 DEF Init, Stage
  <2>2. Watch(h)
    BY <1>1, <1>3 DEF Init, Watch, SleepsForToken
  <2>3. Credit(h)
    BY <1>1, <1>3 DEF Init, Credit, Left
  <2> QED
    BY <2>1, <2>2, <2>3 DEF Own
<1> QED
  BY <1>2, <1>3 DEF HInv, Own

(* The inner poll, for whichever permit: l bytes on the half's account, d of
   them moved.                                                              *)
LEMMA InnerInv ==
  ASSUME Sound, HInv, NEW h \in Halves, NEW l \in Nat, NEW d \in Nat, d < l,
         polled[h], polled' = [polled EXCEPT ![h] = FALSE], UNCHANGED woken,
         Inner(h, l, d), pc'[h] = "idle", path'[h] = path[h],
         due'[h] \in [P!Levels -> Int],
         \A k \in P!Levels :
           /\ backed[h][k] = due'[h][k] + IF k <= P!Depth(h) THEN l - d ELSE 0
           /\ k <= P!Depth(h) => \E w \in Weights : backed[h][k] <= w
  PROVE  Fields' /\ Own(h)'
<1> USE DEF HInv
<1>1. /\ P!Depth(h)' = P!Depth(h) /\ P!Depth(h) \in Nat /\ P!Levels \subseteq Nat
      /\ P!Levels' = P!Levels /\ Weights \subseteq Nat
  BY Session, Assumed DEF P!Depth, P!Levels, P!LimiterAssumption
<1>2. SleepsForToken(h)' /\ polled'[h] = FALSE /\ calling[h]
  BY DEF SleepsForToken, Fields, Own, Watch
<1>3. ASSUME NEW n \in Nat, n <= l - d, Settle(h, l, d + n) \/ (n = l - d /\ Idle(h)),
             Spend(h, n), Return(h), inner'[h] \in {"dry", "ready"},
             inner' \in [Halves -> {"dry", "ready"}]
      PROVE  Fields' /\ Own(h)'
  <2>1. PICK s \in {"Idle", "Moving"}, m \in Nat, e \in Nat :
          /\ Set(h, s, m, e) /\ e <= m /\ (s = "Moving" <=> e < m) /\ m - e = l - d - n
    <3>1. CASE d + n >= l
      <4>1. Idle(h) /\ n = l - d
        BY <1>3, <3>1 DEF Settle
      <4>2. /\ Set(h, "Idle", 0, 0)
            /\ 0 \in Nat /\ 0 <= 0 /\ ~(0 < 0) /\ 0 - 0 = l - d - n
        BY <4>1 DEF Idle
      <4> QED
        BY <4>2
    <3>2. CASE d + n < l
      <4>1. Settle(h, l, d + n)
        BY <1>3, <3>2
      <4>2. Set(h, "Moving", l, d + n)
        BY <1>3, <3>2, <4>1 DEF Settle
      <4> QED
        BY <1>3, <3>2, <4>2
    <3> QED
      BY <1>3, <3>1, <3>2
  <2>2. /\ backed' = [backed EXCEPT ![h] = [k \in P!Levels |->
                       IF k <= P!Depth(h) THEN backed[h][k] - n ELSE backed[h][k]]]
        /\ backed[h] \in [P!Levels -> Int]
    BY <1>3 DEF Spend, Fields, P!Levels, L!Levels, P!Depth, L!Depth
  <2>3. Fields'
    <3>1. {polled', woken', calling'} \subseteq [Halves -> BOOLEAN]
      BY <1>3 DEF Fields, Return
    <3>2. {len', done'} \subseteq [Halves -> Nat]
      BY <2>1 DEF Fields, Set
    <3>3. /\ state' \in [Halves -> {"Idle", "Waiting", "Moving"}]
          /\ parked' \in [Halves -> {"no", "permit", "inner"}]
      BY <1>3, <2>1 DEF Fields, Set, Return
    <3>4. [k \in P!Levels |-> IF k <= P!Depth(h) THEN backed[h][k] - n ELSE backed[h][k]]
            \in [P!Levels -> Int]
      BY <2>2, <1>3
    <3>5. backed' \in [Halves -> [P!Levels -> Int]]
      BY <2>2, <3>4 DEF Fields
    <3> QED
      BY <1>1, <1>3, <3>1, <3>2, <3>3, <3>5 DEF Fields
  <2>4. state'[h] = s /\ len'[h] = m /\ done'[h] = e
    BY <2>1 DEF Fields, Set
  <2>5. Stage(h)'
    BY <1>2, <2>1, <2>4 DEF Stage
  <2>6. Watch(h)'
    BY <1>2, <1>3 DEF Watch, Return, Fields
  <2>7. Credit(h)'
    <3>1. ASSUME NEW k \in P!Levels
          PROVE  /\ backed'[h][k] = due'[h][k] + IF k <= P!Depth(h) THEN m - e ELSE 0
                 /\ k <= P!Depth(h) => \E w \in Weights : backed'[h][k] <= w
      <4>1. /\ backed'[h][k] = IF k <= P!Depth(h) THEN backed[h][k] - n ELSE backed[h][k]
            /\ backed[h][k] \in Int /\ due'[h][k] \in Int
        BY <2>2 DEF Fields
      <4>2. CASE k <= P!Depth(h)
        <5>1. backed'[h][k] = backed[h][k] - n /\ backed[h][k] = due'[h][k] + (l - d)
          BY <4>1, <4>2
        <5>2. backed'[h][k] = due'[h][k] + (m - e)
          BY <1>3, <2>1, <4>1, <5>1
        <5>3. PICK w \in Weights : backed[h][k] <= w
          BY <4>2
        <5>4. backed'[h][k] <= w
          BY <1>1, <1>3, <4>1, <5>1, <5>3
        <5> QED
          BY <4>2, <5>2, <5>4
      <4>3. CASE ~(k <= P!Depth(h))
        BY <4>1, <4>3
      <4> QED
        BY <4>2, <4>3
    <3> QED
      BY <1>1, <2>4, <3>1 DEF Credit, Left
  <2> QED
    BY <2>3, <2>5, <2>6, <2>7 DEF Own
<1>4. CASE /\ inner[h] = "dry" /\ Set(h, "Moving", l, d)
           /\ parked' = [parked EXCEPT ![h] = "inner"]
           /\ UNCHANGED <<inner, calling, backed>>
  <2>1. Fields'
    BY <1>1, <1>4 DEF Fields, Set
  <2>2. state'[h] = "Moving" /\ len'[h] = l /\ done'[h] = d /\ parked'[h] = "inner"
    BY <1>4 DEF Fields, Set
  <2>3. Stage(h)' /\ Watch(h)'
    BY <1>2, <1>4, <2>2 DEF Stage, Watch
  <2>4. Credit(h)'
    BY <1>1, <1>4, <2>2 DEF Credit, Left
  <2> QED
    BY <2>1, <2>3, <2>4 DEF Own
<1>5. CASE /\ inner[h] = "ready" /\ Return(h)
           /\ \/ \E room \in Rooms : \E n \in 0..Capacity(room, l - d) :
                   Settle(h, l, d + n) /\ Spend(h, n)
              \/ Idle(h) /\ Spend(h, l - d)
           /\ \E r \in {"dry", "ready"} : inner' = [inner EXCEPT ![h] = r]
  <2>1. PICK n \in Nat : /\ n <= l - d /\ Spend(h, n)
                         /\ Settle(h, l, d + n) \/ (n = l - d /\ Idle(h))
    <3>1. l - d \in Nat
      OBVIOUS
    <3>2. ASSUME NEW room \in Rooms, NEW n \in 0..Capacity(room, l - d) PROVE n \in Nat /\ n <= l - d
      <4>1. room \in Nat
        BY StreamAssumption
      <4> QED
        BY <3>1, <4>1 DEF Capacity, Least
    <3> QED
      BY <1>5, <3>1, <3>2
  <2>2. inner' \in [Halves -> {"dry", "ready"}] /\ inner'[h] \in {"dry", "ready"}
    BY <1>5 DEF Fields
  <2> QED
    BY <1>3, <1>5, <2>1, <2>2
<1> QED
  BY <1>4, <1>5 DEF Inner

(* The caller, the inner stream and the start of a poll.                    *)
LEMMA CallerInv ==
  ASSUME Sound, Sound', HInv, NEW h \in Halves,
         \/ \E p \in L!Chains : New(h, p)
         \/ Begin(h) \/ GiveUp(h) \/ InnerReady(h) \/ Start(h)
  PROVE  Fields' /\ Own(h)'
<1> USE DEF HInv
<1>1. pc \in [Sessions -> {"closed", "idle"} \cup Called] /\ path \in [Sessions -> P!Chains \cup {<<>>}]
  BY DEF Sound, P!IInv, P!TypeOK, Called
<1>2. h \in Sessions /\ h \in Halves /\ Own(h) /\ P!Levels' = P!Levels
  BY DEF Halves, Own, P!Levels
<1>3. ASSUME NEW p \in L!Chains, New(h, p) PROVE Fields' /\ Own(h)'
  <2>1. /\ pc[h] = "closed" /\ pc'[h] = "idle"
        /\ UNCHANGED <<due, polled, woken, state, len, done, inner, calling, parked, backed>>
    BY <1>1, <1>2, <1>3 DEF New, L!NewSession, pollVars, halfVars
  <2>2. state[h] = "Idle" /\ ~polled[h] /\ len[h] = done[h] /\ len[h] \in Nat
    <3>1. state[h] = "Idle" /\ ~polled[h]
      BY <1>2, <2>1 DEF Own, Stage, Fields, Called
    <3>2. len[h] \in Nat /\ done[h] \in Nat /\ done[h] <= len[h] /\ ~(done[h] < len[h])
      BY <1>2, <3>1 DEF Own, Stage, Fields
    <3> QED
      BY <3>1, <3>2
  <2>3. Fields' /\ Stage(h)' /\ Watch(h)'
    BY <1>2, <2>1, <2>2 DEF Own, Fields, Stage, Watch, SleepsForToken
  <2>4. due[h] \in [P!Levels -> Int] /\ len[h] - done[h] = 0
    BY <2>2, Session
  <2>5. \A k \in P!Levels : Left(h, k)' = 0 /\ Left(h, k) = 0
    BY <2>1, <2>4 DEF Left
  <2>6. Credit(h)'
    BY <1>2, <2>1, <2>2, <2>5 DEF Own, Credit
  <2> QED
    BY <2>3, <2>6 DEF Own
<1>4. ASSUME UNCHANGED limiterVars PROVE Credit(h)' \/ ~UNCHANGED <<state, len, done, backed>>
  BY <1>2, <1>4 DEF Own, Credit, Left, P!Depth, limiterVars
<1>5. CASE Begin(h)
  <2>1. Fields' /\ Stage(h)' /\ Watch(h)'
    BY <1>2, <1>5 DEF Begin, Own, Fields, Stage, Watch, SleepsForToken, limiterVars, pollVars
  <2> QED
    BY <1>4, <1>5, <2>1 DEF Own, Begin
<1>6. CASE GiveUp(h)
  <2>1. Fields' /\ Stage(h)' /\ Watch(h)'
    BY <1>2, <1>6
       DEF GiveUp, Return, Own, Fields, Stage, Watch, SleepsForToken, limiterVars, pollVars
  <2> QED
    BY <1>4, <1>6, <2>1 DEF Own, GiveUp
<1>7. CASE InnerReady(h)
  <2>1. Fields' /\ Stage(h)' /\ Watch(h)'
    BY <1>2, <1>7
       DEF InnerReady, Own, Fields, Stage, Watch, SleepsForToken, limiterVars, pollVars
  <2> QED
    BY <1>4, <1>7, <2>1 DEF Own, InnerReady
<1>8. CASE Start(h)
  <2>1. /\ calling[h] /\ ~polled[h] /\ parked[h] # "inner"
        /\ polled' = [polled EXCEPT ![h] = TRUE] /\ woken' = [woken EXCEPT ![h] = FALSE]
        /\ UNCHANGED <<state, len, done, inner, calling, parked, backed>>
    BY <1>8 DEF Start, Poll, Awake, halfVars
  <2>2. polled'[h] = TRUE /\ Fields'
    BY <1>2, <2>1 DEF Fields
  <2>3. Watch(h)'
    BY <1>2, <2>1, <2>2 DEF Own, Watch, SleepsForToken
  <2>4. CASE state[h] = "Idle"
    <3>1. L!Call(h)
      BY <1>8, <2>4 DEF Start
    <3>2. pc'[h] = "enter" /\ UNCHANGED <<path, due>>
      BY <1>1, <1>2, <3>1 DEF L!Call
    <3>3. Stage(h)'
      BY <1>2, <2>1, <2>2, <2>4, <3>2 DEF Own, Stage, Called
    <3>4. Credit(h)'
      BY <1>2, <2>1, <3>2 DEF Own, Credit, Left, P!Depth
    <3> QED
      BY <2>2, <2>3, <3>3, <3>4 DEF Own
  <2>5. CASE state[h] # "Idle"
    <3>1. UNCHANGED limiterVars
      BY <1>8, <2>5 DEF Start
    <3>2. Stage(h)'
      BY <1>2, <2>1, <2>2, <2>5, <3>1 DEF Own, Stage, Called, limiterVars, Fields
    <3> QED
      BY <1>4, <2>1, <2>2, <2>3, <3>1, <3>2 DEF Own
  <2> QED
    BY <2>4, <2>5
<1> QED
  BY <1>3, <1>5, <1>6, <1>7, <1>8

(* What runs inside a poll.                                                 *)
LEMMA RunInv ==
  ASSUME Sound, Sound', HInv, NEW h \in Halves, Run(h) PROVE Fields' /\ Own(h)'
<1> USE DEF HInv
<1>1. /\ h \in Sessions /\ Own(h) /\ P!Levels' = P!Levels
      /\ due[h] \in [P!Levels -> Int] /\ due'[h] \in [P!Levels -> Int]
      /\ P!Levels \subseteq Nat /\ len[h] \in Nat /\ done[h] \in Nat
      /\ backed[h] \in [P!Levels -> Int] /\ P!Depth(h) \in Nat
  BY Session DEF Halves, Own, P!Levels, Fields, Sound, P!IInv, P!TypeOK
<1>2. CASE Climb(h)
  <2>1. /\ polled[h] /\ pc[h] \in Called \ {"ready"} /\ pc'[h] \in Called /\ path' = path
        /\ UNCHANGED <<polled, woken, state, len, done, inner, calling, parked>>
        /\ backed' = [backed EXCEPT ![h] =
                        [k \in P!Levels |-> backed[h][k] + due'[h][k] - due[h][k]]]
    BY <1>2, Advances DEF Climb, Advance, pollVars, L!Levels, P!Levels, Fields
  <2>2. \A k \in P!Levels : backed[h][k] + due'[h][k] - due[h][k] \in Int
    BY <1>1
  <2>3. backed' \in [Halves -> [P!Levels -> Int]]
    BY <2>1, <2>2 DEF Fields
  <2>4. Fields'
    BY <1>1, <2>1, <2>3 DEF Fields
  <2>5. state[h] # "Moving" /\ Stage(h)'
    BY <1>1, <2>1 DEF Own, Stage, Called
  <2>6. Watch(h)'
    BY <1>1, <2>1 DEF Own, Watch, SleepsForToken
  <2>7. Credit(h)'
    <3>1. ASSUME NEW k \in P!Levels PROVE backed'[h][k] = due'[h][k] + Left(h, k)
      <4>1. /\ backed'[h][k] = backed[h][k] + due'[h][k] - due[h][k]
            /\ backed[h][k] = due[h][k] + Left(h, k)
        BY <1>1, <2>1 DEF Fields, Own, Credit
      <4>2. Left(h, k) \in Int
        BY <1>1 DEF Left
      <4> QED
        BY <1>1, <4>1, <4>2
    <3>2. \A k \in P!Levels : Left(h, k)' = Left(h, k)
      BY <2>1 DEF Left, P!Depth
    <3> QED
      BY <1>1, <2>1, <2>5, <3>1, <3>2 DEF Credit
  <2> QED
    BY <2>4, <2>5, <2>6, <2>7 DEF Own
<1>3. CASE Suspend(h)
  <2>1. /\ polled[h] /\ pc[h] = "wait" /\ bucket[quote[h].cell].tokens = 0
        /\ polled' = [polled EXCEPT ![h] = FALSE]
        /\ state' = [state EXCEPT ![h] = "Waiting"]
        /\ parked' = [parked EXCEPT ![h] = "permit"]
        /\ UNCHANGED <<woken, bucket, path, pc, quote, due, len, done, inner, calling, backed>>
    BY <1>3 DEF Suspend, Pending, Sleep, limiterVars
  <2>2. polled'[h] = FALSE /\ state'[h] = "Waiting" /\ parked'[h] = "permit"
    BY <2>1 DEF Fields
  <2>3. Fields'
    BY <1>1, <2>1 DEF Fields
  <2>4. Stage(h)'
    BY <1>1, <2>1, <2>2 DEF Own, Stage
  <2>5. Watch(h)'
    BY <1>1, <2>1, <2>2 DEF Own, Watch, SleepsForToken
  <2>6. Credit(h)'
    BY <1>1, <2>1, <2>2 DEF Own, Credit, Left, P!Depth
  <2> QED
    BY <2>3, <2>4, <2>5, <2>6 DEF Own
<1>4. CASE Move(h)
  <2>1. polled[h] /\ polled' = [polled EXCEPT ![h] = FALSE] /\ UNCHANGED woken
    BY <1>4 DEF Move, Sleep
  <2>2. CASE Granted(h) /\ L!Take(h) /\ Inner(h, out[h], 0)
    <3>1. /\ pc[h] = "ready" /\ pc'[h] = "idle" /\ path' = path
          /\ due'[h] = [k \in P!Levels |->
                          IF k <= P!Depth(h) THEN due[h][k] - out[h] ELSE due[h][k]]
      BY <2>2, Takes
    <3>2. /\ out[h] \in Nat /\ 0 < out[h]
          /\ \A k \in P!Levels : k <= P!Depth(h) => \E w \in Weights : due[h][k] <= w
      BY <3>1, Session
    <3>3. len[h] - done[h] = 0
      BY <1>1, <3>1 DEF Own, Stage
    <3>4. ASSUME NEW k \in P!Levels
          PROVE  /\ backed[h][k] = due'[h][k] + IF k <= P!Depth(h) THEN out[h] - 0 ELSE 0
                 /\ k <= P!Depth(h) => \E w \in Weights : backed[h][k] <= w
      <4>1. backed[h][k] = due[h][k] /\ due[h][k] \in Int
        <5>1. backed[h][k] = due[h][k] + Left(h, k) /\ Left(h, k) = 0 /\ due[h][k] \in Int
          BY <1>1, <3>3 DEF Own, Credit, Left
        <5> QED
          BY <5>1
      <4> QED
        BY <3>1, <3>2, <4>1
    <3>5. /\ out[h] \in Nat /\ 0 \in Nat /\ 0 < out[h] /\ Inner(h, out[h], 0)
          /\ pc'[h] = "idle" /\ path'[h] = path[h] /\ due'[h] \in [P!Levels -> Int]
      BY <1>1, <2>2, <3>1, <3>2
    <3> QED
      BY <2>1, <3>4, <3>5, InnerInv
  <2>3. CASE state[h] = "Moving" /\ Inner(h, len[h], done[h]) /\ UNCHANGED limiterVars
    <3>1. pc'[h] = "idle" /\ path' = path /\ due' = due /\ done[h] < len[h]
      BY <1>1, <2>3 DEF Own, Stage, limiterVars
    <3>2. \A k \in P!Levels :
            /\ backed[h][k] = due'[h][k] + IF k <= P!Depth(h) THEN len[h] - done[h] ELSE 0
            /\ k <= P!Depth(h) => \E w \in Weights : backed[h][k] <= w
      BY <1>1, <2>3, <3>1 DEF Own, Credit, Left
    <3> QED
      BY <1>1, <2>1, <2>3, <3>1, <3>2, InnerInv
  <2> QED
    BY <1>4, <2>2, <2>3 DEF Move
<1> QED
  BY <1>2, <1>3, <1>4 DEF Run

(* A half is not disturbed by what the other one does.                      *)
Untouched(h) ==
  /\ path'[h] = path[h] /\ pc'[h] = pc[h] /\ due'[h] = due[h] /\ quote'[h] = quote[h]
  /\ out'[h] = out[h] /\ locRem'[h] = locRem[h]
  /\ polled'[h] = polled[h] /\ woken'[h] = woken[h]
  /\ state'[h] = state[h] /\ len'[h] = len[h] /\ done'[h] = done[h]
  /\ inner'[h] = inner[h] /\ calling'[h] = calling[h] /\ parked'[h] = parked[h]
  /\ backed'[h] = backed[h]

LEMMA OtherUntouched ==
  ASSUME Sound, HInv, NEW g \in Halves, HalfStep(g), NEW h \in Halves, h # g
  PROVE  Untouched(h)
<1>1. /\ path'[h] = path[h] /\ pc'[h] = pc[h] /\ due'[h] = due[h] /\ quote'[h] = quote[h]
      /\ out'[h] = out[h] /\ locRem'[h] = locRem[h]
  <2>1. CASE UNCHANGED limiterVars
    BY <2>1 DEF limiterVars
  <2>2. CASE P!Step(g) \/ P!Admit(g) \/ P!Use(g)
    BY <2>2, Assumed, P!OthersUntouched DEF Sound, Halves
  <2> QED
    BY <2>1, <2>2, HalfSession
<1>2. /\ polled'[h] = polled[h] /\ woken'[h] = woken[h]
      /\ state'[h] = state[h] /\ len'[h] = len[h] /\ done'[h] = done[h]
      /\ inner'[h] = inner[h] /\ calling'[h] = calling[h] /\ parked'[h] = parked[h]
      /\ backed'[h] = backed[h]
  <2> USE DEF HInv, Fields
  <2>1. CASE (\E p \in L!Chains : New(g, p)) \/ Begin(g) \/ GiveUp(g) \/ InnerReady(g)
    BY <2>1 DEF New, Begin, GiveUp, InnerReady, Return, pollVars, halfVars
  <2>2. CASE Start(g)
    BY <2>2 DEF Start, Poll, halfVars
  <2>3. CASE Climb(g)
    BY <2>3 DEF Climb, Advance, pollVars
  <2>4. CASE Suspend(g)
    BY <2>4 DEF Suspend, Sleep
  <2>5. CASE Move(g)
    <3>1. PICK l, d : Inner(g, l, d)
      BY <2>5 DEF Move
    <3>2. ASSUME NEW n, Settle(g, l, n) \/ Idle(g)
          PROVE  state'[h] = state[h] /\ len'[h] = len[h] /\ done'[h] = done[h]
      BY <3>2 DEF Settle, Idle, Set
    <3>3. polled'[h] = polled[h] /\ woken'[h] = woken[h]
      BY <2>5 DEF Move, Sleep
    <3>4. CASE /\ Set(g, "Moving", l, d) /\ parked' = [parked EXCEPT ![g] = "inner"]
               /\ UNCHANGED <<inner, calling, backed>>
      BY <3>3, <3>4 DEF Set
    <3>5. CASE /\ Return(g)
               /\ \/ \E room \in Rooms : \E n \in 0..Capacity(room, l - d) :
                       Settle(g, l, d + n) /\ Spend(g, n)
                  \/ Idle(g) /\ Spend(g, l - d)
               /\ \E r \in {"dry", "ready"} : inner' = [inner EXCEPT ![g] = r]
      <4>1. state'[h] = state[h] /\ len'[h] = len[h] /\ done'[h] = done[h]
        BY <3>2, <3>5
      <4>2. inner'[h] = inner[h] /\ calling'[h] = calling[h] /\ parked'[h] = parked[h]
        BY <3>5 DEF Return
      <4>3. PICK n : Spend(g, n)
        BY <3>5
      <4>4. backed'[h] = backed[h]
        BY <4>3 DEF Spend
      <4> QED
        BY <3>3, <4>1, <4>2, <4>4
    <3> QED
      BY <3>1, <3>4, <3>5 DEF Inner
  <2> QED
    BY <2>1, <2>2, <2>3, <2>4, <2>5 DEF HalfStep, Run
<1> QED
  BY <1>1, <1>2 DEF Untouched

(* Whoever sleeps on a governor waits in Cells, and keeps it alive.         *)
LEMMA Sleeper ==
  ASSUME Sound, NEW h \in Halves, pc[h] = "wait"
  PROVE  quote[h].cell \in Cells /\ bucket[quote[h].cell].burst > 0
BY DEF Sound, P!PairInv, P!WaitersLive, Halves

LEMMA KeptInv ==
  ASSUME NEW h, Own(h), Untouched(h), SleepsForToken(h)' PROVE Own(h)'
<1>1. Stage(h)'
  BY DEF Own, Untouched, Stage
<1>2. Watch(h)'
  BY DEF Own, Untouched, Watch
<1>3. Credit(h)'
  BY DEF Own, Untouched, Credit, Left, P!Depth, P!Levels
<1> QED
  BY <1>1, <1>2, <1>3 DEF Own

LEMMA OtherInv ==
  ASSUME Sound, HInv, NEW g \in Halves, HalfStep(g), NEW h \in Halves, h # g
  PROVE  Own(h)'
<1>1. Untouched(h) /\ Own(h)
  BY OtherUntouched DEF HInv, Own
<1>2. SleepsForToken(h)'
  <2> SUFFICES ASSUME pc[h] = "wait", ~polled[h], ~woken[h]
               PROVE  bucket'[quote[h].cell].tokens = 0
    BY <1>1 DEF Untouched, SleepsForToken
  <2>1. quote[h].cell \in Cells /\ bucket[quote[h].cell].tokens = 0
    BY <1>1, Sleeper DEF Own, Watch, SleepsForToken
  <2> QED
    BY <2>1, NoToken
<1> QED
  BY <1>1, <1>2, KeptInv

(* Time and set_limit: tokens appear only where sleepers are woken, or in a
   governor nobody waits for yet.                                           *)
LEMMA TimeInv == ASSUME Sound, HInv, NEW c \in Cells, Time(c) PROVE HInv'
<1>1. /\ UNCHANGED <<path, pc, due, quote, polled, state, len, done, inner, calling, parked, backed>>
      /\ bucket' = [bucket EXCEPT ![c].tokens = @ + 1]
      /\ woken' = [s \in Sessions |-> woken[s] \/ (~polled[s] /\ Awaits(s, c))]
  BY DEF Time, Refill, L!Refill, L!sessionVars, halfVars
<1>2. woken' \in [Halves -> BOOLEAN]
  BY <1>1, Zenon DEF Halves
<1>3. Fields'
  BY <1>1, <1>2 DEF HInv, Fields, P!Levels
<1>4. ASSUME NEW h \in Halves PROVE Own(h)'
  <2>1. Own(h) /\ bucket \in [Cells -> [tokens : Nat, burst : Nat]] /\ h \in Sessions
    BY DEF HInv, Own, Sound, P!IInv, P!TypeOK, Halves
  <2>2. SleepsForToken(h)'
    <3> SUFFICES ASSUME pc[h] = "wait", ~polled[h], ~woken'[h]
                 PROVE  bucket'[quote[h].cell].tokens = 0
      BY <1>1 DEF SleepsForToken
    <3>1. ~woken[h] /\ quote[h].cell # c
      BY <1>1, <2>1 DEF Awaits
    <3>2. quote[h].cell \in Cells /\ bucket[quote[h].cell].tokens = 0
      BY <2>1, <3>1, Sleeper DEF Own, Watch, SleepsForToken
    <3> QED
      BY <1>1, <2>1, <3>1, <3>2
  <2>3. Stage(h)'
    BY <1>1, <2>1 DEF Own, Stage
  <2>4. Watch(h)'
    BY <1>1, <2>1, <2>2 DEF Own, Watch
  <2>5. Credit(h)'
    BY <1>1, <2>1 DEF Own, Credit, Left, P!Depth, P!Levels
  <2> QED
    BY <2>3, <2>4, <2>5 DEF Own
<1> QED
  BY <1>3, <1>4 DEF HInv, Own

LEMMA SetLimitInv == ASSUME Sound, HInv, SetLimit PROVE HInv'
<1>1. /\ L!Reconfigure
      /\ UNCHANGED <<polled, woken, state, len, done, inner, calling, parked, backed>>
  BY DEF SetLimit, Reconfigure, pollVars, halfVars
<1>2. UNCHANGED <<path, pc, due, quote, out, locRem>>
  BY <1>1 DEF L!Reconfigure, L!SetUnlimited, L!SetLimit, L!sessionVars
<1>3. Fields'
  BY <1>1 DEF HInv, Fields, P!Levels
<1>4. bucket \in [Cells -> [tokens : Nat, burst : Nat]]
  BY DEF Sound, P!IInv, P!TypeOK
<1>5. ASSUME NEW d \in Cells, bucket[d].tokens = 0, bucket[d].burst > 0
      PROVE  bucket'[d].tokens = 0
  <2>1. ASSUME NEW l, NEW w, L!SetUnlimited(l, w) PROVE bucket'[d].tokens = 0
    BY <1>5, <2>1 DEF L!SetUnlimited, L!Collect, L!NoGov
  <2>2. ASSUME NEW l, NEW w, NEW c, NEW b, L!SetLimit(l, w, c, b) PROVE bucket'[d].tokens = 0
    <3>1. bucket[c] = L!NoGov
          /\ bucket' = L!Collect([bucket EXCEPT ![c] = [tokens |-> b, burst |-> b]],
                                 limiter', quote)
      BY <2>2 DEF L!SetLimit
    <3>2. d # c
      BY <1>5, <3>1 DEF L!NoGov
    <3>3. [bucket EXCEPT ![c] = [tokens |-> b, burst |-> b]][d] = bucket[d]
      BY <1>4, <3>2
    <3> QED
      BY <1>5, <3>1, <3>3 DEF L!Collect, L!NoGov
  <2> QED
    BY <1>1, <2>1, <2>2 DEF L!Reconfigure
<1>6. ASSUME NEW h \in Halves PROVE Own(h)'
  <2>1. Own(h) /\ Untouched(h)
    BY <1>1, <1>2 DEF HInv, Own, Untouched
  <2>2. SleepsForToken(h)'
    <3> SUFFICES ASSUME pc[h] = "wait", ~polled[h], ~woken[h]
                 PROVE  bucket'[quote[h].cell].tokens = 0
      BY <1>1, <1>2 DEF SleepsForToken
    <3>1. bucket[quote[h].cell].tokens = 0
      BY <2>1 DEF Own, Watch, SleepsForToken
    <3> QED
      BY <1>5, <3>1, Sleeper
  <2> QED
    BY <2>1, <2>2, KeptInv
<1> QED
  BY <1>3, <1>6 DEF HInv, Own

LEMMA HalfStepInv ==
  ASSUME Sound, Sound', HInv, NEW h \in Halves, HalfStep(h) PROVE HInv'
<1>1. Fields' /\ Own(h)'
  BY CallerInv, RunInv DEF HalfStep
<1>2. ASSUME NEW g \in Halves, g # h PROVE Own(g)'
  BY <1>2, OtherInv
<1> QED
  BY <1>1, <1>2 DEF HInv, Own

(* A stream is in order in every reachable state.                           *)
THEOREM StreamInvariance == Spec => [](Sound /\ HInv)
<1>1. ASSUME UNCHANGED vars, HInv PROVE HInv'
  <2>1. Fields'
    BY <1>1 DEF HInv, Fields, P!Levels, vars, limiterVars, pollVars, halfVars
  <2>2. ASSUME NEW h \in Halves PROVE Own(h)'
    <3>1. Own(h) /\ Untouched(h) /\ SleepsForToken(h)'
      BY <1>1 DEF HInv, Own, Watch, Untouched, SleepsForToken,
                  vars, limiterVars, pollVars, halfVars
    <3> QED
      BY <3>1, KeptInv
  <2> QED
    BY <2>1, <2>2 DEF HInv, Own
<1>2. Sound /\ Sound' /\ HInv /\ [Next]_vars => HInv'
  BY <1>1, Steps, HalfStepInv, TimeInv, SetLimitInv
<1> QED
  BY InitHalves, SessionsSound, <1>2, PTL DEF Spec
-----------------------------------------------------------------------------
LEMMA SameTypes == P!TypeOK => L!TypeOK
BY DEF P!TypeOK, L!TypeOK, L!Pairs, P!Pairs, L!Chains, P!Chains, L!IsChain, P!IsChain,
       L!Levels, P!Levels, L!NoQuote, P!NoQuote

LEMMA StreamTypes == Sound /\ HInv => TypeOK
<1> SUFFICES ASSUME Sound, HInv PROVE TypeOK
  OBVIOUS
<1>1. PollTypeOK
  BY SameTypes DEF PollTypeOK, Sound, P!IInv, HInv, Fields, Halves
<1>2. ASSUME NEW h \in Halves
      PROVE  len[h] \in Nat /\ done[h] \in 0..len[h] /\ (state[h] = "Moving" <=> done[h] < len[h])
  BY DEF HInv, Stage, Fields
<1> QED
  BY <1>1, <1>2 DEF TypeOK, HInv, Fields, L!Levels, P!Levels

(* No half moves a byte that some limiter of its chain has not admitted, and
   never more than one token's worth is admitted and not moved, for chains
   of any length, through calls given up and limits replaced.               *)
THEOREM MovesWhatIsAdmitted == Spec => []MovedAsAdmitted
<1>1. ASSUME Sound, HInv, NEW h \in Halves, NEW k \in 1..L!Depth(h)
      PROVE  backed[h][k] >= 0 /\ \E w \in Weights : backed[h][k] <= w
  <2>1. /\ k \in P!Levels /\ k <= P!Depth(h) /\ due[h][k] \in Int /\ out[h] \in Nat
        /\ due[h][k] >= out[h] /\ \E w \in Weights : due[h][k] <= w
    <3>1. P!Depth(h) \in P!Levels \cup {0} /\ P!Depth(h) = L!Depth(h)
      <4>1. P!Depth(h) \in P!Levels \cup {0}
        BY <1>1, Assumed, P!Standing DEF Sound, Halves
      <4> QED
        BY <4>1 DEF P!Depth, L!Depth
    <3>2. k \in P!Levels /\ k <= P!Depth(h)
      BY <1>1, <3>1, Assumed DEF P!Levels, P!LimiterAssumption
    <3> QED
      BY <1>1, <3>2, Session
  <2>2. /\ backed[h][k] = due[h][k] + (len[h] - done[h])
        /\ len[h] \in Nat /\ done[h] \in Nat /\ done[h] <= len[h]
        /\ state[h] = "Moving" <=> done[h] < len[h]
        /\ state[h] = "Moving" => \E w \in Weights : backed[h][k] <= w
    BY <1>1, <2>1 DEF HInv, Credit, Left, Stage, Fields
  <2>3. backed[h][k] >= 0
    BY <2>1, <2>2
  <2>4. CASE state[h] = "Moving"
    BY <2>2, <2>3, <2>4
  <2>5. CASE state[h] # "Moving"
    <3>1. backed[h][k] = due[h][k]
      BY <2>1, <2>2, <2>5
    <3> QED
      BY <2>1, <2>3, <3>1
  <2> QED
    BY <2>4, <2>5
<1>2. Sound /\ HInv => MovedAsAdmitted
  BY <1>1, StreamTypes DEF MovedAsAdmitted
<1> QED
  BY StreamInvariance, <1>2, PTL

(* The Idle arm finds no future of an earlier call alive.                   *)
THEOREM BorrowsOnce == Spec => []OneBorrow
<1>1. HInv => OneBorrow
  BY DEF HInv, Stage, OneBorrow
<1> QED
  BY StreamInvariance, <1>1, PTL

(* No task sleeps on what is already there, whatever the other half takes
   and set_limit replaces meanwhile.                                        *)
THEOREM SleepsWell == Spec => []SleepsWatched
<1>1. HInv => SleepsWatched
  BY DEF HInv, Watch, Stage, SleepsWatched
<1> QED
  BY StreamInvariance, <1>1, PTL
-----------------------------------------------------------------------------
(* The refinement: what LimitHalf sees of a half.                           *)
Permit(h)   == IF state[h] = "Waiting" THEN out[h] ELSE 0
Parked(h)   == IF pc[h] = "ready" THEN "no" ELSE parked[h]
Credited(h) == backed[h][1] - locRem[h][1] - out[h]

Seen(h) == <<state[h], len[h], done[h], Permit(h), inner[h], calling[h], Parked(h), Credited(h)>>

(* What the limiter has admitted and the session does not hold is what is
   left of the permit.                                                      *)
LEMMA CreditIsLeft ==
  ASSUME Sound, HInv, NEW h \in Halves PROVE Credited(h) = len[h] - done[h]
<1>1. /\ 1 \in P!Levels /\ locRem[h][1] \in Nat /\ out[h] \in Nat /\ due[h][1] \in Int
      /\ due[h][1] = locRem[h][1] + out[h]
      /\ len[h] \in Nat /\ done[h] \in Nat /\ done[h] <= len[h]
      /\ state[h] = "Moving" <=> done[h] < len[h]
  BY Session DEF HInv, Fields, Stage
<1>2. Left(h, 1) = len[h] - done[h]
  <2>1. CASE pc[h] = "closed"
    <3>1. state[h] # "Moving"
      BY <2>1 DEF HInv, Stage
    <3>2. len[h] - done[h] = 0
      BY <1>1, <3>1
    <3> QED
      BY <3>2 DEF Left
  <2>2. CASE pc[h] # "closed"
    BY <2>2, Session DEF Left
  <2> QED
    BY <2>1, <2>2
<1>3. backed[h][1] = due[h][1] + Left(h, 1)
  BY <1>1 DEF HInv, Credit
<1> QED
  BY <1>1, <1>2, <1>3 DEF Credited

LEMMA CreditsAreLeft == Sound /\ HInv => \A g \in Halves : Credited(g) = len[g] - done[g]
BY CreditIsLeft

LEMMA CreditNext ==
  (Sound /\ HInv)' => (\A g \in Halves : Credited(g) = len[g] - done[g])'
BY CreditsAreLeft, PTL

LEMMA HalvesInit == Init => \A h \in Halves : Half(h)!Init
<1> SUFFICES ASSUME Init, NEW h \in Halves PROVE Half(h)!Init
  OBVIOUS
<1>1. /\ locRem[h][1] = 0 /\ out[h] = 0 /\ backed[h][1] = 0 /\ pc[h] = "closed"
  <2>1. 1 \in P!Levels
    BY Assumed DEF P!Levels, P!LimiterAssumption
  <2> QED
    BY <2>1 DEF Init, PollInit, L!Init, Halves, L!Zeros, L!Levels, P!Levels
<1>2. backed[h][1] - locRem[h][1] - out[h] = 0
  BY <1>1
<1> QED
  BY <1>1, <1>2 DEF Init, Half!Init

(* Nothing that LimitHalf sees changes: the half stutters.                  *)
LEMMA Unseen == ASSUME NEW h, Seen(h)' = Seen(h) PROVE UNCHANGED Half(h)!vars
BY DEF Seen, Permit, Parked, Credited, Half!vars

Permits == UNION {1..w : w \in Weights}

(* A session returns what some governor can have admitted at once.          *)
LEMMA ReturnsPermit ==
  ASSUME Sound, NEW h \in Halves, pc[h] = "ready"
  PROVE  out[h] \in Permits /\ out[h] \in Nat /\ out[h] > 0
<1>1. /\ 1 \in P!Levels /\ 1 <= P!Depth(h) /\ out[h] \in Nat /\ out[h] > 0
      /\ due[h][1] \in Int
      /\ due[h][1] >= out[h] /\ \E w \in Weights : due[h][1] <= w
  BY Session
<1>2. PICK w \in Weights : due[h][1] <= w
  BY <1>1
<1>3. w \in Nat
  BY Assumed DEF P!LimiterAssumption
<1>4. out[h] \in 1..w
  BY <1>1, <1>2, <1>3
<1> QED
  BY <1>1, <1>4 DEF Permits

LEMMA ReturnsPermits == Sound => \A g \in Halves : pc[g] = "ready" => out[g] \in Permits
BY ReturnsPermit

LEMMA ReturnNext == Sound' => (\A g \in Halves : pc[g] = "ready" => out[g] \in Permits)'
BY ReturnsPermits, PTL

LEMMA CallerRefines ==
  ASSUME Sound, Sound', HInv, HInv', NEW h \in Halves,
         \/ \E p \in L!Chains : New(h, p)
         \/ Begin(h) \/ GiveUp(h) \/ InnerReady(h) \/ Start(h)
  PROVE  [Half(h)!Next]_(Half(h)!vars)
<1>1. /\ pc \in [Sessions -> {"closed", "idle"} \cup Called] /\ h \in Sessions
      /\ Fields /\ Stage(h) /\ Watch(h)
  BY DEF Sound, P!IInv, P!TypeOK, Called, HInv, Halves
<1>2. CASE \E p \in L!Chains : New(h, p)
  <2>1. /\ pc[h] = "closed" /\ pc'[h] = "idle"
        /\ UNCHANGED <<out, locRem, state, len, done, inner, calling, parked, backed>>
    BY <1>1, <1>2 DEF New, L!NewSession, halfVars
  <2>2. Seen(h)' = Seen(h)
    BY <2>1 DEF Seen, Permit, Parked, Credited
  <2> QED
    BY <2>2, Unseen
<1>3. CASE Begin(h)
  <2>1. Half(h)!Begin
    BY <1>1, <1>3 DEF Begin, Fields, limiterVars, Half!Begin
  <2> QED
    BY <2>1 DEF Half!Next
<1>4. CASE GiveUp(h)
  <2>1. pc[h] # "ready" \/ polled[h]
    BY <1>1 DEF Stage, Fields
  <2>2. Half(h)!GiveUp
    BY <1>1, <1>4, <2>1 DEF GiveUp, Return, Fields, limiterVars, Half!GiveUp, Half!Return
  <2> QED
    BY <2>2 DEF Half!Next
<1>5. CASE InnerReady(h)
  <2>1. Half(h)!InnerReady
    BY <1>1, <1>5 DEF InnerReady, Fields, limiterVars, Half!InnerReady
  <2> QED
    BY <2>1 DEF Half!Next
<1>6. CASE Start(h)
  <2>1. UNCHANGED <<state, len, done, inner, calling, parked, backed>>
    BY <1>6 DEF Start, halfVars
  <2>2. CASE state[h] = "Idle"
    <3>1. pc[h] = "idle" /\ pc'[h] = "enter" /\ UNCHANGED <<out, locRem>>
      BY <1>1, <1>6, <2>2 DEF Start, L!Call
    <3>2. Seen(h)' = Seen(h)
      BY <2>1, <3>1 DEF Seen, Permit, Parked, Credited
    <3> QED
      BY <3>2, Unseen
  <2>3. CASE state[h] # "Idle"
    <3>1. UNCHANGED limiterVars
      BY <1>6, <2>3 DEF Start
    <3>2. Seen(h)' = Seen(h)
      BY <2>1, <3>1 DEF Seen, Permit, Parked, Credited, limiterVars
    <3> QED
      BY <3>2, Unseen
  <2> QED
    BY <2>2, <2>3
<1> QED
  BY <1>2, <1>3, <1>4, <1>5, <1>6

(* The session climbs: LimitHalf sees nothing until it returns.             *)
LEMMA ClimbRefines ==
  ASSUME Sound, Sound', HInv, HInv', NEW h \in Halves, Climb(h)
  PROVE  [Half(h)!Next]_(Half(h)!vars)
<1>1. /\ polled[h] /\ pc[h] \in Called \ {"ready"} /\ pc'[h] \in Called
      /\ UNCHANGED <<state, len, done, inner, calling, parked>>
  BY Advances DEF Climb, Advance
<1>2. /\ out[h] = 0 /\ (pc'[h] # "ready" => out'[h] = 0)
      /\ Stage(h) /\ Watch(h)
  <2>1. ~(pc[h] = "ready") /\ out[h] = 0
    BY <1>1, Session
  <2>2. P!IInv' /\ h \in Sessions
    BY DEF Sound, Halves
  <2>3. pc'[h] # "ready" => out'[h] = 0
    BY <2>2 DEF P!IInv, P!Holds
  <2> QED
    BY <2>1, <2>3 DEF HInv
<1>3. Credited(h)' = Credited(h)
  <2>1. Credited(h) = len[h] - done[h]
    BY CreditIsLeft
  <2>2. Credited(h)' = len'[h] - done'[h]
    BY CreditNext DEF Halves
  <2> QED
    BY <1>1, <2>1, <2>2
<1>4. state[h] # "Moving" /\ parked[h] # "inner" /\ (state[h] = "Idle" => parked[h] = "no")
  BY <1>1, <1>2 DEF Stage, Watch, Called, HInv, Fields
<1>5. CASE pc'[h] # "ready" \/ state[h] # "Waiting"
  <2>1. Permit(h)' = Permit(h)
    BY <1>1, <1>2, <1>5 DEF Permit
  <2>2. Parked(h)' = Parked(h)
    BY <1>1, <1>4, <1>5 DEF Parked, HInv, Fields
  <2>3. Seen(h)' = Seen(h)
    BY <1>1, <1>3, <2>1, <2>2 DEF Seen
  <2> QED
    BY <2>3, Unseen
<1>6. CASE pc'[h] = "ready" /\ state[h] = "Waiting"
  <2>1. out'[h] \in Permits
    BY <1>6, ReturnNext DEF Halves, Permits
  <2>2. /\ Permit(h) = 0 /\ Permit(h)' = out'[h]
        /\ Parked(h) = parked[h] /\ Parked(h)' = "no"
        /\ Parked(h)' = IF Parked(h) = "permit" THEN "no" ELSE Parked(h)
    BY <1>1, <1>2, <1>4, <1>6 DEF Permit, Parked, HInv, Fields
  <2>3. Half(h)!Admit
    BY <1>1, <1>3, <1>6, <2>1, <2>2
       DEF Half!Admit, Permit, Parked, Credited, Permits
  <2> QED
    BY <2>3 DEF Half!Next
<1> QED
  BY <1>5, <1>6

(* It sleeps: the Idle arm becomes Waiting, the Waiting arm stays.          *)
LEMMA SuspendRefines ==
  ASSUME Sound, HInv, HInv', NEW h \in Halves, Suspend(h)
  PROVE  [Half(h)!Next]_(Half(h)!vars)
<1>1. PICK room \in Rooms : TRUE
  BY StreamAssumption
<1>2. /\ pc[h] = "wait" /\ out[h] = 0 /\ polled[h] /\ calling[h]
      /\ state' = [state EXCEPT ![h] = "Waiting"] /\ parked' = [parked EXCEPT ![h] = "permit"]
      /\ UNCHANGED <<pc, out, locRem, len, done, inner, calling, backed>>
  <2>1. pc[h] = "wait" /\ polled[h]
    BY DEF Suspend, Pending
  <2>2. out[h] = 0
    BY <2>1, Session
  <2> QED
    BY <2>1, <2>2 DEF Suspend, limiterVars, HInv, Watch
<1>3. state'[h] = "Waiting" /\ parked'[h] = "permit" /\ state[h] \in {"Idle", "Waiting"}
  BY <1>2 DEF HInv, Fields, Stage
<1>4. CASE state[h] = "Idle"
  <2>1. Half(h)!PollIdle(room)
    BY <1>2, <1>3, <1>4 DEF Half!PollIdle
  <2> QED
    BY <1>2, <2>1 DEF Half!Next, Half!Poll
<1>5. CASE state[h] = "Waiting"
  <2>1. Half(h)!PollWaiting(room)
    BY <1>2, <1>3, <1>5 DEF Half!PollWaiting
  <2> QED
    BY <1>2, <2>1 DEF Half!Next, Half!Poll
<1> QED
  BY <1>3, <1>4, <1>5

(* The inner poll with l bytes permitted and d of them moved.               *)
LEMMA InnerTransfers ==
  ASSUME Sound, HInv, HInv', NEW h \in Halves, NEW l \in Nat, NEW d \in Nat, d < l,
         Inner(h, l, d), pc'[h] = "idle", Credited(h)' = len'[h] - done'[h],
         NEW fresh \in Nat, Credited(h) + fresh = l - d, NEW torn
  PROVE  \E room \in Rooms : Half(h)!Transfer(room, l, d, fresh, torn)
<1> DEFINE Offered(room) == Least(l - d, room)
<1>1. ASSUME NEW room \in Rooms
      PROVE  /\ Half(h)!Capacity(room, l - d) = Offered(room) /\ Capacity(room, l - d) = Offered(room)
             /\ ~(room > 0 /\ Offered(room) = 0)
             /\ Offered(room) \in Nat /\ Offered(room) <= l - d
  <2>1. room \in Nat
    BY StreamAssumption
  <2>2. ~(room > 0 /\ Offered(room) = 0) /\ Offered(room) \in Nat /\ Offered(room) <= l - d
    BY <2>1 DEF Least
  <2> QED
    BY <2>2 DEF Half!Capacity, Capacity, Half!Least, Least
<1> HIDE DEF Offered
<1>2. Fields /\ Fields' /\ Credited(h) \in Int
  <2>1. len[h] \in Nat /\ done[h] \in Nat /\ Credited(h) = len[h] - done[h]
    BY CreditIsLeft DEF HInv, Fields
  <2> QED
    BY <2>1 DEF HInv
<1>3. Permit(h)' = 0 /\ Parked(h)' = parked'[h]
  <2>1. state'[h] # "Waiting"
    <3>1. ASSUME NEW n, Settle(h, l, n) \/ Idle(h) \/ Set(h, "Moving", l, d)
          PROVE  state'[h] # "Waiting"
      BY <1>2, <3>1 DEF Settle, Idle, Set, Fields
    <3> QED
      BY <3>1 DEF Inner
  <2> QED
    BY <2>1 DEF Permit, Parked
<1>4. ASSUME NEW room \in Rooms, inner[h] = "ready", Return(h),
             \/ \E n \in 0..Offered(room) : Settle(h, l, d + n)
             \/ Idle(h),
             inner'[h] \in {"dry", "ready"}
      PROVE  Half(h)!Transfer(room, l, d, fresh, torn)
  <2>1. calling'[h] = FALSE /\ Parked(h)' = "no"
    BY <1>2, <1>3, <1>4 DEF Return, Fields
  <2>2. \/ \E n \in 0..Offered(room) :
             Half(h)!Settle(l, d + n) /\ Credited(h)' = Credited(h) + fresh - n
        \/ Half(h)!Idle /\ Credited(h)' = Credited(h) + fresh - (l - d)
    <3>1. CASE Idle(h)
      <4>1. state'[h] = "Idle" /\ len'[h] = 0 /\ done'[h] = 0
        BY <1>2, <3>1 DEF Idle, Set, Fields
      <4>2. Credited(h)' = Credited(h) + fresh - (l - d)
        BY <1>2, <4>1
      <4> QED
        BY <4>1, <4>2 DEF Half!Idle
    <3>2. ASSUME NEW n \in 0..Offered(room), Settle(h, l, d + n)
          PROVE  Half(h)!Settle(l, d + n) /\ Credited(h)' = Credited(h) + fresh - n
      <4>1. n \in Nat /\ n <= l - d
        BY <1>1, <3>2
      <4>2. CASE d + n >= l
        <5>1. state'[h] = "Idle" /\ len'[h] = 0 /\ done'[h] = 0
          BY <1>2, <3>2, <4>2 DEF Settle, Idle, Set, Fields
        <5>2. Credited(h)' = Credited(h) + fresh - n
          BY <1>2, <4>1, <4>2, <5>1
        <5> QED
          BY <4>2, <5>1, <5>2 DEF Half!Settle, Half!Idle
      <4>3. CASE ~(d + n >= l)
        <5>1. state'[h] = "Moving" /\ len'[h] = l /\ done'[h] = d + n
          BY <1>2, <3>2, <4>3 DEF Settle, Set, Fields
        <5>2. Credited(h)' = Credited(h) + fresh - n
          BY <1>2, <4>1, <5>1
        <5> QED
          BY <4>3, <5>1, <5>2 DEF Half!Settle, Half!Keep
      <4> QED
        BY <4>2, <4>3
    <3> QED
      BY <1>4, <3>1, <3>2
  <2>3. ~(room > 0 /\ Offered(room) = 0)
    BY <1>1
  <2> QED
    BY <1>1, <1>3, <1>4, <2>1, <2>2, <2>3, Zenon
       DEF Half!Transfer, Half!Return, Permit, Parked, Credited
<1>5. CASE /\ inner[h] = "dry" /\ Set(h, "Moving", l, d)
           /\ parked' = [parked EXCEPT ![h] = "inner"]
           /\ UNCHANGED <<inner, calling, backed>>
  <2>1. PICK room \in Rooms : TRUE
    BY StreamAssumption
  <2>2. state'[h] = "Moving" /\ len'[h] = l /\ done'[h] = d /\ Parked(h)' = "inner"
    BY <1>2, <1>3, <1>5 DEF Set, Fields
  <2>3. Credited(h)' = Credited(h) + fresh
    BY <2>2
  <2>4. ~(room > 0 /\ Offered(room) = 0)
    BY <1>1
  <2>5. Half(h)!Transfer(room, l, d, fresh, torn)
    BY <1>1, <1>3, <1>5, <2>2, <2>3, <2>4, Zenon
       DEF Half!Transfer, Half!Keep, Permit, Parked, Credited
  <2> QED
    BY <2>5
<1>6. CASE /\ inner[h] = "ready" /\ Return(h)
           /\ \/ \E room \in Rooms : \E n \in 0..Capacity(room, l - d) :
                   Settle(h, l, d + n) /\ Spend(h, n)
              \/ Idle(h) /\ Spend(h, l - d)
           /\ \E r \in {"dry", "ready"} : inner' = [inner EXCEPT ![h] = r]
  <2>1. inner'[h] \in {"dry", "ready"}
    BY <1>2, <1>6 DEF Fields
  <2>2. PICK room \in Rooms : \/ \E n \in 0..Offered(room) : Settle(h, l, d + n)
                              \/ Idle(h)
    <3>1. PICK room \in Rooms : TRUE
      BY StreamAssumption
    <3> QED
      BY <1>1, <1>6, <3>1
  <2> QED
    BY <1>4, <1>6, <2>1, <2>2
<1> QED
  BY <1>5, <1>6 DEF Inner

LEMMA MoveRefines ==
  ASSUME Sound, Sound', HInv, HInv', NEW h \in Halves, Move(h)
  PROVE  [Half(h)!Next]_(Half(h)!vars)
<1>1. /\ polled[h] /\ calling[h] /\ Stage(h) /\ Fields
      /\ len[h] \in Nat /\ done[h] \in Nat
      /\ Credited(h) = len[h] - done[h] /\ Credited(h)' = len'[h] - done'[h]
  BY CreditIsLeft, CreditNext DEF Move, HInv, Watch, Fields, Halves
<1>2. CASE Granted(h) /\ L!Take(h) /\ Inner(h, out[h], 0)
  <2>1. pc[h] = "ready" /\ pc'[h] = "idle"
    BY <1>2, Takes
  <2>2. PICK l \in Permits : l = out[h] /\ l \in Nat /\ 0 < l /\ 0 \in Nat
    BY <2>1, ReturnsPermit
  <2>3. state[h] # "Moving" /\ Credited(h) + l = l - 0
    BY <1>1, <2>1, <2>2 DEF Stage
  <2>4. ASSUME NEW torn PROVE \E room \in Rooms : Half(h)!Transfer(room, l, 0, l, torn)
    <3>1. Inner(h, l, 0)
      BY <1>2, <2>2
    <3> QED
      BY <1>1, <2>1, <2>2, <2>3, <3>1, InnerTransfers
  <2>5. CASE state[h] = "Idle"
    <3>1. PICK room \in Rooms : Half(h)!Transfer(room, l, 0, l, "Idle")
      BY <2>4
    <3>2. Half(h)!PollIdle(room)
      BY <2>2, <2>5, <3>1 DEF Half!PollIdle, Permits
    <3> QED
      BY <1>1, <3>2 DEF Half!Next, Half!Poll
  <2>6. CASE state[h] = "Waiting"
    <3>1. PICK room \in Rooms : Half(h)!Transfer(room, l, 0, l, "WaitingNone")
      BY <2>4
    <3>2. Half(h)!PollWaiting(room)
      BY <2>2, <2>6, <3>1
         DEF Half!PollWaiting, Half!Transfer, Half!Capacity, Half!Least,
             Half!Settle, Half!Idle, Half!Keep, Half!Return
    <3> QED
      BY <1>1, <3>2 DEF Half!Next, Half!Poll
  <2> QED
    BY <1>1, <2>3, <2>5, <2>6 DEF Fields
<1>3. CASE state[h] = "Moving" /\ Inner(h, len[h], done[h]) /\ UNCHANGED limiterVars
  <2>1. pc'[h] = "idle" /\ done[h] < len[h]
    BY <1>1, <1>3 DEF Stage, limiterVars
  <2>2. PICK l, d \in Nat : l = len[h] /\ d = done[h] /\ d < l /\ Credited(h) + 0 = l - d /\ 0 \in Nat
    BY <1>1, <2>1
  <2>3. Inner(h, l, d)
    BY <1>3, <2>2
  <2>4. PICK room \in Rooms : Half(h)!Transfer(room, l, d, 0, "MovingNone")
    BY <1>1, <2>1, <2>2, <2>3, InnerTransfers
  <2>5. Half(h)!PollMoving(room)
    BY <1>3, <2>2, <2>4
       DEF Half!PollMoving, Half!Transfer, Half!Capacity, Half!Least,
           Half!Settle, Half!Idle, Half!Keep, Half!Return
  <2> QED
    BY <1>1, <2>5 DEF Half!Next, Half!Poll
<1> QED
  BY <1>2, <1>3 DEF Move

(* The steps of the other half, time and set_limit are not seen.            *)
LEMMA HalvesNext ==
  Sound /\ Sound' /\ HInv /\ HInv' /\ [Next]_vars
    => \A h \in Halves : [Half(h)!Next]_(Half(h)!vars)
<1> SUFFICES ASSUME Sound, Sound', HInv, HInv', [Next]_vars, NEW h \in Halves
             PROVE  [Half(h)!Next]_(Half(h)!vars)
  OBVIOUS
<1>1. CASE HalfStep(h)
  BY <1>1, CallerRefines, ClimbRefines, SuspendRefines, MoveRefines DEF HalfStep, Run
<1>2. ASSUME NEW g \in Halves, HalfStep(g), g # h PROVE UNCHANGED Half(h)!vars
  <2>1. Untouched(h)
    BY <1>2, OtherUntouched
  <2>2. Seen(h)' = Seen(h)
    BY <2>1 DEF Untouched, Seen, Permit, Parked, Credited
  <2> QED
    BY <2>2, Unseen
<1>3. CASE (\E c \in Cells : Time(c)) \/ SetLimit \/ UNCHANGED vars
  <2>1. UNCHANGED <<out, locRem, pc, state, len, done, inner, calling, parked, backed>>
    BY <1>3 DEF Time, Refill, L!Refill, SetLimit, Reconfigure, L!Reconfigure, L!SetUnlimited,
                L!SetLimit, L!sessionVars, halfVars, vars, limiterVars
  <2>2. Seen(h)' = Seen(h)
    BY <2>1 DEF Seen, Permit, Parked, Credited
  <2> QED
    BY <2>2, Unseen
<1> QED
  BY <1>1, <1>2, <1>3, Steps

(* Each half, with its session climbing step by step against the other one,
   implements the half whose permits come from nowhere.                     *)
THEOREM HalvesImplement == Spec => ImplementsHalves
BY StreamInvariance, HalvesInit, HalvesNext, PTL DEF Spec, ImplementsHalves
=============================================================================
