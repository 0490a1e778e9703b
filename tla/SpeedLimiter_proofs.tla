------------------------ MODULE SpeedLimiter_proofs ------------------------
(***************************************************************************)
(* Proofs about SpeedLimiter, for chains of every length, any number of    *)
(* limiters and sessions, and all weights and bursts: its types, the       *)
(* ledger of admitted bytes, that it implements Shaper, that a session     *)
(* never hoards more than one token of any limiter above it, and that a    *)
(* token is worth the same to all who wait for it.                         *)
(***************************************************************************)
EXTENDS SpeedLimiter, TLAPS

(* Where a session stands in its chain.                                     *)
Placed(s) ==
  /\ pc[s] = "closed" => path[s] = <<>>
  /\ pc[s] # "closed" => path[s] \in Chains
  /\ pc[s] # "closed" => at[s] <= Depth(s)
  /\ pc[s] \in {"closed", "idle", "ready"} => at[s] = 1
  /\ pc[s] = "wait" => quote[s] \in Pairs

(* What it holds there: nothing below the level it works on, and something
   from above when it works below the root.                                 *)
Holds(s) ==
  /\ InCall(s) => \A j \in Levels : j < at[s] => upRem[s][j] = 0
  /\ pc[s] = "local" => at[s] < Depth(s)
  /\ pc[s] \in {"local", "wait"} /\ at[s] < Depth(s) => upRem[s][at[s]] > 0
  /\ pc[s] # "ready" => out[s] = 0
  /\ pc[s] = "ready" => out[s] > 0
  /\ pc[s] = "closed" => due[s] = Zeros /\ locRem[s] = Zeros /\ upRem[s] = Zeros

(* The ledger of one session, with the order of the accounts that the sums
   in it imply.                                                             *)
Balanced(s) ==
  /\ Passed(s, 1) = out[s]
  /\ \A j, k \in Levels :
       j < k /\ k <= Depth(s) => Passed(s, j) + upRem[s][j] <= Passed(s, k)
  /\ \A k \in Levels :
       k < Depth(s) => Passed(s, k + 1) = Passed(s, k) + upRem[s][k]

IInv == TypeOK /\ \A s \in Sessions : Placed(s) /\ Holds(s) /\ Balanced(s)
-----------------------------------------------------------------------------
(* A chain new_limit_session builds has between 1 and MaxDepth nodes.       *)
LEMMA ChainLength ==
  ASSUME NEW p \in Chains
  PROVE  Len(p) \in Levels /\ p # <<>>
<1>1. PICK n \in Levels : p \in [1..n -> Limiters]
  BY DEF Chains
<1>2. n \in Nat /\ n >= 1
  BY <1>1, LimiterAssumption DEF Levels
<1>3. p \in Seq(Limiters) /\ Len(p) = n
  BY <1>1, <1>2
<1> QED
  BY <1>2, <1>3, <1>1

(* Initially the limiters hold weights and governors, and nothing is open.  *)
LEMMA InitInv == Init => IInv
<1> SUFFICES ASSUME Init PROVE IInv
  OBVIOUS
<1> USE LimiterAssumption
<1>1. Zeros \in [Levels -> Nat] /\ Zeros \in [Levels -> Int] /\ 1 \in Levels
  BY DEF Zeros, Levels
<1>2. bucket \in [Cells -> [tokens : Nat, burst : Nat]]
  <2>1. PICK b \in [Cells -> Bursts] :
               bucket = [c \in Cells |->
                           IF \E l \in Limiters : limiter[l].cell = c
                           THEN [tokens |-> b[c], burst |-> b[c]] ELSE NoGov]
    BY DEF Init
  <2>2. \A c \in Cells : b[c] \in Nat
    OBVIOUS
  <2> QED
    BY <2>1, <2>2 DEF NoGov
<1>3. TypeOK
  BY <1>1, <1>2 DEF Init, TypeOK
<1>4. ASSUME NEW s \in Sessions PROVE Placed(s) /\ Holds(s) /\ Balanced(s)
  <2>1. Placed(s) /\ Holds(s)
    BY DEF Init, Placed, Holds, InCall
  <2>2. Depth(s) = 0
    BY DEF Init, Depth
  <2>3. Passed(s, 1) = out[s]
    BY <1>1 DEF Init, Passed, Zeros
  <2> QED
    BY <2>1, <2>2, <2>3 DEF Balanced, Levels
<1> QED
  BY <1>3, <1>4 DEF IInv

(* Dropping references never invents a bucket.                              *)
LEMMA CollectType ==
  ASSUME NEW b \in [Cells -> [tokens : Nat, burst : Nat]], NEW lim, NEW quo
  PROVE  Collect(b, lim, quo) \in [Cells -> [tokens : Nat, burst : Nat]]
BY DEF Collect, NoGov

(* A step that changes nothing of a session keeps what is known about it.   *)
LEMMA Untouched ==
  ASSUME NEW s \in Sessions, Placed(s) /\ Holds(s) /\ Balanced(s),
         path'[s] = path[s], upRem'[s] = upRem[s], locRem'[s] = locRem[s],
         pc'[s] = pc[s], at'[s] = at[s], quote'[s] = quote[s],
         out'[s] = out[s], due'[s] = due[s]
  PROVE  Placed(s)' /\ Holds(s)' /\ Balanced(s)'
BY DEF Placed, Holds, Balanced, Depth, InCall, Passed

(* The heart of until_ready_inner: returning the smaller side moves bytes
   down one level and keeps the books of all levels balanced.               *)
LEMMA GrantInv ==
  ASSUME IInv, NEW s \in Sessions, NEW w \in Nat, Grant(s, w),
         InCall(s), locRem[s][at[s]] + w > 0,
         at[s] < Depth(s) => upRem[s][at[s]] > 0,
         quote' = quote \/ quote' = [quote EXCEPT ![s] = NoQuote]
  PROVE  /\ upRem' \in [Sessions -> [Levels -> Nat]]
         /\ locRem' \in [Sessions -> [Levels -> Nat]]
         /\ due' \in [Sessions -> [Levels -> Int]]
         /\ out' \in [Sessions -> Nat]
         /\ pc' \in [Sessions -> {"closed", "idle", "enter", "local", "wait", "ready"}]
         /\ at' \in [Sessions -> Levels]
         /\ \A t \in Sessions : Placed(t)' /\ Holds(t)' /\ Balanced(t)'
<1> DEFINE k == at[s]
           loc == locRem[s][k] + w
           r == Returned(s, k, loc)
<1>1. /\ k \in Levels /\ k \in Nat /\ k >= 1 /\ Levels \subseteq Nat
      /\ path[s] \in Chains /\ k <= Depth(s) /\ Depth(s) \in Levels
      /\ upRem[s] \in [Levels -> Nat] /\ locRem[s] \in [Levels -> Nat]
      /\ due[s] \in [Levels -> Int]
  <2>1. Levels \subseteq Nat /\ \A j \in Levels : j >= 1
    BY LimiterAssumption DEF Levels
  <2>2. /\ upRem[s] \in [Levels -> Nat] /\ locRem[s] \in [Levels -> Nat]
        /\ due[s] \in [Levels -> Int] /\ k \in Levels
    BY DEF IInv, TypeOK
  <2>3. path[s] \in Chains /\ k <= Depth(s)
    BY DEF IInv, Placed, InCall
  <2>4. Depth(s) \in Levels
    BY <2>3, ChainLength DEF Depth
  <2> QED
    BY <2>1, <2>2, <2>3, <2>4
<1>2. /\ r \in Nat /\ r > 0 /\ loc - r \in Nat /\ loc \in Nat
      /\ k < Depth(s) => r <= upRem[s][k]
      /\ k = Depth(s) => r = loc
  <2>1. upRem[s][k] \in Nat /\ locRem[s][k] \in Nat /\ Depth(s) \in Nat
    BY <1>1
  <2>2. loc \in Nat /\ loc > 0
    BY <2>1
  <2>3. CASE k = Depth(s)
    BY <2>1, <2>2, <2>3 DEF Returned
  <2>4. CASE k < Depth(s)
    <3>1. r = IF upRem[s][k] < loc THEN upRem[s][k] ELSE loc
      BY <2>4, <2>1 DEF Returned, Least
    <3>2. upRem[s][k] > 0
      BY <2>4
    <3> QED
      BY <3>1, <3>2, <2>1, <2>2, <2>4
  <2> QED
    BY <2>1, <2>3, <2>4, <1>1
<1>3. /\ upRem'[s] = [j \in Levels |->
                        IF j = k - 1 THEN r
                        ELSE IF j = k /\ k < Depth(s) THEN upRem[s][j] - r
                        ELSE upRem[s][j]]
      /\ locRem'[s] = [locRem[s] EXCEPT ![k] = loc - r]
      /\ due'[s] = [due[s] EXCEPT ![k] = @ + w]
      /\ path' = path
  <2>1. /\ DOMAIN upRem = Sessions /\ DOMAIN locRem = Sessions
        /\ DOMAIN due = Sessions
    BY DEF IInv, TypeOK
  <2>2. locRem' = [locRem EXCEPT ![s] = [locRem[s] EXCEPT ![k] = loc - r]]
    BY DEF Grant
  <2>3. due' = [due EXCEPT ![s] = [due[s] EXCEPT ![k] = due[s][k] + w]]
    BY DEF Grant
  <2>4. upRem' = [upRem EXCEPT ![s] =
                    [j \in Levels |->
                        IF j = k - 1 THEN r
                        ELSE IF j = k /\ k < Depth(s) THEN upRem[s][j] - r
                        ELSE upRem[s][j]]]
    BY DEF Grant
  <2>5. path' = path
    BY DEF Grant
  <2> HIDE DEF k, loc, r
  <2>6. locRem'[s] = [locRem[s] EXCEPT ![k] = loc - r]
    BY <2>1, <2>2
  <2>7. due'[s] = [due[s] EXCEPT ![k] = due[s][k] + w]
    BY <2>1, <2>3
  <2>8. upRem'[s] = [j \in Levels |->
                        IF j = k - 1 THEN r
                        ELSE IF j = k /\ k < Depth(s) THEN upRem[s][j] - r
                        ELSE upRem[s][j]]
    BY <2>1, <2>4
  <2> QED
    BY <2>5, <2>6, <2>7, <2>8
<1> HIDE DEF loc, r
<1>4. /\ upRem'[s] \in [Levels -> Nat]
      /\ locRem'[s] \in [Levels -> Nat]
      /\ due'[s] \in [Levels -> Int]
  BY <1>1, <1>2, <1>3
<1>5. /\ upRem' \in [Sessions -> [Levels -> Nat]]
      /\ locRem' \in [Sessions -> [Levels -> Nat]]
      /\ due' \in [Sessions -> [Levels -> Int]]
  BY <1>3, <1>4 DEF Grant, IInv, TypeOK
<1>6. /\ out' \in [Sessions -> Nat]
      /\ pc' \in [Sessions -> {"closed", "idle", "enter", "local", "wait", "ready"}]
      /\ at' \in [Sessions -> Levels]
  <2>1. /\ out \in [Sessions -> Nat] /\ at \in [Sessions -> Levels]
        /\ pc \in [Sessions -> {"closed", "idle", "enter", "local", "wait", "ready"}]
    BY DEF IInv, TypeOK
  <2>2. CASE k = 1
    <3>1. out' = [out EXCEPT ![s] = r] /\ pc' = [pc EXCEPT ![s] = "ready"] /\ at' = at
      BY <2>2 DEF Grant, loc, r
    <3> QED
      BY <2>1, <3>1, <1>2
  <2>3. CASE k # 1
    <3>1. out' = out /\ pc' = [pc EXCEPT ![s] = "local"] /\ at' = [at EXCEPT ![s] = k - 1]
      BY <2>3 DEF Grant
    <3>2. k - 1 \in Levels
      BY <2>3, <1>1, LimiterAssumption DEF Levels
    <3> QED
      BY <2>1, <3>1, <3>2
  <2> QED
    BY <2>2, <2>3
<1>7. ASSUME NEW t \in Sessions, t # s
      PROVE  Placed(t)' /\ Holds(t)' /\ Balanced(t)'
  BY <1>7, Untouched DEF Grant, IInv, TypeOK
<1>8. /\ k = 1 => pc'[s] = "ready" /\ out'[s] = r /\ at'[s] = 1
      /\ k # 1 => pc'[s] = "local" /\ at'[s] = k - 1 /\ out'[s] = out[s]
  <2>1. DOMAIN out = Sessions /\ DOMAIN pc = Sessions /\ DOMAIN at = Sessions
    BY DEF IInv, TypeOK
  <2>2. CASE k = 1
    <3>1. out' = [out EXCEPT ![s] = r] /\ pc' = [pc EXCEPT ![s] = "ready"] /\ at' = at
      BY <2>2 DEF Grant, loc, r
    <3> QED
      BY <2>1, <2>2, <3>1
  <2>3. CASE k # 1
    <3>1. out' = out /\ pc' = [pc EXCEPT ![s] = "local"] /\ at' = [at EXCEPT ![s] = k - 1]
      BY <2>3 DEF Grant
    <3> QED
      BY <2>1, <2>3, <3>1
  <2> QED
    BY <2>2, <2>3
<1>9. Placed(s)'
  BY <1>1, <1>3, <1>8 DEF Placed, Depth
<1>10. out[s] = 0 /\ \A j \in Levels : j < k => upRem[s][j] = 0
  BY DEF IInv, Holds, InCall
<1>13. /\ \A j \in Levels : j = k - 1 => upRem'[s][j] = r
       /\ k < Depth(s) => upRem'[s][k] = upRem[s][k] - r
       /\ \A j \in Levels : j # k - 1 /\ j # k => upRem'[s][j] = upRem[s][j]
  BY <1>1, <1>2, <1>3
<1>11. Holds(s)'
  <2>1. CASE k = 1
    BY <2>1, <1>2, <1>8 DEF Holds, InCall
  <2>2. CASE k # 1
    <3>1. k - 1 \in Levels /\ k - 1 < Depth(s) /\ Depth(s)' = Depth(s)
      <4>1. path' = path
        BY <1>3
      <4>2. k \in Nat /\ MaxDepth \in Nat /\ k >= 1 /\ k <= MaxDepth /\ Depth(s) \in Nat /\ k <= Depth(s)
        BY <1>1, LimiterAssumption DEF Levels
      <4>3. k - 1 \in 1..MaxDepth /\ k - 1 < Depth(s)
        BY <2>2, <4>2
      <4> QED
        BY <4>1, <4>3 DEF Levels, Depth
    <3>2. upRem'[s][k - 1] = r
      BY <3>1, <1>13
    <3>3. ASSUME NEW j \in Levels, j < k - 1 PROVE upRem'[s][j] = 0
      <4>1. j # k - 1 /\ j # k /\ j < k
        BY <3>3, <1>1
      <4> QED
        BY <4>1, <1>13, <1>10
    <3> QED
      BY <2>2, <3>1, <3>2, <3>3, <1>2, <1>8, <1>10 DEF Holds, InCall
  <2> QED
    BY <2>1, <2>2
<1>12. ASSUME NEW j \in Levels
       PROVE  /\ Passed(s, j) \in Int
              /\ Passed(s, j)' = IF j = k THEN Passed(s, j) + r ELSE Passed(s, j)
  <2>1. j # k => due'[s][j] = due[s][j] /\ locRem'[s][j] = locRem[s][j]
    BY <1>1, <1>3
  <2>2. j = k => due'[s][j] = due[s][j] + w /\ locRem'[s][j] = locRem[s][j] + w - r
    <3>1. j = k => locRem'[s][j] = loc - r
      BY <1>1, <1>3
    <3>2. j = k => loc = locRem[s][j] + w
      BY DEF loc
    <3>3. j = k => due'[s][j] = due[s][j] + w
      BY <1>1, <1>3
    <3>4. due[s][j] \in Int /\ locRem[s][j] \in Nat
      BY <1>1
    <3> QED
      BY <3>1, <3>2, <3>3, <3>4, <1>2
  <2>3. due[s][j] \in Int /\ locRem[s][j] \in Nat
    BY <1>1
  <2> QED
    BY <2>1, <2>2, <2>3, <1>2 DEF Passed
<1>14. Depth(s)' = Depth(s)
  BY <1>3 DEF Depth
<1>15. Balanced(s)'
  <2>0. Balanced(s)
    BY DEF IInv
  <2>1. Passed(s, 1)' = out'[s]
    BY <2>0, <1>1, <1>2, <1>8, <1>10, <1>12, LimiterAssumption DEF Balanced, Levels
  <2>2. ASSUME NEW i \in Levels, i < Depth(s)
        PROVE  Passed(s, i + 1)' = Passed(s, i)' + upRem'[s][i]
    <3>1. i + 1 \in Levels /\ i \in Nat
      BY <2>2, <1>1, LimiterAssumption DEF Levels
    <3>2. Passed(s, i + 1) = Passed(s, i) + upRem[s][i]
      BY <2>0, <2>2 DEF Balanced
    <3>3. upRem[s][i] \in Nat /\ Passed(s, i) \in Int
      BY <1>1, <1>12
    <3>4. CASE i = k - 1
      BY <3>1, <3>2, <3>3, <3>4, <1>1, <1>2, <1>10, <1>12, <1>13
    <3>5. CASE i = k
      BY <3>1, <3>2, <3>3, <3>5, <2>2, <1>1, <1>2, <1>12, <1>13
    <3>6. CASE i # k /\ i # k - 1
      BY <3>1, <3>2, <3>3, <3>6, <1>1, <1>2, <1>12, <1>13
    <3> QED
      BY <3>4, <3>5, <3>6
  <2>3. ASSUME NEW i \in Levels, NEW j \in Levels, i < j, j <= Depth(s)
        PROVE  Passed(s, i)' + upRem'[s][i] <= Passed(s, j)'
    <3>1. Passed(s, i) + upRem[s][i] <= Passed(s, j)
      BY <2>0, <2>3 DEF Balanced
    <3>2. i < k /\ k < j =>
            /\ Passed(s, i) + upRem[s][i] <= Passed(s, k)
            /\ Passed(s, k) + upRem[s][k] <= Passed(s, j)
      BY <2>0, <2>3, <1>1 DEF Balanced
    <3>3. /\ upRem[s][i] \in Nat /\ Passed(s, i) \in Int /\ Passed(s, j) \in Int
          /\ upRem[s][k] \in Nat /\ Passed(s, k) \in Int /\ i \in Nat /\ j \in Nat
      BY <1>1, <1>12
    <3>7. k < j => k < Depth(s) /\ Depth(s) \in Nat
      <4>1. Depth(s) \in Nat /\ k \in Nat /\ j <= Depth(s) /\ j \in Nat
        BY <2>3, <3>3, <1>1
      <4> QED
        BY <4>1
    <3>4. CASE i = k - 1
      <4>1. upRem[s][i] = 0 /\ upRem'[s][i] = r /\ Passed(s, i)' = Passed(s, i)
        BY <3>3, <3>4, <1>1, <1>10, <1>12, <1>13
      <4>2. CASE j = k
        BY <4>1, <4>2, <3>1, <3>3, <1>2, <1>12
      <4>3. CASE j > k
        <5>1. /\ Passed(s, i) <= Passed(s, k) /\ r <= upRem[s][k]
              /\ Passed(s, k) + upRem[s][k] <= Passed(s, j)
              /\ Passed(s, j)' = Passed(s, j)
          BY <4>1, <4>3, <3>2, <3>3, <3>4, <3>7, <1>1, <1>2, <1>12
        <5> QED
          BY <4>1, <5>1, <3>3, <1>2
      <4> QED
        BY <4>2, <4>3, <3>3, <3>4, <2>3, <1>1
    <3>5. CASE i = k
      <4>1. /\ Passed(s, i)' = Passed(s, i) + r /\ Passed(s, j)' = Passed(s, j)
            /\ upRem'[s][i] = upRem[s][i] - r
        BY <3>3, <3>5, <3>7, <2>3, <1>12, <1>13
      <4> QED
        BY <4>1, <3>1, <3>3, <1>2
    <3>6. CASE i # k /\ i # k - 1
      BY <3>1, <3>3, <3>6, <1>1, <1>2, <1>12, <1>13
    <3> QED
      BY <3>4, <3>5, <3>6
  <2> QED
    BY <2>1, <2>2, <2>3, <1>14 DEF Balanced
<1> QED
  BY <1>5, <1>6, <1>7, <1>9, <1>11, <1>15
-----------------------------------------------------------------------------
(* Reconfiguring a limiter, and the clock, touch no session.                *)
LEMMA LimiterStepInv ==
  ASSUME IInv, Reconfigure \/ \E c \in Cells : Refill(c)
  PROVE  IInv'
<1> USE LimiterAssumption
<1>1. UNCHANGED sessionVars
  BY DEF Reconfigure, SetUnlimited, SetLimit, Refill
<1>2. \A s \in Sessions : Placed(s)' /\ Holds(s)' /\ Balanced(s)'
  BY <1>1, Untouched DEF IInv, sessionVars
<1>3. limiter' \in [Limiters -> Pairs] /\ bucket' \in [Cells -> [tokens : Nat, burst : Nat]]
  <2>1. CASE \E l \in Limiters, w \in Weights : SetUnlimited(l, w)
    <3>1. PICK l \in Limiters, w \in Weights : SetUnlimited(l, w)
      BY <2>1
    <3>2. [weight |-> w, cell |-> NoCell] \in Pairs
      BY DEF Pairs
    <3>3. bucket' \in [Cells -> [tokens : Nat, burst : Nat]]
      BY <3>1, CollectType DEF SetUnlimited, IInv, TypeOK
    <3> QED
      BY <3>1, <3>2, <3>3 DEF SetUnlimited, IInv, TypeOK
  <2>2. ASSUME NEW l \in Limiters, NEW w \in Weights, NEW c \in Cells,
               NEW b \in Bursts, SetLimit(l, w, c, b)
        PROVE  limiter' \in [Limiters -> Pairs] /\ bucket' \in [Cells -> [tokens : Nat, burst : Nat]]
    <3>1. [bucket EXCEPT ![c] = [tokens |-> b, burst |-> b]]
            \in [Cells -> [tokens : Nat, burst : Nat]]
      BY DEF IInv, TypeOK
    <3>2. bucket' \in [Cells -> [tokens : Nat, burst : Nat]]
      BY <2>2, <3>1, CollectType DEF SetLimit
    <3> QED
      BY <2>2, <3>2 DEF SetLimit, IInv, TypeOK, Pairs
  <2>3. CASE \E c \in Cells : Refill(c)
    BY <2>3 DEF Refill, IInv, TypeOK
  <2> QED
    BY <2>1, <2>2, <2>3 DEF Reconfigure
<1> QED
  BY <1>1, <1>2, <1>3 DEF IInv, TypeOK, sessionVars

(* Each step a polled session takes, and the caller's operations.           *)
LEMMA SessionStepInv ==
  ASSUME IInv, NEW s \in Sessions, Step(s) \/ Admit(s) \/ Use(s)
  PROVE  IInv'
<1> USE LimiterAssumption
<1>0. /\ TypeOK /\ Placed(s) /\ Holds(s) /\ Balanced(s)
      /\ upRem[s] \in [Levels -> Nat] /\ locRem[s] \in [Levels -> Nat]
      /\ due[s] \in [Levels -> Int] /\ out[s] \in Nat /\ at[s] \in Levels
      /\ limiter \in [Limiters -> Pairs]
      /\ bucket \in [Cells -> [tokens : Nat, burst : Nat]]
  BY DEF IInv, TypeOK
<1>1. 1 \in Levels /\ \A j \in Levels : j \in Nat /\ j >= 1
  BY DEF Levels
<1>2. ASSUME pc[s] # "closed"
      PROVE  /\ Depth(s) \in Levels /\ at[s] <= Depth(s) /\ path[s] # <<>>
             /\ path[s][at[s]] \in Limiters /\ Pair(s) \in Pairs
  <2>1. path[s] \in Chains /\ at[s] <= Depth(s)
    BY <1>0, <1>2 DEF Placed
  <2>2. Depth(s) \in Levels /\ path[s] # <<>>
    BY <2>1, ChainLength DEF Depth
  <2>3. PICK n \in Levels : path[s] \in [1..n -> Limiters]
    BY <2>1 DEF Chains
  <2>4. Len(path[s]) = n
    BY <2>3, <1>1
  <2>5. at[s] \in 1..n
    <3>1. at[s] <= n /\ at[s] \in Nat /\ at[s] >= 1
      BY <2>1, <2>4, <1>0, <1>1 DEF Depth
    <3>2. n \in Nat
      BY <1>1
    <3> QED
      BY <3>1, <3>2
  <2> QED
    BY <2>1, <2>2, <2>3, <2>5, <1>0 DEF Pair
<1>3. CASE Climb(s)
  <2>1. at[s] + 1 \in Levels /\ at[s] + 1 <= Depth(s) /\ Depth(s) \in Levels
    <3>1. Depth(s) \in Levels /\ at[s] < Depth(s)
      BY <1>2, <1>3 DEF Climb
    <3>2. Depth(s) \in Nat /\ at[s] \in Nat /\ at[s] >= 1
      BY <3>1, <1>0, <1>1
    <3> QED
      BY <3>1, <3>2 DEF Levels
  <2>2. TypeOK'
    BY <1>0, <1>3, <2>1 DEF Climb, TypeOK, limiterVars
  <2>3. at'[s] = at[s] + 1
    BY <1>0, <1>3 DEF Climb, TypeOK
  <2>4. Placed(s)' /\ Balanced(s)'
    BY <1>0, <1>3, <2>1, <2>3 DEF Climb, Placed, Balanced, Depth, Passed
  <2>5. ASSUME NEW j \in Levels, j < at[s] + 1 PROVE upRem[s][j] = 0
    <3>1. j < at[s] \/ j = at[s]
      <4>1. j \in Nat /\ at[s] \in Nat
        BY <1>0, <1>1
      <4> QED
        BY <4>1, <2>5
    <3> QED
      BY <3>1, <1>0, <1>3 DEF Climb, Holds, InCall
  <2>6. Holds(s)'
    BY <1>0, <1>3, <2>3, <2>5 DEF Climb, Holds, InCall, Depth
  <2>7. ASSUME NEW u \in Sessions, u # s
        PROVE  Placed(u)' /\ Holds(u)' /\ Balanced(u)'
    BY <1>0, <1>3, <2>7, Untouched DEF Climb, IInv, TypeOK
  <2> QED
    BY <2>2, <2>4, <2>6, <2>7 DEF IInv
<1>4. CASE UseUpper(s)
  <2>1. TypeOK' /\ pc'[s] = "local"
    BY <1>0, <1>4 DEF UseUpper, TypeOK, limiterVars
  <2>2. Placed(s)' /\ Balanced(s)' /\ Holds(s)'
    BY <1>0, <1>4, <2>1 DEF UseUpper, Placed, Balanced, Holds, InCall, Depth, Passed
  <2>3. ASSUME NEW u \in Sessions, u # s
        PROVE  Placed(u)' /\ Holds(u)' /\ Balanced(u)'
    BY <1>0, <1>4, <2>3, Untouched DEF UseUpper, IInv, TypeOK
  <2> QED
    BY <2>1, <2>2, <2>3 DEF IInv
<1>5. CASE UseLocal(s)
  <2>1. /\ Grant(s, 0) /\ InCall(s) /\ locRem[s][at[s]] + 0 > 0 /\ quote' = quote
        /\ limiter' = limiter /\ bucket' = bucket /\ path' = path
        /\ upRem[s][at[s]] > 0
    BY <1>0, <1>5 DEF UseLocal, limiterVars, InCall, Grant, Holds
  <2> QED
    BY <1>0, <2>1, GrantInv DEF IInv, TypeOK
<1>6. ASSUME NeedsToken(s)
      PROVE  InCall(s) /\ (at[s] < Depth(s) => upRem[s][at[s]] > 0)
  <2>1. CASE pc[s] = "enter" /\ at[s] = Depth(s)
    <3>1. Depth(s) \in Nat
      BY <1>1, <1>2, <2>1
    <3> QED
      BY <2>1, <3>1 DEF InCall
  <2>2. CASE pc[s] = "local"
    BY <1>0, <2>2 DEF InCall, Holds
  <2> QED
    BY <1>6, <2>1, <2>2 DEF NeedsToken
<1>7. CASE Unlimited(s)
  <2>1. /\ Grant(s, Pair(s).weight) /\ NeedsToken(s) /\ quote' = quote
        /\ limiter' = limiter /\ bucket' = bucket
    BY <1>7 DEF Unlimited, limiterVars
  <2>2. pc[s] # "closed"
    BY <2>1 DEF NeedsToken
  <2>3. Pair(s).weight \in Nat /\ Pair(s).weight > 0
    <3>1. Pair(s) \in Pairs
      BY <1>2, <2>2
    <3>2. Pair(s).weight \in Weights
      BY <3>1 DEF Pairs
    <3>3. Weights \subseteq Nat \ {0}
      BY LimiterAssumption
    <3> HIDE DEF Pair
    <3>4. Pair(s).weight \in Nat \ {0}
      BY <3>2, <3>3, Zenon
    <3> QED
      BY <3>4
  <2>4. locRem[s][at[s]] + Pair(s).weight > 0
    BY <2>3, <1>0
  <2>5. path' = path
    BY <2>1 DEF Grant
  <2>6. IInv /\ InCall(s) /\ (at[s] < Depth(s) => upRem[s][at[s]] > 0)
    BY <1>6, <2>1
  <2> HIDE DEF Pair
  <2> QED
    BY <1>0, <2>1, <2>3, <2>4, <2>5, <2>6, GrantInv DEF IInv, TypeOK
<1>8. CASE Wait(s)
  <2>1. pc[s] \in {"enter", "local"} /\ NeedsToken(s) /\ pc[s] # "closed"
    BY <1>8 DEF Wait, NeedsToken
  <2>2. Pair(s) \in Pairs /\ (at[s] < Depth(s) => upRem[s][at[s]] > 0)
    BY <1>2, <1>6, <2>1
  <2>3. TypeOK' /\ pc'[s] = "wait" /\ quote'[s] = Pair(s)
    BY <1>0, <1>8, <2>2 DEF Wait, TypeOK, limiterVars
  <2>4. Placed(s)' /\ Balanced(s)' /\ Holds(s)'
    BY <1>0, <1>8, <2>1, <2>2, <2>3
       DEF Wait, Placed, Balanced, Holds, InCall, Depth, Passed
  <2>5. ASSUME NEW u \in Sessions, u # s
        PROVE  Placed(u)' /\ Holds(u)' /\ Balanced(u)'
    BY <1>0, <1>8, <2>5, Untouched DEF Wait, IInv, TypeOK
  <2> QED
    BY <2>3, <2>4, <2>5 DEF IInv
<1>9. CASE Admit(s)
  <2>1. /\ Grant(s, quote[s].weight) /\ pc[s] = "wait" /\ limiter' = limiter
        /\ quote' = [quote EXCEPT ![s] = NoQuote]
        /\ bucket[quote[s].cell].tokens > 0
        /\ bucket' = Collect([bucket EXCEPT ![quote[s].cell].tokens = @ - 1], limiter, quote')
    BY <1>9 DEF Admit
  <2>2. quote[s] \in Pairs
    BY <1>0, <2>1 DEF Placed
  <2>3. quote[s].weight \in Nat /\ quote[s].weight > 0
    <3>1. quote[s].weight \in Weights
      BY <2>2 DEF Pairs
    <3>2. Weights \subseteq Nat \ {0}
      BY LimiterAssumption
    <3>3. quote[s].weight \in Nat \ {0}
      BY <3>1, <3>2, Zenon
    <3> QED
      BY <3>3
  <2>4. locRem[s][at[s]] + quote[s].weight > 0
    BY <2>3, <1>0
  <2>5. path' = path
    BY <2>1 DEF Grant
  <2>6. [bucket EXCEPT ![quote[s].cell].tokens = @ - 1]
          \in [Cells -> [tokens : Nat, burst : Nat]]
    <3>1. ASSUME NEW c \in Cells, bucket[c].tokens > 0
          PROVE  [bucket EXCEPT ![c].tokens = @ - 1] \in [Cells -> [tokens : Nat, burst : Nat]]
      BY <1>0, <3>1
    <3>2. ASSUME quote[s].cell \notin Cells
          PROVE  [bucket EXCEPT ![quote[s].cell].tokens = @ - 1] = bucket
      BY <1>0, <3>2
    <3> QED
      BY <1>0, <2>1, <3>1, <3>2
  <2>7. bucket' \in [Cells -> [tokens : Nat, burst : Nat]]
    BY <2>1, <2>6, CollectType
  <2>8. quote' \in [Sessions -> Pairs \cup {NoQuote}]
    BY <1>0, <2>1 DEF TypeOK
  <2>9. IInv /\ InCall(s) /\ (at[s] < Depth(s) => upRem[s][at[s]] > 0)
    BY <1>0, <2>1 DEF InCall, Holds
  <2> QED
    BY <1>0, <2>1, <2>3, <2>4, <2>5, <2>7, <2>8, <2>9, GrantInv DEF IInv, TypeOK
<1>10. CASE \E p \in Chains : NewSession(s, p)
  <2>1. PICK p \in Chains : NewSession(s, p)
    BY <1>10
  <2>2. TypeOK' /\ pc'[s] = "idle" /\ path'[s] = p
    BY <1>0, <2>1 DEF NewSession, TypeOK, limiterVars
  <2>3. Len(p) \in Levels
    BY ChainLength
  <2>4. Placed(s)' /\ Holds(s)'
    BY <1>0, <1>1, <2>1, <2>2, <2>3 DEF NewSession, Placed, Holds, InCall, Depth
  <2>5. /\ due'[s] = Zeros /\ locRem'[s] = Zeros /\ upRem'[s] = Zeros /\ out'[s] = 0
        /\ Zeros = [j \in Levels |-> 0]
    BY <1>0, <2>1 DEF NewSession, Holds, Zeros
  <2>6. \A j \in Levels : Passed(s, j)' = 0 /\ upRem'[s][j] = 0
    BY <2>5 DEF Passed
  <2>7. \A j \in Levels : j < Depth(s)' => j + 1 \in Levels
    BY <2>2, <2>3 DEF Levels, Depth
  <2>8. Balanced(s)'
    BY <1>1, <2>5, <2>6, <2>7 DEF Balanced
  <2>9. ASSUME NEW u \in Sessions, u # s
        PROVE  Placed(u)' /\ Holds(u)' /\ Balanced(u)'
    BY <1>0, <2>1, <2>9, Untouched DEF NewSession, IInv, TypeOK
  <2> QED
    BY <2>2, <2>4, <2>8, <2>9 DEF IInv
<1>11. CASE DropSession(s)
  <2>1. Zeros \in [Levels -> Nat] /\ Zeros \in [Levels -> Int] /\ Zeros = [j \in Levels |-> 0]
    BY DEF Zeros
  <2>2. TypeOK'
    BY <1>0, <1>11, <2>1 DEF DropSession, TypeOK, limiterVars
  <2>3. /\ pc'[s] = "closed" /\ path'[s] = <<>> /\ upRem'[s] = Zeros
        /\ locRem'[s] = Zeros /\ due'[s] = Zeros /\ out'[s] = 0 /\ at'[s] = 1
    BY <1>0, <1>11 DEF DropSession, TypeOK, Holds, Placed
  <2>4. Placed(s)' /\ Holds(s)'
    BY <2>3 DEF Placed, Holds, InCall
  <2>5. Balanced(s)'
    <3>1. Depth(s)' = 0 /\ Passed(s, 1)' = 0
      BY <1>1, <2>1, <2>3 DEF Depth, Passed
    <3> QED
      BY <3>1, <2>3, <1>1 DEF Balanced
  <2>6. ASSUME NEW u \in Sessions, u # s
        PROVE  Placed(u)' /\ Holds(u)' /\ Balanced(u)'
    BY <1>0, <1>11, <2>6, Untouched DEF DropSession, IInv, TypeOK
  <2> QED
    BY <2>2, <2>4, <2>5, <2>6 DEF IInv
<1>12. CASE Call(s)
  <2>1. TypeOK' /\ pc'[s] = "enter"
    BY <1>0, <1>12 DEF Call, TypeOK, limiterVars
  <2>2. at[s] = 1
    BY <1>0, <1>12 DEF Call, Placed
  <2>3. Placed(s)' /\ Balanced(s)' /\ Holds(s)'
    BY <1>0, <1>1, <1>12, <2>1, <2>2 DEF Call, Placed, Balanced, Holds, InCall, Depth, Passed
  <2>4. ASSUME NEW u \in Sessions, u # s
        PROVE  Placed(u)' /\ Holds(u)' /\ Balanced(u)'
    BY <1>0, <1>12, <2>4, Untouched DEF Call, IInv, TypeOK
  <2> QED
    BY <2>1, <2>3, <2>4 DEF IInv
<1>13. CASE Cancel(s)
  <2>1. bucket' \in [Cells -> [tokens : Nat, burst : Nat]]
    BY <1>0, <1>13, CollectType DEF Cancel
  <2>2. TypeOK' /\ pc'[s] = "idle" /\ at'[s] = 1
    BY <1>0, <1>1, <1>13, <2>1 DEF Cancel, TypeOK
  <2>3. pc[s] # "closed" /\ Depth(s) \in Levels
    BY <1>2, <1>13 DEF Cancel
  <2>4. Placed(s)' /\ Balanced(s)' /\ Holds(s)'
    BY <1>0, <1>1, <1>13, <2>2, <2>3 DEF Cancel, Placed, Balanced, Holds, InCall, Depth, Passed
  <2>5. ASSUME NEW u \in Sessions, u # s
        PROVE  Placed(u)' /\ Holds(u)' /\ Balanced(u)'
    BY <1>0, <1>13, <2>5, Untouched DEF Cancel, IInv, TypeOK
  <2> QED
    BY <2>2, <2>4, <2>5 DEF IInv
<1>14. CASE Take(s)
  <2>1. /\ due'[s] = [j \in Levels |-> IF j <= Depth(s) THEN due[s][j] - out[s] ELSE due[s][j]]
        /\ out'[s] = 0 /\ pc'[s] = "idle" /\ Depth(s)' = Depth(s)
    BY <1>0, <1>14 DEF Take, TypeOK, Depth
  <2>2. due'[s] \in [Levels -> Int]
    BY <1>0, <2>1
  <2>3. due' \in [Sessions -> [Levels -> Int]]
    BY <1>0, <1>14, <2>2 DEF Take, TypeOK
  <2>4. TypeOK'
    BY <1>0, <1>14, <2>3 DEF Take, TypeOK, limiterVars
  <2>5. Placed(s)' /\ Holds(s)'
    BY <1>0, <1>14, <2>1 DEF Take, Placed, Holds, InCall, Depth
  <2>6. pc[s] # "closed" /\ Depth(s) \in Levels
    BY <1>2, <1>14 DEF Take
  <2>7. ASSUME NEW j \in Levels
        PROVE  /\ Passed(s, j) \in Int /\ upRem'[s][j] = upRem[s][j] /\ upRem[s][j] \in Nat
               /\ j <= Depth(s) => Passed(s, j)' = Passed(s, j) - out[s]
    BY <1>0, <1>14, <2>1 DEF Take, Passed
  <2>8. Passed(s, 1)' = out'[s]
    <3>1. 1 <= Depth(s) /\ Passed(s, 1) = out[s]
      BY <1>0, <1>1, <2>6 DEF Balanced
    <3> QED
      BY <3>1, <2>1, <2>7, <1>0, <1>1
  <2>9. ASSUME NEW i \in Levels, NEW j \in Levels, i < j, j <= Depth(s)
        PROVE  Passed(s, i)' + upRem'[s][i] <= Passed(s, j)'
    <3>1. i <= Depth(s)
      <4>1. i \in Nat /\ j \in Nat /\ Depth(s) \in Nat
        BY <2>6, <1>1
      <4> QED
        BY <4>1, <2>9
    <3>2. Passed(s, i) + upRem[s][i] <= Passed(s, j)
      BY <1>0, <2>9 DEF Balanced
    <3> QED
      BY <3>1, <3>2, <2>7, <2>9, <1>0
  <2>10. ASSUME NEW i \in Levels, i < Depth(s)
         PROVE  Passed(s, i + 1)' = Passed(s, i)' + upRem'[s][i]
    <3>1. i + 1 \in Levels /\ i <= Depth(s) /\ i + 1 <= Depth(s)
      BY <2>6, <2>10, <1>1 DEF Levels
    <3>2. Passed(s, i + 1) = Passed(s, i) + upRem[s][i]
      BY <1>0, <2>10 DEF Balanced
    <3> QED
      BY <3>1, <3>2, <2>7, <1>0
  <2>11. Balanced(s)'
    BY <2>1, <2>8, <2>9, <2>10 DEF Balanced
  <2>12. ASSUME NEW u \in Sessions, u # s
         PROVE  Placed(u)' /\ Holds(u)' /\ Balanced(u)'
    BY <1>0, <1>14, <2>12, Untouched DEF Take, IInv, TypeOK
  <2> QED
    BY <2>4, <2>5, <2>11, <2>12 DEF IInv
<1> QED
  BY <1>3, <1>4, <1>5, <1>7, <1>8, <1>9, <1>10, <1>11, <1>12, <1>13, <1>14
     DEF Step, Use

(* A step that changes no variable at all.                                  *)
LEMMA StutterInv == IInv /\ UNCHANGED vars => IInv'
<1> SUFFICES ASSUME IInv, UNCHANGED vars PROVE IInv'
  OBVIOUS
<1>1. \A s \in Sessions : Placed(s)' /\ Holds(s)' /\ Balanced(s)'
  BY Untouched DEF IInv, vars
<1>2. TypeOK'
  BY DEF IInv, TypeOK, vars
<1> QED
  BY <1>1, <1>2 DEF IInv

(* The inductive invariant holds in every behaviour.                        *)
THEOREM Invariance == Spec => []IInv
<1>1. IInv /\ [Next]_vars => IInv'
  BY LimiterStepInv, SessionStepInv, StutterInv DEF Next
<1> QED
  BY InitInv, <1>1, PTL DEF Spec

(* The state of limiters and sessions stays well typed; in particular no
   remainder goes below zero (usize in the code).                           *)
THEOREM TypeCorrect == Spec => []TypeOK
<1>1. IInv => TypeOK
  BY DEF IInv
<1> QED
  BY Invariance, <1>1, PTL

(* What the ledger says of one level: it has admitted all that is returned. *)
LEMMA Covered ==
  ASSUME IInv, NEW s \in Sessions, NEW k \in 1..Depth(s)
  PROVE  due[s][k] >= out[s]
<1>1. pc[s] # "closed"
  BY DEF IInv, Placed, Depth
<1>2. Depth(s) \in Levels
  BY <1>1, ChainLength DEF IInv, Placed, Depth
<1>3. k \in Levels /\ 1 \in Levels /\ k \in Nat /\ k <= Depth(s) /\ k >= 1
  BY <1>2, LimiterAssumption DEF Levels
<1>4. /\ locRem[s][k] \in Nat /\ upRem[s][1] \in Nat /\ out[s] \in Nat
      /\ due[s][k] \in Int
  BY <1>3 DEF IInv, TypeOK
<1>5. Passed(s, 1) = out[s] /\ (1 < k => Passed(s, 1) + upRem[s][1] <= Passed(s, k))
  BY <1>3 DEF IInv, Balanced
<1>6. Passed(s, k) >= out[s]
  BY <1>3, <1>4, <1>5 DEF Passed
<1> QED
  BY <1>4, <1>6 DEF Passed

(* No session of any chain hands out more bytes than each of its limiters
   has admitted to it.                                                      *)
THEOREM NeverOverspends == Spec => []NeverOverspent
<1>1. IInv => NeverOverspent
  BY Covered DEF NeverOverspent
<1> QED
  BY Invariance, <1>1, PTL

(* Every admitted byte is accounted for at every moment, through cancelled
   calls and replaced limits.                                               *)
THEOREM LedgerHolds == Spec => []Ledger
<1>1. ASSUME IInv, NEW s \in Sessions, pc[s] # "closed"
      PROVE  /\ Passed(s, 1) = out[s]
             /\ \A k \in 1..Depth(s) - 1 : Passed(s, k + 1) = Passed(s, k) + upRem[s][k]
  <2>1. Balanced(s)
    BY <1>1 DEF IInv
  <2>2. Depth(s) \in Levels
    BY <1>1, ChainLength DEF IInv, Placed, Depth
  <2>3. \A k \in 1..Depth(s) - 1 : k \in Levels /\ k < Depth(s)
    BY <2>2, LimiterAssumption DEF Levels
  <2> QED
    BY <2>1, <2>3 DEF Balanced
<1>2. IInv => Ledger
  BY <1>1 DEF Ledger
<1> QED
  BY Invariance, <1>2, PTL

(* until_ready always returns at least one byte.                            *)
THEOREM GrantsArePositive == Spec => []GrantPositive
<1>1. IInv => GrantPositive
  BY DEF IInv, Holds, GrantPositive
<1> QED
  BY Invariance, <1>1, PTL
-----------------------------------------------------------------------------
(* A grant is one payment of a weight, or nothing, to an account.           *)
LEMMA GrantPays ==
  ASSUME IInv, NEW s \in Sessions, NEW w \in Weights \cup {0}, Grant(s, w), InCall(s)
  PROVE  Accounts!ShaperNext \/ UNCHANGED <<path, due>>
<1>1. at[s] \in Levels /\ path[s] \in Chains /\ at[s] <= Depth(s)
  BY DEF IInv, TypeOK, Placed, InCall
<1>2. Depth(s) \in Levels /\ at[s] \in 1..Len(path[s])
  <2>1. Depth(s) \in Levels
    BY <1>1, ChainLength DEF Depth
  <2> QED
    BY <2>1, <1>1, LimiterAssumption DEF Levels, Depth
<1>3. due' = [due EXCEPT ![s][at[s]] = @ + w] /\ path' = path
  BY DEF Grant
<1>4. CASE w \in Weights
  <2>1. Accounts!Pay(s, at[s], w)
    BY <1>3 DEF Accounts!Pay
  <2> QED
    BY <1>2, <1>4, <2>1 DEF Accounts!ShaperNext
<1>5. CASE w = 0
  <2>1. due \in [Sessions -> [Levels -> Int]]
    BY DEF IInv, TypeOK
  <2>2. due[s][at[s]] \in Int /\ due[s][at[s]] + w = due[s][at[s]]
    BY <2>1, <1>1, <1>5
  <2>3. due' = due
    BY <1>1, <1>3, <2>1, <2>2
  <2> QED
    BY <1>3, <2>3
<1> QED
  BY <1>4, <1>5

(* The chain of sessions, with its remainders, tokens and waits, implements
   the accounts of Shaper.                                                  *)
THEOREM Implements == Spec => ImplementsShaper
<1>1. Init => Accounts!ShaperInit
  BY DEF Init, Accounts!ShaperInit, Accounts!Empty, Zeros, Levels
<1>2. ASSUME IInv, IInv', [Next]_vars
      PROVE  [Accounts!ShaperNext]_<<path, due>>
  <2>1. ASSUME Reconfigure \/ (\E c \in Cells : Refill(c)) \/ UNCHANGED vars
        PROVE  UNCHANGED <<path, due>>
    BY <2>1 DEF Reconfigure, SetUnlimited, SetLimit, Refill, vars, sessionVars
  <2>2. ASSUME NEW s \in Sessions, Step(s) \/ Admit(s) \/ Use(s)
        PROVE  Accounts!ShaperNext \/ UNCHANGED <<path, due>>
    <3>0. TypeOK /\ Placed(s) /\ Holds(s)
      BY <1>2 DEF IInv
    <3>1. CASE Climb(s) \/ UseUpper(s) \/ Wait(s) \/ Call(s) \/ Cancel(s)
      BY <3>1 DEF Climb, UseUpper, Wait, Call, Cancel
    <3>2. CASE UseLocal(s)
      BY <1>2, <3>2, GrantPays DEF UseLocal, InCall
    <3>3. CASE Unlimited(s)
      <4>1. InCall(s) /\ Grant(s, Pair(s).weight) /\ pc[s] # "closed"
        BY <3>3 DEF Unlimited, NeedsToken, InCall
      <4>2. path[s] \in Chains /\ at[s] <= Depth(s) /\ at[s] \in Levels
        BY <3>0, <4>1 DEF Placed, TypeOK
      <4>3. PICK n \in Levels : path[s] \in [1..n -> Limiters]
        BY <4>2 DEF Chains
      <4>4. n \in Nat /\ at[s] \in Nat /\ at[s] >= 1 /\ Len(path[s]) = n
        BY <4>2, <4>3, LimiterAssumption DEF Levels
      <4>5. path[s][at[s]] \in Limiters
        BY <4>2, <4>3, <4>4 DEF Depth
      <4>6. Pair(s).weight \in Weights
        BY <3>0, <4>5 DEF Pair, TypeOK, Pairs
      <4> QED
        BY <1>2, <4>1, <4>6, GrantPays
    <3>4. CASE Admit(s)
      <4>1. quote[s].weight \in Weights /\ InCall(s) /\ Grant(s, quote[s].weight)
        BY <3>0, <3>4 DEF Admit, InCall, Placed, Pairs
      <4> QED
        BY <1>2, <4>1, GrantPays
    <3>5. CASE \E p \in Chains : NewSession(s, p)
      BY <3>0, <3>5 DEF NewSession, Placed, Accounts!Open, Accounts!ShaperNext
    <3>6. CASE DropSession(s)
      BY <3>6 DEF DropSession, Accounts!Close, Accounts!ShaperNext, Accounts!Empty, Zeros, Levels
    <3>7. CASE Take(s)
      <4>1. path[s] \in Chains /\ pc[s] = "ready" /\ pc[s] # "closed"
        BY <3>0, <3>7 DEF Take, Placed
      <4>2. Depth(s) \in Levels /\ path[s] # <<>>
        BY <4>1, ChainLength DEF Depth
      <4>3. /\ out[s] \in Nat /\ out[s] > 0 /\ 1 \in Levels
            /\ \A k \in Levels : due[s][k] \in Int /\ locRem[s][k] \in Nat /\ upRem[s][k] \in Nat
        BY <3>0, <4>1, LimiterAssumption DEF TypeOK, Holds, Levels
      <4>4. ASSUME NEW k \in 1..Len(path[s]) PROVE out[s] <= due[s][k]
        <5>1. k \in Levels /\ k \in Nat /\ k >= 1 /\ k <= Depth(s)
          BY <4>2, <4>4, LimiterAssumption DEF Levels, Depth
        <5>2. Passed(s, 1) = out[s] /\ (1 < k => Passed(s, 1) + upRem[s][1] <= Passed(s, k))
          BY <1>2, <4>3, <5>1 DEF IInv, Balanced
        <5>3. Passed(s, k) >= out[s]
          BY <4>3, <5>1, <5>2 DEF Passed
        <5> QED
          BY <4>3, <5>1, <5>3 DEF Passed
      <4>5. 1 \in 1..Len(path[s])
        BY <4>2, LimiterAssumption DEF Levels, Depth
      <4>6. out[s] \in 1..due[s][1]
        BY <4>3, <4>4, <4>5
      <4>7. Accounts!Receive(s, out[s])
        BY <3>7, <4>2, <4>4 DEF Take, Depth, Accounts!Receive, Levels
      <4> QED
        BY <4>6, <4>7 DEF Accounts!ShaperNext, Accounts!Amounts
    <3> QED
      BY <2>2, <3>1, <3>2, <3>3, <3>4, <3>5, <3>6, <3>7 DEF Step, Use
  <2> QED
    BY <1>2, <2>1, <2>2 DEF Next
<1> QED
  BY <1>1, <1>2, Invariance, PTL
     DEF Spec, ImplementsShaper, Accounts!ShaperSpec, Accounts!shaperVars
-----------------------------------------------------------------------------
(* A session in a call has passed on nothing of the levels it has climbed,
   and waits only where it has nothing left: what a level holds is then the
   rest of the last token, or of the share of it, that it was given.        *)
Frugal(s) ==
  /\ InCall(s) => \A j \in Levels : j <= at[s] => Passed(s, j) = 0
  /\ pc[s] # "closed" => locRem[s][Depth(s)] = 0
  /\ pc[s] = "wait" => locRem[s][at[s]] = 0
  /\ \A k \in Levels : k <= Depth(s) => \E w \in Weights : due[s][k] <= w

FrugalInv == \A s \in Sessions : Frugal(s)

(* A governor belongs to at most one limiter; whoever holds or awaits one
   keeps it alive; and only waiting sessions remember a pair.               *)
OwnGovernor ==
  \A l, m \in Limiters :
    l # m /\ limiter[l].cell # NoCell => limiter[l].cell # limiter[m].cell

HoldersLive ==
  \A l \in Limiters : limiter[l].cell # NoCell => bucket[limiter[l].cell].burst > 0

WaitersLive ==
  \A s \in Sessions :
    /\ pc[s] = "wait" => quote[s].cell \in Cells /\ bucket[quote[s].cell].burst > 0
    /\ pc[s] # "wait" => quote[s] = NoQuote

PairInv == OwnGovernor /\ HoldersLive /\ WaitersLive /\ QuotesPaired
-----------------------------------------------------------------------------
(* What is known where a session is open.                                   *)
LEMMA Standing ==
  ASSUME IInv, NEW s \in Sessions
  PROVE  /\ 1 \in Levels /\ \A j \in Levels : j \in Nat /\ j >= 1
         /\ due[s] \in [Levels -> Int] /\ locRem[s] \in [Levels -> Nat]
         /\ upRem[s] \in [Levels -> Nat] /\ at[s] \in Levels /\ out[s] \in Nat
         /\ pc[s] = "closed" => Depth(s) = 0
         /\ pc[s] # "closed" =>
              /\ Depth(s) \in Levels /\ at[s] <= Depth(s)
              /\ path[s][at[s]] \in Limiters /\ Pair(s) \in Pairs
<1>1. 1 \in Levels /\ \A j \in Levels : j \in Nat /\ j >= 1
  BY LimiterAssumption DEF Levels
<1>2. /\ due[s] \in [Levels -> Int] /\ locRem[s] \in [Levels -> Nat]
      /\ upRem[s] \in [Levels -> Nat] /\ at[s] \in Levels /\ out[s] \in Nat
      /\ limiter \in [Limiters -> Pairs] /\ Placed(s)
  BY DEF IInv, TypeOK
<1>3. pc[s] = "closed" => Depth(s) = 0
  BY <1>2 DEF Placed, Depth
<1>4. ASSUME pc[s] # "closed"
      PROVE  /\ Depth(s) \in Levels /\ at[s] <= Depth(s)
             /\ path[s][at[s]] \in Limiters /\ Pair(s) \in Pairs
  <2>1. path[s] \in Chains /\ at[s] <= Depth(s)
    BY <1>2, <1>4 DEF Placed
  <2>2. PICK n \in Levels : path[s] \in [1..n -> Limiters]
    BY <2>1 DEF Chains
  <2>3. Len(path[s]) = n /\ n \in Nat /\ at[s] \in Nat /\ at[s] >= 1
    BY <1>1, <1>2, <2>2
  <2>4. path[s][at[s]] \in Limiters
    BY <2>1, <2>2, <2>3 DEF Depth
  <2> QED
    BY <1>2, <2>1, <2>2, <2>3, <2>4 DEF Pair, Depth
<1> QED
  BY <1>1, <1>2, <1>3, <1>4

(* A step that changes nothing of a session leaves it frugal.               *)
LEMMA UntouchedFrugal ==
  ASSUME NEW s \in Sessions, Frugal(s), path'[s] = path[s],
         locRem'[s] = locRem[s], pc'[s] = pc[s], at'[s] = at[s], due'[s] = due[s]
  PROVE  Frugal(s)'
BY DEF Frugal, Depth, InCall, Passed

(* A grant adds to a level's account only the token it has just been given,
   with nothing of an older one left, and empties the root.                 *)
LEMMA GrantFrugal ==
  ASSUME IInv, NEW s \in Sessions, Frugal(s), InCall(s), NEW w \in Nat, Grant(s, w),
         w = 0 \/ (w \in Weights /\ locRem[s][at[s]] = 0)
  PROVE  Frugal(s)'
<1> DEFINE k == at[s]
           loc == locRem[s][k] + w
           r == Returned(s, k, loc)
<1>1. /\ \A j \in Levels : j \in Nat /\ j >= 1
      /\ due[s] \in [Levels -> Int] /\ locRem[s] \in [Levels -> Nat]
      /\ k \in Levels /\ Depth(s) \in Levels /\ k <= Depth(s)
      /\ pc[s] # "closed"
  BY Standing DEF InCall
<1>2. /\ k = Depth(s) => r = loc
      /\ loc \in Nat
  BY <1>1 DEF Returned
<1>3. /\ locRem'[s] = [locRem[s] EXCEPT ![k] = loc - r]
      /\ due'[s] = [due[s] EXCEPT ![k] = due[s][k] + w]
      /\ Depth(s)' = Depth(s)
  <2>1. DOMAIN locRem = Sessions /\ DOMAIN due = Sessions
    BY DEF IInv, TypeOK
  <2>2. locRem' = [locRem EXCEPT ![s] = [locRem[s] EXCEPT ![k] = loc - r]]
    BY DEF Grant
  <2>3. due' = [due EXCEPT ![s] = [due[s] EXCEPT ![k] = due[s][k] + w]]
    BY DEF Grant
  <2>4. Depth(s)' = Depth(s)
    BY DEF Grant, Depth
  <2> HIDE DEF k, loc, r
  <2> QED
    BY <2>1, <2>2, <2>3, <2>4
<1>4. /\ k = 1 => pc'[s] = "ready"
      /\ k # 1 => pc'[s] = "local" /\ at'[s] = k - 1
  <2>1. DOMAIN pc = Sessions /\ DOMAIN at = Sessions
    BY DEF IInv, TypeOK
  <2>2. CASE k = 1
    BY <2>1, <2>2 DEF Grant
  <2>3. CASE k # 1
    BY <2>1, <2>3 DEF Grant
  <2> QED
    BY <2>2, <2>3
<1>5. \A j \in Levels : j <= k => Passed(s, j) = 0
  BY DEF Frugal
<1> HIDE DEF loc, r
<1>6. ASSUME InCall(s)', NEW j \in Levels, j <= at'[s]
      PROVE  Passed(s, j)' = 0
  <2>1. k # 1 /\ at'[s] = k - 1
    BY <1>4, <1>6 DEF InCall
  <2>2. j # k /\ j <= k
    BY <1>1, <1>6, <2>1
  <2> QED
    BY <1>1, <1>3, <1>5, <2>2 DEF Passed
<1>7. locRem'[s][Depth(s)] = 0
  <2>1. CASE k = Depth(s)
    BY <1>1, <1>2, <1>3, <2>1
  <2>2. CASE k # Depth(s)
    BY <1>1, <1>3, <2>2 DEF Frugal
  <2> QED
    BY <2>1, <2>2
<1>8. ASSUME NEW j \in Levels, j <= Depth(s)
      PROVE  \E v \in Weights : due'[s][j] <= v
  <2>1. CASE j # k \/ w = 0
    <3>1. due'[s][j] = due[s][j]
      BY <1>1, <1>3, <2>1
    <3> QED
      BY <3>1, <1>8 DEF Frugal
  <2>2. CASE j = k /\ w \in Weights /\ locRem[s][k] = 0
    <3>1. Passed(s, k) = 0
      BY <1>1, <1>5
    <3>2. due[s][k] = 0
      BY <3>1, <2>2, <1>1 DEF Passed
    <3>3. due'[s][j] = w
      BY <3>2, <2>2, <1>1, <1>3
    <3> QED
      BY <3>3, <2>2
  <2> QED
    BY <2>1, <2>2
<1>9. pc'[s] # "wait"
  BY <1>4
<1> QED
  BY <1>3, <1>6, <1>7, <1>8, <1>9 DEF Frugal

(* A level that needs a token has nothing of its own left.                  *)
LEMMA NothingLeft ==
  ASSUME NEW s \in Sessions, Frugal(s), NeedsToken(s)
  PROVE  locRem[s][at[s]] = 0 /\ InCall(s)
BY DEF Frugal, NeedsToken, InCall
-----------------------------------------------------------------------------
(* Every step of a session leaves it frugal.                                *)
LEMMA SessionFrugal ==
  ASSUME IInv, NEW s \in Sessions, Frugal(s), Step(s) \/ Admit(s) \/ Use(s)
  PROVE  Frugal(s)'
<1>0. /\ 1 \in Levels /\ \A j \in Levels : j \in Nat /\ j >= 1
      /\ due[s] \in [Levels -> Int] /\ locRem[s] \in [Levels -> Nat]
      /\ upRem[s] \in [Levels -> Nat] /\ at[s] \in Levels /\ out[s] \in Nat
      /\ Placed(s) /\ Holds(s) /\ Balanced(s) /\ TypeOK
  BY Standing DEF IInv
<1>1. pc[s] # "closed" => Depth(s) \in Levels /\ at[s] <= Depth(s)
  BY Standing
<1>2. Weights \subseteq Nat
  BY LimiterAssumption
<1>3. CASE Climb(s)
  <2>1. /\ at'[s] = at[s] + 1 /\ at[s] < Depth(s) /\ upRem[s][at[s]] = 0
        /\ pc[s] = "enter" /\ pc'[s] = "enter" /\ UNCHANGED <<path, locRem, due>>
    BY <1>0, <1>3 DEF Climb, TypeOK
  <2>2. Passed(s, at[s]) = 0 /\ Passed(s, at[s] + 1) = Passed(s, at[s]) + upRem[s][at[s]]
    BY <1>0, <2>1 DEF Frugal, InCall, Balanced
  <2>3. ASSUME NEW j \in Levels, j <= at[s] + 1 PROVE Passed(s, j) = 0
    <3>1. j <= at[s] \/ j = at[s] + 1
      BY <1>0, <2>3
    <3> QED
      BY <3>1, <2>1, <2>2 DEF Frugal, InCall
  <2> QED
    BY <2>1, <2>3 DEF Frugal, InCall, Depth, Passed
<1>4. CASE UseUpper(s)
  BY <1>0, <1>4 DEF UseUpper, TypeOK, Frugal, InCall, Depth, Passed
<1>5. CASE UseLocal(s)
  BY <1>5, GrantFrugal DEF UseLocal, InCall
<1>6. CASE Unlimited(s)
  <2>1. NeedsToken(s) /\ Grant(s, Pair(s).weight)
    BY <1>6 DEF Unlimited
  <2>2. Pair(s).weight \in Weights
    BY <2>1, Standing DEF NeedsToken, Pairs
  <2>3. Pair(s).weight \in Nat
    BY <1>2, <2>2
  <2> HIDE DEF Pair
  <2> QED
    BY <2>1, <2>2, <2>3, NothingLeft, GrantFrugal
<1>7. CASE Wait(s)
  <2>1. NeedsToken(s) /\ pc'[s] = "wait" /\ UNCHANGED <<path, locRem, at, due>>
    BY <1>0, <1>7 DEF Wait, TypeOK
  <2>2. locRem[s][at[s]] = 0 /\ InCall(s)
    BY <2>1, NothingLeft
  <2>3. pc[s] # "closed"
    BY <2>2 DEF InCall
  <2> QED
    BY <2>1, <2>2, <2>3 DEF Frugal, InCall, Depth, Passed
<1>8. CASE Admit(s)
  <2>1. pc[s] = "wait" /\ Grant(s, quote[s].weight)
    BY <1>8 DEF Admit
  <2>2. quote[s].weight \in Weights /\ locRem[s][at[s]] = 0 /\ InCall(s)
    BY <1>0, <2>1 DEF Placed, Pairs, Frugal, InCall
  <2>3. quote[s].weight \in Nat
    BY <1>2, <2>2
  <2> QED
    BY <2>1, <2>2, <2>3, GrantFrugal
<1>9. CASE \E p \in Chains : NewSession(s, p)
  <2>1. PICK p \in Chains : NewSession(s, p)
    BY <1>9
  <2>2. /\ pc'[s] = "idle" /\ path'[s] = p /\ due'[s] = Zeros /\ locRem'[s] = Zeros
        /\ Zeros = [j \in Levels |-> 0]
    BY <1>0, <2>1 DEF NewSession, TypeOK, Holds, Zeros
  <2>3. Depth(s)' \in Levels
    BY <2>2, ChainLength DEF Depth
  <2>4. \E w \in Weights : 0 <= w
    <3>1. PICK n \in Levels : p \in [1..n -> Limiters]
      BY DEF Chains
    <3>2. 1 \in 1..n
      BY <1>0
    <3>3. limiter[p[1]].weight \in Weights
      BY <1>0, <3>1, <3>2 DEF TypeOK, Pairs
    <3>4. limiter[p[1]].weight >= 0
      BY <1>2, <3>3
    <3> QED
      BY <3>3, <3>4
  <2> QED
    BY <2>2, <2>3, <2>4 DEF Frugal, InCall
<1>10. CASE DropSession(s)
  <2>1. pc'[s] = "closed" /\ Depth(s)' = 0
    BY <1>0, <1>10 DEF DropSession, TypeOK, Depth
  <2>2. \A k \in Levels : ~(k <= 0)
    BY <1>0
  <2> QED
    BY <2>1, <2>2 DEF Frugal, InCall
<1>11. CASE Call(s)
  <2>1. pc[s] = "idle" /\ pc'[s] = "enter" /\ UNCHANGED <<path, locRem, at, due>>
    BY <1>0, <1>11 DEF Call, TypeOK
  <2>2. at[s] = 1 /\ Passed(s, 1) = 0
    BY <1>0, <2>1 DEF Placed, Balanced, Holds
  <2>3. ASSUME NEW j \in Levels, j <= at[s] PROVE Passed(s, j) = 0
    <3>1. j = 1
      BY <1>0, <2>2, <2>3
    <3> QED
      BY <3>1, <2>2
  <2> QED
    BY <2>1, <2>3 DEF Frugal, InCall, Depth, Passed
<1>12. CASE Cancel(s)
  BY <1>0, <1>12 DEF Cancel, TypeOK, Frugal, InCall, Depth
<1>13. CASE Take(s)
  <2>1. /\ due'[s] = [j \in Levels |-> IF j <= Depth(s) THEN due[s][j] - out[s] ELSE due[s][j]]
        /\ pc[s] = "ready" /\ pc'[s] = "idle" /\ UNCHANGED <<path, locRem>>
    BY <1>0, <1>13 DEF Take, TypeOK
  <2>2. ASSUME NEW k \in Levels, k <= Depth(s)
        PROVE  \E w \in Weights : due'[s][k] <= w
    <3>1. PICK w \in Weights : due[s][k] <= w
      BY <2>2 DEF Frugal
    <3>2. due'[s][k] <= w
      BY <1>0, <1>2, <2>1, <2>2, <3>1
    <3> QED
      BY <3>2
  <2> QED
    BY <2>1, <2>2 DEF Frugal, InCall, Depth
<1> QED
  BY <1>3, <1>4, <1>5, <1>6, <1>7, <1>8, <1>9, <1>10, <1>11, <1>12, <1>13 DEF Step, Use

(* A step of one session leaves the others as they are.                     *)
LEMMA OthersUntouched ==
  ASSUME IInv, NEW s \in Sessions, Step(s) \/ Admit(s) \/ Use(s),
         NEW t \in Sessions, t # s
  PROVE  /\ path'[t] = path[t] /\ locRem'[t] = locRem[t] /\ pc'[t] = pc[t]
         /\ at'[t] = at[t] /\ due'[t] = due[t]
         /\ quote'[t] = quote[t] /\ out'[t] = out[t]
<1>0. TypeOK
  BY DEF IInv
<1>1. ASSUME NEW w, Grant(s, w)
      PROVE  /\ path'[t] = path[t] /\ locRem'[t] = locRem[t] /\ pc'[t] = pc[t]
             /\ at'[t] = at[t] /\ due'[t] = due[t] /\ out'[t] = out[t]
  BY <1>0, <1>1 DEF Grant, TypeOK
<1>2. CASE UseLocal(s) \/ Unlimited(s) \/ Admit(s)
  BY <1>0, <1>1, <1>2 DEF UseLocal, Unlimited, Admit, TypeOK
<1>3. CASE Climb(s) \/ UseUpper(s) \/ Wait(s)
  BY <1>0, <1>3 DEF Climb, UseUpper, Wait, TypeOK
<1>4. CASE Call(s) \/ Cancel(s) \/ Take(s)
  BY <1>0, <1>4 DEF Call, Cancel, Take, TypeOK
<1>5. CASE DropSession(s) \/ \E p \in Chains : NewSession(s, p)
  BY <1>0, <1>5 DEF DropSession, NewSession, TypeOK
<1> QED
  BY <1>2, <1>3, <1>4, <1>5 DEF Step, Use

(* Sessions stay frugal, whatever order their calls, cancellations and
   set_limit come in.                                                       *)
THEOREM Frugality == Spec => []FrugalInv
<1>1. Init => FrugalInv
  <2>1. \A k \in Levels : ~(k <= 0)
    BY LimiterAssumption DEF Levels
  <2> QED
    BY <2>1 DEF Init, FrugalInv, Frugal, InCall, Depth
<1>2. ASSUME IInv, FrugalInv, [Next]_vars PROVE FrugalInv'
  <2>1. ASSUME Reconfigure \/ (\E c \in Cells : Refill(c)) \/ UNCHANGED vars
        PROVE  FrugalInv'
    <3>1. UNCHANGED sessionVars
      BY <2>1 DEF Reconfigure, SetUnlimited, SetLimit, Refill, vars, sessionVars
    <3> QED
      BY <1>2, <3>1, UntouchedFrugal DEF FrugalInv, sessionVars
  <2>2. ASSUME NEW s \in Sessions, Step(s) \/ Admit(s) \/ Use(s)
        PROVE  FrugalInv'
    <3>1. Frugal(s)'
      BY <1>2, <2>2, SessionFrugal DEF FrugalInv
    <3>2. ASSUME NEW t \in Sessions, t # s PROVE Frugal(t)'
      BY <1>2, <2>2, <3>2, OthersUntouched, UntouchedFrugal DEF FrugalInv
    <3> QED
      BY <3>1, <3>2 DEF FrugalInv
  <2> QED
    BY <1>2, <2>1, <2>2 DEF Next
<1> QED
  BY Invariance, <1>1, <1>2, PTL DEF Spec

(* A session hoards nothing: of every limiter of its chain, however long, it
   has never received more that its caller has not than one token is worth,
   through cancelled calls and changed limits.                              *)
THEOREM HoardsNothing == Spec => []NoHoarding
<1>1. ASSUME IInv, FrugalInv, NEW s \in Sessions, NEW k \in 1..Depth(s)
      PROVE  \E w \in Weights : due[s][k] <= w
  <2>1. Depth(s) \in Levels
    BY <1>1, Standing
  <2>2. k \in Levels /\ k <= Depth(s)
    BY <2>1, LimiterAssumption DEF Levels
  <2> QED
    BY <1>1, <2>2 DEF FrugalInv, Frugal
<1>2. IInv /\ FrugalInv => NoHoarding
  BY <1>1 DEF NoHoarding
<1> QED
  BY Invariance, Frugality, <1>2, PTL
-----------------------------------------------------------------------------
(* A step that leaves limiters, buckets and quotes alone, and lets nobody
   start or stop waiting, keeps the pairs as they are.                      *)
LEMMA QuietPairs ==
  ASSUME PairInv, UNCHANGED <<limiter, bucket, quote>>,
         \A t \in Sessions : pc'[t] = "wait" <=> pc[t] = "wait"
  PROVE  PairInv'
BY DEF PairInv, OwnGovernor, HoldersLive, WaitersLive, QuotesPaired

(* A governor that is still referred to keeps its bucket.                   *)
LEMMA CollectKeeps ==
  ASSUME NEW b, NEW lim, NEW quo, NEW c \in Cells, Referenced(c, lim, quo)
  PROVE  Collect(b, lim, quo)[c] = b[c]
BY DEF Collect

(* A session stops waiting, with a token or without: buckets keep their
   sizes while someone refers to them.                                      *)
LEMMA LeavePairs ==
  ASSUME PairInv, TypeOK, NEW s \in Sessions, NEW b,
         \A c \in Cells : b[c].burst = bucket[c].burst,
         UNCHANGED limiter, quote' = [quote EXCEPT ![s] = NoQuote],
         bucket' = Collect(b, limiter, quote'),
         pc'[s] # "wait", \A t \in Sessions \ {s} : pc'[t] = pc[t]
  PROVE  PairInv'
<1>1. /\ quote'[s] = NoQuote /\ \A t \in Sessions \ {s} : quote'[t] = quote[t]
      /\ \A l \in Limiters : limiter[l].cell \in Cells \cup {NoCell}
  BY DEF TypeOK, Pairs
<1>2. OwnGovernor'
  BY DEF PairInv, OwnGovernor
<1>3. ASSUME NEW l \in Limiters, limiter[l].cell # NoCell
      PROVE  bucket'[limiter[l].cell].burst > 0
  <2>1. limiter[l].cell \in Cells /\ Referenced(limiter[l].cell, limiter, quote')
    BY <1>1, <1>3 DEF Referenced
  <2>2. bucket'[limiter[l].cell] = b[limiter[l].cell]
    BY <2>1, CollectKeeps
  <2> QED
    BY <1>3, <2>1, <2>2 DEF PairInv, HoldersLive
<1>4. ASSUME NEW t \in Sessions, pc'[t] = "wait"
      PROVE  quote'[t].cell \in Cells /\ bucket'[quote'[t].cell].burst > 0
  <2>1. t # s /\ pc[t] = "wait" /\ quote'[t] = quote[t]
    BY <1>1, <1>4
  <2>2. quote[t].cell \in Cells /\ bucket[quote[t].cell].burst > 0
    BY <2>1 DEF PairInv, WaitersLive
  <2>3. Referenced(quote[t].cell, limiter, quote')
    BY <2>1 DEF Referenced
  <2>4. bucket'[quote[t].cell] = b[quote[t].cell]
    BY <2>2, <2>3, CollectKeeps
  <2> QED
    BY <2>1, <2>2, <2>4
<1>5. \A t \in Sessions : pc'[t] # "wait" => quote'[t] = NoQuote
  BY <1>1 DEF PairInv, WaitersLive
<1>6. QuotesPaired'
  <2>1. \A t \in Sessions : pc'[t] = "wait" => pc[t] = "wait" /\ quote'[t] = quote[t]
    BY <1>1
  <2> QED
    BY <2>1 DEF PairInv, QuotesPaired
<1> QED
  BY <1>2, <1>3, <1>4, <1>5, <1>6 DEF PairInv, HoldersLive, WaitersLive

(* until_ready clones weight and governor together, so a new waiter agrees
   with all who wait for that governor and with the limiter that holds it.  *)
LEMMA WaitPairs ==
  ASSUME IInv, PairInv, NEW s \in Sessions, Wait(s)
  PROVE  PairInv'
<1>1. /\ limiter \in [Limiters -> Pairs] /\ quote \in [Sessions -> Pairs \cup {NoQuote}]
      /\ DOMAIN pc = Sessions
  BY DEF IInv, TypeOK
<1>2. path[s][at[s]] \in Limiters
  BY Standing DEF Wait, NeedsToken
<1>3. PICK m \in Limiters : Pair(s) = limiter[m]
  BY <1>2 DEF Pair
<1>4. /\ quote'[s] = limiter[m] /\ limiter[m].cell # NoCell /\ limiter[m].cell \in Cells
      /\ pc'[s] = "wait" /\ UNCHANGED <<limiter, bucket>>
      /\ \A t \in Sessions \ {s} : quote'[t] = quote[t] /\ pc'[t] = pc[t]
  BY <1>1, <1>3 DEF Wait, limiterVars, Pairs
<1>5. OwnGovernor' /\ HoldersLive'
  BY <1>4 DEF PairInv, OwnGovernor, HoldersLive
<1>6. WaitersLive'
  BY <1>4 DEF PairInv, HoldersLive, WaitersLive
<1>7. \A l \in Limiters : limiter[l].cell = limiter[m].cell => limiter[l] = limiter[m]
  BY <1>4 DEF PairInv, OwnGovernor
<1>8. \A t \in Sessions \ {s} :
        pc[t] = "wait" /\ quote[t].cell = limiter[m].cell => quote[t] = limiter[m]
  BY DEF PairInv, QuotesPaired
<1>9. QuotesPaired'
  <2>1. ASSUME NEW t \in Sessions, pc'[t] = "wait",
               NEW u \in Sessions, pc'[u] = "wait", quote'[u].cell = quote'[t].cell
        PROVE  quote'[u] = quote'[t]
    <3>1. CASE t = s \/ u = s
      BY <1>4, <1>8, <2>1, <3>1
    <3>2. CASE t # s /\ u # s
      BY <1>4, <2>1, <3>2 DEF PairInv, QuotesPaired
    <3> QED
      BY <3>1, <3>2
  <2>2. ASSUME NEW t \in Sessions, pc'[t] = "wait",
               NEW l \in Limiters, limiter[l].cell = quote'[t].cell
        PROVE  limiter[l] = quote'[t]
    BY <1>4, <1>7, <2>2 DEF PairInv, QuotesPaired
  <2> QED
    BY <1>4, <2>1, <2>2 DEF QuotesPaired
<1> QED
  BY <1>5, <1>6, <1>9 DEF PairInv

(* set_limit takes a governor nobody refers to, or none, and stores it with
   its weight.                                                              *)
LEMMA ReconfigurePairs ==
  ASSUME IInv, PairInv, Reconfigure
  PROVE  PairInv'
<1>0. /\ limiter \in [Limiters -> Pairs] /\ DOMAIN bucket = Cells
      /\ \A c \in Limiters : limiter[c].cell \in Cells \cup {NoCell}
      /\ NoCell \notin Cells /\ Bursts \subseteq Nat \ {0}
  BY LimiterAssumption DEF IInv, TypeOK, Pairs
<1>1. ASSUME NEW l \in Limiters, NEW w \in Weights, SetUnlimited(l, w)
      PROVE  PairInv'
  <2>1. /\ limiter'[l] = [weight |-> w, cell |-> NoCell]
        /\ \A m \in Limiters \ {l} : limiter'[m] = limiter[m]
        /\ quote' = quote /\ pc' = pc
        /\ bucket' = Collect(bucket, limiter', quote)
    BY <1>0, <1>1 DEF SetUnlimited, sessionVars
  <2>2. OwnGovernor'
    BY <2>1 DEF PairInv, OwnGovernor
  <2>3. HoldersLive'
    <3>1. ASSUME NEW m \in Limiters, limiter'[m].cell # NoCell
          PROVE  bucket'[limiter'[m].cell].burst > 0
      <4>1. m # l /\ limiter'[m] = limiter[m]
        BY <2>1, <3>1
      <4>2. limiter[m].cell \in Cells /\ Referenced(limiter[m].cell, limiter', quote)
        BY <1>0, <3>1, <4>1 DEF Referenced
      <4>3. bucket'[limiter[m].cell] = bucket[limiter[m].cell]
        BY <2>1, <4>2, CollectKeeps
      <4> QED
        BY <3>1, <4>1, <4>3 DEF PairInv, HoldersLive
    <3> QED
      BY <3>1 DEF HoldersLive
  <2>4. WaitersLive'
    <3>1. ASSUME NEW t \in Sessions, pc[t] = "wait"
          PROVE  quote[t].cell \in Cells /\ bucket'[quote[t].cell].burst > 0
      <4>1. quote[t].cell \in Cells /\ bucket[quote[t].cell].burst > 0
        BY <3>1 DEF PairInv, WaitersLive
      <4>2. Referenced(quote[t].cell, limiter', quote)
        BY DEF Referenced
      <4> QED
        BY <2>1, <4>1, <4>2, CollectKeeps
    <3> QED
      BY <2>1, <3>1 DEF PairInv, WaitersLive
  <2>5. QuotesPaired'
    <3>1. \A t \in Sessions : pc[t] = "wait" => quote[t].cell # NoCell
      BY <1>0 DEF PairInv, WaitersLive
    <3> QED
      BY <2>1, <3>1 DEF PairInv, QuotesPaired
  <2> QED
    BY <2>2, <2>3, <2>4, <2>5 DEF PairInv
<1>2. ASSUME NEW l \in Limiters, NEW w \in Weights, NEW c \in Cells, NEW b \in Bursts,
             SetLimit(l, w, c, b)
      PROVE  PairInv'
  <2> DEFINE fresh == [bucket EXCEPT ![c] = [tokens |-> b, burst |-> b]]
  <2>1. /\ limiter'[l] = [weight |-> w, cell |-> c]
        /\ \A m \in Limiters \ {l} : limiter'[m] = limiter[m]
        /\ quote' = quote /\ pc' = pc
        /\ bucket' = Collect(fresh, limiter', quote)
    BY <1>0, <1>2 DEF SetLimit, sessionVars
  <2>2. /\ fresh[c].burst = b /\ b > 0
        /\ \A d \in Cells \ {c} : fresh[d] = bucket[d]
    BY <1>0
  <2>3. ~(bucket[c].burst > 0)
    BY <1>2 DEF SetLimit, NoGov
  <2>4. \A m \in Limiters : limiter[m].cell # c
    BY <1>0, <2>3 DEF PairInv, HoldersLive
  <2>5. \A t \in Sessions : pc[t] = "wait" => quote[t].cell \in Cells \ {c}
    BY <2>3 DEF PairInv, WaitersLive
  <2> HIDE DEF fresh
  <2>6. OwnGovernor'
    BY <2>1, <2>4 DEF PairInv, OwnGovernor
  <2>7. HoldersLive'
    <3>1. ASSUME NEW m \in Limiters, limiter'[m].cell # NoCell
          PROVE  bucket'[limiter'[m].cell].burst > 0
      <4>1. limiter'[m].cell \in Cells
        BY <1>0, <2>1, <3>1
      <4>2. Referenced(limiter'[m].cell, limiter', quote)
        BY DEF Referenced
      <4>3. bucket'[limiter'[m].cell] = fresh[limiter'[m].cell]
        BY <2>1, <4>1, <4>2, CollectKeeps
      <4>4. CASE m = l
        BY <2>1, <2>2, <4>3, <4>4
      <4>5. CASE m # l
        BY <2>1, <2>2, <2>4, <3>1, <4>1, <4>3, <4>5 DEF PairInv, HoldersLive
      <4> QED
        BY <4>4, <4>5
    <3> QED
      BY <3>1 DEF HoldersLive
  <2>8. WaitersLive'
    <3>1. ASSUME NEW t \in Sessions, pc[t] = "wait"
          PROVE  quote[t].cell \in Cells /\ bucket'[quote[t].cell].burst > 0
      <4>1. Referenced(quote[t].cell, limiter', quote)
        BY DEF Referenced
      <4>2. bucket'[quote[t].cell] = bucket[quote[t].cell]
        BY <2>1, <2>2, <2>5, <3>1, <4>1, CollectKeeps
      <4> QED
        BY <3>1, <4>2 DEF PairInv, WaitersLive
    <3> QED
      BY <2>1, <3>1 DEF PairInv, WaitersLive
  <2>9. QuotesPaired'
    BY <2>1, <2>5 DEF PairInv, QuotesPaired
  <2> QED
    BY <2>6, <2>7, <2>8, <2>9 DEF PairInv
<1> QED
  BY <1>1, <1>2 DEF Reconfigure

(* Each step of a session keeps the pairs.                                  *)
LEMMA SessionPairs ==
  ASSUME IInv, PairInv, NEW s \in Sessions, Step(s) \/ Admit(s) \/ Use(s)
  PROVE  PairInv'
<1>0. TypeOK /\ DOMAIN pc = Sessions
  BY DEF IInv, TypeOK
<1>1. ASSUME NEW w, Grant(s, w)
      PROVE  pc'[s] # "wait" /\ \A t \in Sessions \ {s} : pc'[t] = pc[t]
  BY <1>0, <1>1 DEF Grant
<1>2. CASE UseLocal(s) \/ Unlimited(s)
  <2>1. pc[s] # "wait" /\ pc'[s] # "wait" /\ UNCHANGED <<limiter, bucket, quote>>
    BY <1>1, <1>2 DEF UseLocal, Unlimited, NeedsToken, limiterVars
  <2>2. \A t \in Sessions \ {s} : pc'[t] = pc[t]
    BY <1>1, <1>2 DEF UseLocal, Unlimited
  <2> QED
    BY <2>1, <2>2, QuietPairs
<1>3. CASE Climb(s) \/ UseUpper(s) \/ Call(s) \/ Take(s)
  BY <1>0, <1>3, QuietPairs DEF Climb, UseUpper, Call, Take, limiterVars
<1>4. CASE DropSession(s) \/ \E p \in Chains : NewSession(s, p)
  BY <1>0, <1>4, QuietPairs DEF DropSession, NewSession, limiterVars
<1>5. CASE Wait(s)
  BY <1>5, WaitPairs
<1>6. CASE Admit(s)
  <2> DEFINE b == [bucket EXCEPT ![quote[s].cell].tokens = @ - 1]
  <2>1. \A c \in Cells : b[c].burst = bucket[c].burst
    BY <1>0 DEF TypeOK
  <2>2. /\ UNCHANGED limiter /\ quote' = [quote EXCEPT ![s] = NoQuote]
        /\ bucket' = Collect(b, limiter, quote')
    BY <1>6 DEF Admit
  <2>3. pc'[s] # "wait" /\ \A t \in Sessions \ {s} : pc'[t] = pc[t]
    BY <1>1, <1>6 DEF Admit
  <2> HIDE DEF b
  <2> QED
    BY <1>0, <2>1, <2>2, <2>3, LeavePairs
<1>7. CASE Cancel(s)
  <2>1. /\ UNCHANGED limiter /\ quote' = [quote EXCEPT ![s] = NoQuote]
        /\ bucket' = Collect(bucket, limiter, quote') /\ pc'[s] = "idle"
        /\ \A t \in Sessions \ {s} : pc'[t] = pc[t]
    BY <1>0, <1>7 DEF Cancel
  <2> QED
    BY <1>0, <2>1, LeavePairs
<1> QED
  BY <1>2, <1>3, <1>4, <1>5, <1>6, <1>7 DEF Step, Use

(* Governors stay with their owners and alive while anyone waits for them,
   and the pairs agree.                                                     *)
THEOREM PairInvariance == Spec => []PairInv
<1>1. Init => PairInv
  <2> SUFFICES ASSUME Init PROVE PairInv
    OBVIOUS
  <2>1. OwnGovernor
    BY DEF Init, OwnGovernor
  <2>2. HoldersLive
    <3>1. PICK b \in [Cells -> Bursts] :
                 bucket = [c \in Cells |->
                             IF \E l \in Limiters : limiter[l].cell = c
                             THEN [tokens |-> b[c], burst |-> b[c]] ELSE NoGov]
      BY DEF Init
    <3>2. ASSUME NEW l \in Limiters, limiter[l].cell # NoCell
          PROVE  bucket[limiter[l].cell].burst > 0
      <4>1. limiter[l].cell \in Cells
        BY <3>2 DEF Init, Pairs
      <4>2. bucket[limiter[l].cell].burst = b[limiter[l].cell]
        BY <3>1, <4>1
      <4>3. b[limiter[l].cell] \in Nat \ {0}
        BY <4>1, LimiterAssumption
      <4> QED
        BY <4>2, <4>3
    <3> QED
      BY <3>2 DEF HoldersLive
  <2>3. WaitersLive /\ QuotesPaired
    BY DEF Init, WaitersLive, QuotesPaired
  <2> QED
    BY <2>1, <2>2, <2>3 DEF PairInv
<1>2. ASSUME IInv, PairInv, [Next]_vars PROVE PairInv'
  <2>1. CASE Reconfigure
    BY <1>2, <2>1, ReconfigurePairs
  <2>2. ASSUME NEW c \in Cells, Refill(c) PROVE PairInv'
    <3>1. /\ UNCHANGED <<limiter, quote, pc>> /\ DOMAIN bucket = Cells
          /\ bucket' = [bucket EXCEPT ![c].tokens = @ + 1]
      BY <1>2, <2>2 DEF Refill, sessionVars, IInv, TypeOK
    <3>2. \A d \in Cells : bucket'[d].burst = bucket[d].burst
      BY <1>2, <3>1 DEF IInv, TypeOK
    <3>3. \A l \in Limiters : limiter[l].cell \in Cells \cup {NoCell}
      BY <1>2 DEF IInv, TypeOK, Pairs
    <3> QED
      BY <1>2, <3>1, <3>2, <3>3
         DEF PairInv, OwnGovernor, HoldersLive, WaitersLive, QuotesPaired
  <2>3. ASSUME NEW s \in Sessions, Step(s) \/ Admit(s) \/ Use(s) PROVE PairInv'
    BY <1>2, <2>3, SessionPairs
  <2>4. CASE UNCHANGED vars
    BY <1>2, <2>4, QuietPairs DEF vars
  <2> QED
    BY <1>2, <2>1, <2>2, <2>3, <2>4 DEF Next
<1> QED
  BY Invariance, <1>1, <1>2, PTL DEF Spec

(* All who wait for a governor agree on what its tokens are worth, and agree
   with the limiter that holds it, however many limiters and sessions there
   are and in whatever order they are reconfigured and cancelled.           *)
THEOREM PairsAgree == Spec => []QuotesPaired
<1>1. PairInv => QuotesPaired
  BY DEF PairInv
<1> QED
  BY PairInvariance, <1>1, PTL
=============================================================================
