---------------------- MODULE CopyBidirectional_proofs ----------------------
(* Proofs about CopyBidirectional, for buffers, budgets, timeouts and sources
   of every size.                                                           *)
EXTENDS CopyBidirectional, SequenceTheorems, TLAPS

Typed ==
  /\ phase \in [Dirs -> {"Running", "ShuttingDown", "Done"}]
  /\ {readDone, needFlush, eof, dirty, shut} \subseteq [Dirs -> BOOLEAN]
  /\ {pos, amt, got} \subseteq [Dirs -> Nat]
  /\ {buf, delivered} \subseteq [Dirs -> Seq(Nat)]
  /\ interest \in [Dirs -> SUBSET Operations]
  /\ turn \in 0..3
  /\ step \in {"enter", "top", "write", "refill", "idleflush", "eofflush", "shutdown"}
  /\ ops \in 1..MaxOps
  /\ made \in BOOLEAN /\ woken \in BOOLEAN
  /\ left \in 0..Timeout /\ quiet \in 0..Timeout
  /\ result \in {"none", "ok", "timeout", "error"}

(* s holds the bytes that follow byte k of the source.                      *)
Follow(s, k) == \A i \in 1..Len(s) : s[i] = k + i

(* The bytes taken from the source are those delivered and those still in the
   buffer, in order.                                                        *)
Stream(d) ==
  /\ amt[d] = Len(delivered[d])
  /\ Len(buf[d]) <= BufSize[d] /\ pos[d] <= Len(buf[d])
  /\ Len(delivered[d]) + Len(buf[d]) = got[d] + pos[d]
  /\ Follow(delivered[d], 0)
  /\ Follow(buf[d], got[d] - Len(buf[d]))
  /\ got[d] <= Supply[d]

(* What the flags and the phase of a direction say of its streams.          *)
Ends(d) ==
  /\ eof[d] = readDone[d]
  /\ dirty[d] => needFlush[d]
  /\ phase[d] # "Running" => readDone[d] /\ pos[d] = Len(buf[d]) /\ ~dirty[d]
  /\ shut[d] = (phase[d] = "Done")

(* What is known of the direction being polled before each call.            *)
Before(d) ==
  /\ turn \notin Dirs => step = "enter"
  /\ turn = d /\ step # "enter" =>
       phase[d] = (IF step = "shutdown" THEN "ShuttingDown" ELSE "Running")
  /\ turn = d /\ step = "idleflush" => pos[d] = Len(buf[d]) /\ ~readDone[d]
  /\ turn = d /\ step = "refill" => pos[d] < Len(buf[d]) /\ ~readDone[d]
  /\ turn = d /\ step = "eofflush" => pos[d] = Len(buf[d]) /\ readDone[d]

(* What must wake the task for a direction that has been polled.            *)
Watched(d) ==
  /\ pos[d] < Len(buf[d]) => "write" \in interest[d]
  /\ phase[d] = "Running" /\ pos[d] = Len(buf[d]) =>
       (IF readDone[d] THEN "flush" ELSE "read") \in interest[d]
  /\ phase[d] = "ShuttingDown" => "shutdown" \in interest[d]
  /\ phase[d] = "Running" /\ pos[d] = Len(buf[d]) /\ dirty[d] =>
       "flush" \in interest[d]

(* A direction becomes watched while it is polled and stays so until the next
   poll, unless the task is woken.                                          *)
Registered(d) ==
  ~woken =>
    /\ turn = d /\ step = "idleflush" => "read" \in interest[d]
    /\ turn = d /\ step = "refill" => "write" \in interest[d]
    /\ turn = 0 \/ turn > d => Watched(d)

(* The timer runs from the last byte that moved, or will be put back.       *)
Timed ==
  /\ quiet + left >= Timeout \/ (turn # 0 /\ made)
  /\ TimeoutMeansIdle

IInv ==
  /\ Typed /\ Timed
  /\ \A d \in Dirs : Stream(d) /\ Ends(d) /\ Before(d) /\ Registered(d)
-----------------------------------------------------------------------------
LEMMA InitInv == Init => IInv
<1> SUFFICES ASSUME Init PROVE IInv
  OBVIOUS
<1> USE CopyAssumption DEF Dirs
<1>1. Typed
  <2>1. {pos, amt, got} \subseteq [Dirs -> Nat] /\ {buf, delivered} \subseteq [Dirs -> Seq(Nat)]
    BY DEF Init
  <2>2. {readDone, needFlush, eof, dirty, shut} \subseteq [Dirs -> BOOLEAN]
    BY DEF Init
  <2> QED
    <3>1. phase \in [Dirs -> {"Running", "ShuttingDown", "Done"}]
      BY DEF Init
    <3>2. interest \in [Dirs -> SUBSET Operations]
      BY DEF Init
    <3>3. turn \in 0..3 /\ step = "enter" /\ ops \in 1..MaxOps
      BY DEF Init
    <3>4. left \in 0..Timeout /\ quiet \in 0..Timeout
      BY DEF Init
    <3> QED
      BY <2>1, <2>2, <3>1, <3>2, <3>3, <3>4 DEF Init, Typed
<1>2. Timed
  BY DEF Init, Timed, TimeoutMeansIdle
<1>3. ASSUME NEW d \in Dirs PROVE Stream(d) /\ Ends(d) /\ Before(d) /\ Registered(d)
  <2>1. /\ pos[d] = 0 /\ amt[d] = 0 /\ got[d] = 0 /\ buf[d] = <<>> /\ delivered[d] = <<>>
        /\ dirty[d] = FALSE /\ shut[d] = FALSE /\ phase[d] = "Running"
        /\ eof[d] = FALSE /\ readDone[d] = FALSE
    BY <1>3 DEF Init
  <2>2. Stream(d)
    BY <2>1 DEF Stream, Follow
  <2>3. Ends(d)
    BY <2>1 DEF Ends
  <2>4. Before(d) /\ Registered(d)
    BY <1>3 DEF Init, Before, Registered
  <2> QED
    BY <2>2, <2>3, <2>4
<1> QED
  BY <1>1, <1>2, <1>3 DEF IInv

(* A step of one direction leaves the other as it was.                      *)
Kept(e) ==
  /\ phase'[e] = phase[e] /\ readDone'[e] = readDone[e] /\ needFlush'[e] = needFlush[e]
  /\ pos'[e] = pos[e] /\ amt'[e] = amt[e] /\ buf'[e] = buf[e]
  /\ interest'[e] = interest[e] /\ got'[e] = got[e] /\ eof'[e] = eof[e]
  /\ delivered'[e] = delivered[e] /\ dirty'[e] = dirty[e] /\ shut'[e] = shut[e]

(* The transfer of d goes on with another call, or is over.                 *)
Moves(d) ==
  /\ turn = d
  /\ woken => woken'
  /\ \/ turn' = turn
     \/ turn' = turn + 1 /\ step' = "enter"
  /\ result = "none" /\ result' = "none"

LEMMA OneDirection ==
  ASSUME IInv, NEW d \in Dirs, turn = d, Moves(d), Typed',
         made' \/ UNCHANGED <<made, quiet, left>>,
         \A e \in Dirs : e # d => Kept(e),
         Stream(d)', Ends(d)', Before(d)', Registered(d)'
  PROVE  IInv'
<1>1. /\ turn' # 0
      /\ turn # 0
      /\ \/ turn' = turn
         \/ turn' = turn + 1 /\ step' = "enter"
  <2>1. \/ turn' = turn
        \/ turn' = turn + 1 /\ step' = "enter"
    BY DEF Moves
  <2>2. turn = 1 \/ turn = 2
    BY DEF Dirs
  <2> QED
    BY <2>1, <2>2
<1>2. Timed'
  BY <1>1 DEF IInv, Timed, Moves, TimeoutMeansIdle, Typed
<1>3. ASSUME NEW e \in Dirs, e # d
      PROVE  Stream(e)' /\ Ends(e)' /\ Before(e)' /\ Registered(e)'
  <2>1. Kept(e) /\ Stream(e) /\ Ends(e) /\ Before(e) /\ Registered(e)
    BY <1>3 DEF IInv
  <2>2. Stream(e)' /\ Ends(e)'
    <3>1. Stream(e)'
      BY <2>1 DEF Kept, Stream
    <3>2. Ends(e)'
      BY <2>1 DEF Kept, Ends
    <3> QED
      BY <3>1, <3>2
  <2>3. turn' = e => step' = "enter"
    BY <1>1, <1>3
  <2>4. turn' > e => turn > e
    BY <1>1, <1>3 DEF Dirs
  <2>5. turn' \notin Dirs => step' = "enter"
    BY <1>1
  <2>6. Before(e)'
    BY <2>3, <2>5 DEF Before
  <2>7. Registered(e)'
    <3>1. SUFFICES ASSUME ~woken' PROVE Registered(e)'
      BY DEF Registered
    <3>2. ~woken
      BY <3>1 DEF Moves
    <3>3. turn' > e => Watched(e)'
      BY <2>1, <2>4, <3>2 DEF Registered, Watched, Kept
    <3> QED
      BY <1>1, <2>3, <3>3 DEF Registered
  <2> QED
    BY <2>2, <2>6, <2>7
<1> QED
  BY <1>2, <1>3 DEF IInv
-----------------------------------------------------------------------------
LEMMA Cancels == \A m, l, g \in Nat : m + l = g + l => m = g
OBVIOUS

LEMMA LeaveFacts ==
  ASSUME Typed, NEW d \in Dirs, turn = d, Leave, woken' \/ Watched(d)'
  PROVE  /\ turn' \in 0..3 /\ step' = "enter" /\ ops' \in 1..MaxOps
         /\ turn' = turn + 1
         /\ Before(d)' /\ Registered(d)'
<1>1. turn' = d + 1 /\ step' = "enter" /\ ops' = MaxOps
  BY DEF Leave
<1>2. turn' \in 0..3 /\ turn' # d /\ ops' \in 1..MaxOps
  BY <1>1, CopyAssumption DEF Dirs
<1>3. Before(d)'
  BY <1>1, <1>2 DEF Before
<1>4. Registered(d)'
  BY <1>1, <1>2 DEF Registered
<1> QED
  BY <1>1, <1>2, <1>3, <1>4

LEMMA ConsumeFacts ==
  ASSUME Typed, NEW d \in Dirs, turn = d, NEW s, Consume(s)
  PROVE  /\ woken' \in BOOLEAN
         /\ woken => woken'
         /\ \/ Leave /\ (woken' \/ s = "pending")
            \/ /\ turn' = turn /\ step' = s /\ s # "pending"
               /\ ops' \in 1..MaxOps
<1>1. CASE ops = 1
  BY <1>1 DEF Consume
<1>2. CASE ops # 1
  <2>1. ops - 1 \in 1..MaxOps
    BY <1>2, CopyAssumption DEF Typed
  <2>2. /\ UNCHANGED woken
        /\ IF s = "pending" THEN Leave
           ELSE step' = s /\ ops' = ops - 1 /\ UNCHANGED turn
    BY <1>2 DEF Consume
  <2> QED
    BY <2>1, <2>2 DEF Typed
<1> QED
  BY <1>1, <1>2

LEMMA PendsFacts ==
  ASSUME Typed, NEW d \in Dirs, NEW op \in Operations, Pends(d, op)
  PROVE  /\ interest' \in [Dirs -> SUBSET Operations]
         /\ op \in interest'[d] /\ interest[d] \subseteq interest'[d]
         /\ \A e \in Dirs : e # d => interest'[e] = interest[e]
         /\ UNCHANGED <<got, eof, delivered, dirty, shut, quiet>>
BY DEF Typed, Pends

(* A call that pends leaves the streams and the buffers as they are ...     *)
Held == UNCHANGED <<phase, bufferVars, made, left, woken, result>>

LEMMA HeldFacts ==
  ASSUME IInv, NEW d \in Dirs, turn = d, result = "none", Held,
         UNCHANGED <<got, eof, delivered, dirty, shut, quiet>>,
         interest' \in [Dirs -> SUBSET Operations],
         \A e \in Dirs : e # d => interest'[e] = interest[e],
         turn' \in 0..3, ops' \in 1..MaxOps,
         step' \in {"enter", "top", "write", "refill", "idleflush", "eofflush", "shutdown"},
         \/ turn' = turn
         \/ turn' = turn + 1 /\ step' = "enter",
         Before(d)', Registered(d)'
  PROVE  IInv'
<1> USE DEF Held, bufferVars
<1>1. Typed'
  BY DEF IInv, Typed
<1>2. Moves(d)
  BY DEF Moves
<1>3. \A e \in Dirs : e # d => Kept(e)
  BY DEF Kept
<1>4. Stream(d)'
  BY DEF IInv, Stream
<1>5. Ends(d)'
  BY DEF IInv, Ends
<1> QED
  BY <1>1, <1>2, <1>3, <1>4, <1>5, OneDirection

(* ... and either ends the turn of a direction that is watched by then ...  *)
LEMMA PendsAndLeaves ==
  ASSUME IInv, NEW d \in Dirs, turn = d, result = "none", NEW op \in Operations,
         Pends(d, op), Leave, Held, Watched(d)'
  PROVE  IInv'
<1>1. Typed
  BY DEF IInv
<1>2. /\ turn' \in 0..3 /\ step' = "enter" /\ ops' \in 1..MaxOps
      /\ turn' = turn + 1
      /\ Before(d)' /\ Registered(d)'
  BY <1>1, LeaveFacts
<1> QED
  BY <1>1, <1>2, PendsFacts, HeldFacts

(* ... or another call follows.                                             *)
LEMMA PendsAndGoes ==
  ASSUME IInv, NEW d \in Dirs, turn = d, result = "none", NEW op \in Operations,
         Pends(d, op), Held,
         NEW s \in {"write", "refill", "idleflush"}, GoTo(s),
         phase[d] = "Running",
         s = "idleflush" => op = "read" /\ pos[d] = Len(buf[d]) /\ ~readDone[d],
         s = "refill" => op = "write" /\ pos[d] < Len(buf[d]) /\ ~readDone[d]
  PROVE  IInv'
<1>1. Typed
  BY DEF IInv
<1>2. turn' = turn /\ step' = s /\ ops' = ops
  BY DEF GoTo
<1>3. op \in interest'[d]
  BY <1>1, PendsFacts
<1>4. Before(d)'
  BY <1>2 DEF Before, Held, bufferVars
<1>5. Registered(d)'
  <2>1. turn' # 0 /\ ~(turn' > d)
    BY <1>2 DEF Dirs
  <2> QED
    BY <1>2, <1>3, <2>1 DEF Registered
<1>6. /\ turn' \in 0..3 /\ ops' \in 1..MaxOps
      /\ step' \in {"enter", "top", "write", "refill", "idleflush", "eofflush", "shutdown"}
  BY <1>1, <1>2 DEF Typed
<1> QED
  BY <1>1, <1>2, <1>4, <1>5, <1>6, PendsFacts, HeldFacts

LEMMA FailsInv == ASSUME IInv, NEW d \in Dirs, NEW op, Fails(d, op) PROVE IInv'
<1> USE DEF Fails, bufferVars, pollVars, streamVars
<1>1. Typed' /\ Timed'
  BY DEF IInv, Typed, Timed, TimeoutMeansIdle
<1>2. ASSUME NEW e \in Dirs PROVE Stream(e)' /\ Ends(e)' /\ Before(e)' /\ Registered(e)'
  BY DEF IInv, Stream, Ends, Before, Registered, Watched
<1> QED
  BY <1>1, <1>2 DEF IInv
-----------------------------------------------------------------------------
(* The bytes a read appends continue those in the buffer.                   *)
LEMMA FillAppends ==
  ASSUME NEW s \in Seq(Nat), NEW k \in Int, NEW n \in Nat, NEW g \in Nat,
         g = k + Len(s), Follow(s, k)
  PROVE  LET t == s \o [i \in 1..n |-> g + i]
         IN t \in Seq(Nat) /\ Len(t) = Len(s) + n /\ Follow(t, k)
<1> DEFINE f == [i \in 1..n |-> g + i]
           t == s \o f
<1>1. f \in Seq(Nat) /\ Len(f) = n /\ \A i \in 1..n : f[i] = g + i
  <2>1. f \in [1..n -> Nat]
    OBVIOUS
  <2>2. f \in Seq(Nat)
    BY <2>1
  <2>3. DOMAIN f = 1..n
    OBVIOUS
  <2> QED
    BY <2>2, <2>3
<1> HIDE DEF f
<1>2. /\ t \in Seq(Nat) /\ Len(t) = Len(s) + Len(f)
      /\ \A i \in 1..Len(s) + Len(f) : t[i] = IF i <= Len(s) THEN s[i] ELSE f[i - Len(s)]
  BY <1>1, ConcatProperties
<1> HIDE DEF t
<1>3. ASSUME NEW i \in 1..Len(t) PROVE t[i] = k + i
  <2>1. i \in 1..Len(s) + Len(f) /\ Len(t) = Len(s) + n /\ Len(s) \in Nat
    BY <1>1, <1>2
  <2>2. CASE i <= Len(s)
    <3>1. i \in 1..Len(s) /\ t[i] = s[i]
      BY <1>2, <2>1, <2>2
    <3> QED
      BY <3>1 DEF Follow
  <2>3. CASE i > Len(s)
    <3>1. i - Len(s) \in 1..n
      BY <1>1, <2>1, <2>3
    <3>2. t[i] = g + (i - Len(s))
      BY <1>1, <1>2, <2>1, <2>3, <3>1
    <3> QED
      BY <2>1, <3>2
  <2> QED
    BY <2>1, <2>2, <2>3
<1>4. Follow(t, k)
  BY <1>3 DEF Follow
<1> QED
  BY <1>1, <1>2, <1>4 DEF t, f

(* The bytes a write appends to the sink continue those it has accepted.    *)
LEMMA WriteAppends ==
  ASSUME NEW s \in Seq(Nat), NEW b \in Seq(Nat), NEW p \in Nat, NEW n \in Nat, NEW k \in Int,
         p + n <= Len(b), Len(s) = k + p, Follow(s, 0), Follow(b, k)
  PROVE  LET t == s \o SubSeq(b, p + 1, p + n)
         IN t \in Seq(Nat) /\ Len(t) = Len(s) + n /\ Follow(t, 0)
<1> DEFINE f == SubSeq(b, p + 1, p + n)
           t == s \o f
<1>1. f \in Seq(Nat) /\ Len(f) = n /\ \A i \in 1..n : f[i] = b[p + i]
  <2>1. p + 1 \in Int /\ p + n \in Int /\ \A i \in p + 1..p + n : b[i] \in Nat
    OBVIOUS
  <2>2. /\ f \in Seq(Nat)
        /\ Len(f) = IF p + 1 <= p + n THEN (p + n) - (p + 1) + 1 ELSE 0
        /\ \A i \in 1..(p + n) - (p + 1) + 1 : f[i] = b[p + 1 + i - 1]
    <3> DEFINE lo == p + 1
               hi == p + n
    <3>1. lo \in Int /\ hi \in Int /\ \A i \in lo..hi : b[i] \in Nat
      BY <2>1
    <3> HIDE DEF lo, hi
    <3>2. /\ SubSeq(b, lo, hi) \in Seq(Nat)
          /\ Len(SubSeq(b, lo, hi)) = IF lo <= hi THEN hi - lo + 1 ELSE 0
          /\ \A i \in 1..hi - lo + 1 : SubSeq(b, lo, hi)[i] = b[lo + i - 1]
      BY <3>1, SubSeqProperties
    <3> QED
      BY <3>2 DEF lo, hi
  <2>3. (p + n) - (p + 1) + 1 = n /\ \A i \in 1..n : p + 1 + i - 1 = p + i
    OBVIOUS
  <2>4. Len(f) = n
    BY <2>2, <2>3
  <2> QED
    BY <2>2, <2>3, <2>4
<1> HIDE DEF f
<1>2. /\ t \in Seq(Nat) /\ Len(t) = Len(s) + Len(f)
      /\ \A i \in 1..Len(s) + Len(f) : t[i] = IF i <= Len(s) THEN s[i] ELSE f[i - Len(s)]
  BY <1>1, ConcatProperties
<1> HIDE DEF t
<1>3. ASSUME NEW i \in 1..Len(t) PROVE t[i] = 0 + i
  <2>1. i \in 1..Len(s) + Len(f) /\ Len(t) = Len(s) + n /\ Len(s) \in Nat /\ Len(b) \in Nat
    BY <1>1, <1>2
  <2>2. CASE i <= Len(s)
    <3>1. i \in 1..Len(s) /\ t[i] = s[i]
      BY <1>2, <2>1, <2>2
    <3> QED
      BY <3>1 DEF Follow
  <2>3. CASE i > Len(s)
    <3>1. i - Len(s) \in 1..n
      BY <1>1, <2>1, <2>3
    <3>2. t[i] = b[p + (i - Len(s))]
      BY <1>1, <1>2, <2>1, <2>3, <3>1
    <3>3. p + (i - Len(s)) \in 1..Len(b)
      BY <2>1, <3>1
    <3>4. b[p + (i - Len(s))] = k + (p + (i - Len(s)))
      BY <3>3 DEF Follow
    <3> QED
      BY <2>1, <3>2, <3>4
  <2> QED
    BY <2>1, <2>2, <2>3
<1>4. Follow(t, 0)
  BY <1>3 DEF Follow
<1> QED
  BY <1>1, <1>2, <1>4 DEF t, f

LEMMA FillFacts ==
  ASSUME IInv, NEW d \in Dirs, ~readDone[d], phase[d] = "Running", Fill(d)
  PROVE  /\ {readDone', eof'} \subseteq [Dirs -> BOOLEAN]
         /\ buf' \in [Dirs -> Seq(Nat)] /\ got' \in [Dirs -> Nat]
         /\ made' \in BOOLEAN /\ quiet' \in 0..Timeout
         /\ UNCHANGED <<interest, phase, needFlush, pos, amt, left, result, sinkVars>>
         /\ made' \/ UNCHANGED <<made, quiet, left>>
         /\ \A e \in Dirs : e # d => Kept(e)
         /\ Len(buf'[d]) >= Len(buf[d])
         /\ Stream(d)' /\ Ends(d)'
<1> USE DEF sinkVars
<1>1. /\ {readDone, eof} \subseteq [Dirs -> BOOLEAN] /\ got \in [Dirs -> Nat]
      /\ buf \in [Dirs -> Seq(Nat)] /\ made \in BOOLEAN /\ quiet \in 0..Timeout
      /\ pos[d] \in Nat /\ buf[d] \in Seq(Nat) /\ got[d] \in Nat
      /\ delivered[d] \in Seq(Nat) /\ BufSize[d] \in Nat /\ Supply[d] \in Nat
  BY CopyAssumption DEF IInv, Typed
<1>2. Stream(d) /\ Ends(d)
  BY DEF IInv
<1>3. UNCHANGED <<interest, phase, needFlush, pos, amt, left, result, sinkVars>>
  BY DEF Fill, Answered
<1>4. ASSUME NEW n \in Nat, Len(buf[d]) + n <= BufSize[d], got[d] + n <= Supply[d],
             buf' = [buf EXCEPT ![d] = @ \o [i \in 1..n |-> got[d] + i]],
             got' = [got EXCEPT ![d] = @ + n],
             readDone' = [readDone EXCEPT ![d] = FALSE],
             made' = TRUE, quiet' = 0, UNCHANGED eof
      PROVE  /\ {readDone', eof'} \subseteq [Dirs -> BOOLEAN]
             /\ buf' \in [Dirs -> Seq(Nat)] /\ got' \in [Dirs -> Nat]
             /\ quiet' \in 0..Timeout
             /\ \A e \in Dirs : e # d => Kept(e)
             /\ Len(buf'[d]) >= Len(buf[d])
             /\ Stream(d)' /\ Ends(d)'
  <2>1. /\ n \in Nat /\ Len(buf[d]) + n <= BufSize[d] /\ got[d] + n <= Supply[d]
        /\ Len(buf[d]) \in Nat
    BY <1>1, <1>4
  <2> DEFINE t == buf[d] \o [i \in 1..n |-> got[d] + i]
  <2>2. PICK k \in Int : got[d] = k + Len(buf[d]) /\ Follow(buf[d], k)
    <3>1. got[d] - Len(buf[d]) \in Int /\ got[d] = (got[d] - Len(buf[d])) + Len(buf[d])
      BY <1>1, <2>1
    <3> QED
      BY <1>2, <3>1 DEF Stream
  <2>3. t \in Seq(Nat) /\ Len(t) = Len(buf[d]) + n /\ Follow(t, k)
    BY <1>1, <2>1, <2>2, FillAppends
  <2>4. buf' = [buf EXCEPT ![d] = t]
    BY <1>4
  <2> HIDE DEF t
  <2>5. buf' \in [Dirs -> Seq(Nat)] /\ got' \in [Dirs -> Nat]
    <3>1. buf' \in [Dirs -> Seq(Nat)]
      BY <1>1, <2>3, <2>4
    <3>2. got[d] + n \in Nat
      BY <1>1, <2>1
    <3> QED
      BY <1>1, <1>4, <3>1, <3>2
  <2>6. buf'[d] = t /\ got'[d] = got[d] + n /\ readDone'[d] = FALSE
    BY <1>1, <1>4, <2>4
  <2>7. {readDone', eof'} \subseteq [Dirs -> BOOLEAN] /\ quiet' \in 0..Timeout
    BY <1>1, <1>4, CopyAssumption
  <2>8. \A e \in Dirs : e # d => Kept(e)
    BY <1>1, <1>3, <1>4, <2>4 DEF Kept
  <2>9. Len(buf'[d]) >= Len(buf[d])
    BY <2>1, <2>3, <2>6
  <2>10. Stream(d)'
    <3>1. /\ amt[d] = Len(delivered[d]) /\ pos[d] <= Len(buf[d])
          /\ Follow(delivered[d], 0)
      BY <1>2 DEF Stream
    <3>2. PICK l \in Nat : l = Len(buf[d]) /\ Len(t) = l + n
      BY <2>1, <2>3
    <3>3. got[d] + n <= Supply[d] /\ l + n <= BufSize[d] /\ pos[d] <= l + n
      BY <1>1, <2>1, <3>1, <3>2
    <3>4. PICK m \in Nat : m = Len(delivered[d]) /\ m + l = got[d] + pos[d]
      <4>1. Len(delivered[d]) + Len(buf[d]) = got[d] + pos[d]
        BY <1>2 DEF Stream
      <4>2. Len(delivered[d]) \in Nat
        BY <1>1
      <4> QED
        BY <3>2, <4>1, <4>2
    <3>5. m + (l + n) = (got[d] + n) + pos[d]
      <4>1. got[d] \in Nat /\ pos[d] \in Nat /\ m + l = got[d] + pos[d]
        BY <1>1, <3>4
      <4> QED
        BY <4>1
    <3>6. k = (got[d] + n) - (l + n)
      BY <1>1, <2>1, <2>2, <3>2
    <3> QED
      BY <1>3, <2>3, <2>6, <3>1, <3>2, <3>3, <3>4, <3>5, <3>6 DEF Stream
  <2>11. Ends(d)'
    <3>1. eof[d] = FALSE
      BY <1>1, <1>2 DEF Ends
    <3> QED
      BY <1>2, <1>3, <1>4, <2>6, <3>1 DEF Ends
  <2> QED
    BY <2>5, <2>7, <2>8, <2>9, <2>10, <2>11
<1>5. ASSUME readDone' = [readDone EXCEPT ![d] = TRUE],
             eof' = [eof EXCEPT ![d] = TRUE],
             UNCHANGED <<buf, got, made, quiet>>
      PROVE  /\ {readDone', eof'} \subseteq [Dirs -> BOOLEAN]
             /\ \A e \in Dirs : e # d => Kept(e)
             /\ Stream(d)' /\ Ends(d)'
  <2>1. {readDone', eof'} \subseteq [Dirs -> BOOLEAN] /\ readDone'[d] = TRUE /\ eof'[d] = TRUE
    BY <1>1, <1>5
  <2>2. \A e \in Dirs : e # d => Kept(e)
    BY <1>1, <1>3, <1>5 DEF Kept
  <2>3. Stream(d)'
    BY <1>2, <1>3, <1>5 DEF Stream
  <2>4. Ends(d)'
    BY <1>2, <1>3, <2>1 DEF Ends
  <2> QED
    BY <2>1, <2>2, <2>3, <2>4
<1>6. CASE \E n \in 1..Least(BufSize[d] - Len(buf[d]), Supply[d] - got[d]) :
             /\ buf' = [buf EXCEPT ![d] = @ \o [i \in 1..n |-> got[d] + i]]
             /\ got' = [got EXCEPT ![d] = @ + n]
             /\ readDone' = [readDone EXCEPT ![d] = FALSE]
             /\ made' = TRUE /\ quiet' = 0 /\ UNCHANGED eof
  <2>1. PICK n \in 1..Least(BufSize[d] - Len(buf[d]), Supply[d] - got[d]) :
               /\ buf' = [buf EXCEPT ![d] = @ \o [i \in 1..n |-> got[d] + i]]
               /\ got' = [got EXCEPT ![d] = @ + n]
               /\ readDone' = [readDone EXCEPT ![d] = FALSE]
               /\ made' = TRUE /\ quiet' = 0 /\ UNCHANGED eof
    BY <1>6
  <2>2. n \in Nat /\ Len(buf[d]) + n <= BufSize[d] /\ got[d] + n <= Supply[d]
    BY <1>1 DEF Least
  <2> QED
    BY <1>3, <1>4, <2>1, <2>2
<1>7. CASE /\ readDone' = [readDone EXCEPT ![d] = TRUE]
           /\ eof' = [eof EXCEPT ![d] = TRUE]
           /\ UNCHANGED <<buf, got, made, quiet>>
  <2>1. Len(buf'[d]) >= Len(buf[d])
    BY <1>1, <1>7
  <2> QED
    BY <1>1, <1>3, <1>5, <1>7, <2>1
<1> QED
  BY <1>6, <1>7 DEF Fill
-----------------------------------------------------------------------------
(* The calls of the transfer of one direction, one by one.                  *)
LEMMA EnterInv == ASSUME IInv, NEW d \in Dirs, Enter(d) PROVE IInv'
<1> USE DEF bufferVars
<1>1. /\ turn = d /\ step = "enter" /\ result = "none" /\ Held
      /\ UNCHANGED <<interest, got, eof, delivered, dirty, shut, quiet>>
  BY DEF Enter, Polling, Held, streamVars
<1>2. /\ Typed /\ Ends(d) /\ interest' \in [Dirs -> SUBSET Operations]
      /\ \A e \in Dirs : interest'[e] = interest[e]
  BY <1>1 DEF IInv, Typed
<1>3. ASSUME NEW s \in {"top", "shutdown"}, GoTo(s),
             phase[d] = (IF s = "shutdown" THEN "ShuttingDown" ELSE "Running")
      PROVE  IInv'
  <2>1. turn' = turn /\ step' = s /\ ops' = ops
    BY <1>3 DEF GoTo
  <2>2. Before(d)' /\ Registered(d)'
    BY <1>1, <1>3, <2>1 DEF Before, Registered, Held, Dirs
  <2>3. turn' \in 0..3 /\ ops' \in 1..MaxOps
    BY <1>2, <2>1 DEF Typed
  <2> QED
    BY <1>1, <1>2, <2>1, <2>2, <2>3, HeldFacts
<1>4. CASE phase[d] = "Done" /\ Leave
  <2>1. Watched(d)'
    BY <1>1, <1>2, <1>4 DEF Ends, Watched, Held
  <2>2. /\ turn' \in 0..3 /\ step' = "enter" /\ ops' \in 1..MaxOps
        /\ turn' = turn + 1
        /\ Before(d)' /\ Registered(d)'
    BY <1>1, <1>2, <1>4, <2>1, LeaveFacts
  <2> QED
    BY <1>1, <1>2, <2>2, HeldFacts
<1>5. phase[d] \in {"Running", "ShuttingDown", "Done"}
  BY <1>2 DEF Typed
<1> QED
  BY <1>3, <1>4, <1>5 DEF Enter

(* Bytes are read, or the end, and the task goes on or is woken.            *)
LEMMA FillInv ==
  ASSUME IInv, NEW d \in Dirs, turn = d, result = "none", ~readDone[d],
         phase[d] = "Running", Fill(d),
         NEW s \in {"write", "pending"}, Consume(s),
         s = "pending" /\ ~woken => pos[d] < Len(buf[d]) /\ "write" \in interest[d]
  PROVE  IInv'
<1>1. Typed
  BY DEF IInv
<1>2. /\ {readDone', eof'} \subseteq [Dirs -> BOOLEAN]
      /\ buf' \in [Dirs -> Seq(Nat)] /\ got' \in [Dirs -> Nat]
      /\ made' \in BOOLEAN /\ quiet' \in 0..Timeout
      /\ UNCHANGED <<interest, phase, needFlush, pos, amt, left, result, delivered, dirty, shut>>
      /\ made' \/ UNCHANGED <<made, quiet, left>>
      /\ \A e \in Dirs : e # d => Kept(e)
      /\ Len(buf'[d]) >= Len(buf[d])
      /\ Stream(d)' /\ Ends(d)'
  BY FillFacts DEF sinkVars
<1>3. /\ woken' \in BOOLEAN
      /\ woken => woken'
      /\ \/ Leave /\ (woken' \/ s = "pending")
         \/ /\ turn' = turn /\ step' = s /\ s # "pending"
            /\ ops' \in 1..MaxOps
  BY <1>1, ConsumeFacts
<1>4. /\ turn' \in 0..3 /\ ops' \in 1..MaxOps /\ step' \in {"enter", "write"}
      /\ \/ turn' = turn
         \/ turn' = turn + 1 /\ step' = "enter"
      /\ Before(d)' /\ Registered(d)'
  <2>1. CASE Leave /\ (woken' \/ s = "pending")
    <3>1. woken' \/ Watched(d)'
      <4>1. SUFFICES ASSUME ~woken' PROVE Watched(d)'
        OBVIOUS
      <4>2. pos[d] < Len(buf[d]) /\ "write" \in interest[d]
        BY <1>3, <2>1, <4>1
      <4>3. pos'[d] < Len(buf'[d]) /\ "write" \in interest'[d]
        <5>1. pos[d] \in Nat /\ Len(buf[d]) \in Nat /\ Len(buf'[d]) \in Nat
          BY <1>1, <1>2 DEF Typed
        <5> QED
          BY <1>2, <4>2, <5>1
      <4>4. phase'[d] = "Running" /\ pos'[d] # Len(buf'[d])
        <5>1. pos'[d] \in Nat /\ Len(buf'[d]) \in Nat
          BY <1>1, <1>2 DEF Typed
        <5> QED
          BY <1>2, <4>3, <5>1
      <4> QED
        BY <4>3, <4>4 DEF Watched
    <3> QED
      BY <1>1, <2>1, <3>1, LeaveFacts
  <2>2. CASE turn' = turn /\ step' = s /\ s # "pending" /\ ops' \in 1..MaxOps
    <3>1. s = "write" /\ phase'[d] = "Running" /\ turn' # 0 /\ ~(turn' > d)
      BY <1>2, <2>2 DEF Dirs
    <3>2. Before(d)' /\ Registered(d)'
      BY <2>2, <3>1 DEF Before, Registered, Dirs
    <3> QED
      BY <1>1, <2>2, <3>1, <3>2 DEF Typed
  <2> QED
    BY <1>3, <2>1, <2>2
<1>5. Typed'
  BY <1>1, <1>2, <1>3, <1>4 DEF Typed
<1>6. Moves(d)
  BY <1>2, <1>3, <1>4 DEF Moves
<1> QED
  BY <1>2, <1>4, <1>5, <1>6, OneDirection

LEMMA TopInv == ASSUME IInv, NEW d \in Dirs, Top(d) PROVE IInv'
<1> USE DEF bufferVars
<1>1. turn = d /\ step = "top" /\ result = "none"
  BY DEF Top, Polling
<1>2. Typed /\ Stream(d) /\ Ends(d) /\ phase[d] = "Running"
  BY <1>1 DEF IInv, Before
<1>3. CASE CanFill(d) /\ Fill(d) /\ Consume("write")
  BY <1>1, <1>2, <1>3, FillInv DEF CanFill
<1>4. CASE CanFill(d) /\ FillPends(d)
  <2>1. /\ Pends(d, "read") /\ Held /\ ~readDone[d]
        /\ IF pos[d] < Len(buf[d]) THEN GoTo("write")
           ELSE IF needFlush[d] THEN GoTo("idleflush")
           ELSE Leave
    BY <1>4 DEF FillPends, CanFill, Held
  <2>2. "read" \in Operations
    BY DEF Operations
  <2>3. pos[d] < Len(buf[d]) \/ pos[d] = Len(buf[d])
    BY <1>2 DEF Typed, Stream
  <2>4. CASE GoTo("write")
    BY <1>1, <1>2, <2>1, <2>2, <2>4, PendsAndGoes
  <2>5. CASE ~(pos[d] < Len(buf[d])) /\ GoTo("idleflush")
    BY <1>1, <1>2, <2>1, <2>2, <2>3, <2>5, PendsAndGoes
  <2>6. CASE ~(pos[d] < Len(buf[d])) /\ ~needFlush[d] /\ Leave
    <3>1. "read" \in interest'[d] /\ dirty'[d] = dirty[d]
      BY <1>2, <2>1, <2>2, PendsFacts
    <3>2. ~dirty[d]
      BY <1>2, <2>6 DEF Ends
    <3>3. Watched(d)'
      BY <1>2, <2>1, <2>6, <3>1, <3>2 DEF Watched, Held
    <3> QED
      BY <1>1, <2>1, <2>2, <2>6, <3>3, PendsAndLeaves
  <2> QED
    BY <2>1, <2>4, <2>5, <2>6
<1>5. CASE Fails(d, "read")
  BY <1>5, FailsInv
<1>6. CASE /\ GoTo("write")
           /\ UNCHANGED <<phase, bufferVars, made, left, woken, result, streamVars>>
  <2>1. turn' = turn /\ step' = "write" /\ ops' = ops
    BY <1>6 DEF GoTo
  <2>2. /\ Held /\ interest' \in [Dirs -> SUBSET Operations]
        /\ UNCHANGED <<interest, got, eof, delivered, dirty, shut, quiet>>
    BY <1>2, <1>6 DEF Typed, Held, streamVars
  <2>3. Before(d)' /\ Registered(d)'
    BY <1>1, <1>2, <2>1, <2>2 DEF Before, Registered, Held, Dirs
  <2>4. turn' \in 0..3 /\ ops' \in 1..MaxOps
    BY <1>2, <2>1 DEF Typed
  <2> QED
    BY <1>1, <2>1, <2>2, <2>3, <2>4, HeldFacts
<1> QED
  BY <1>3, <1>4, <1>5, <1>6 DEF Top

LEMMA RefillInv == ASSUME IInv, NEW d \in Dirs, Refill(d) PROVE IInv'
<1>1. turn = d /\ step = "refill" /\ result = "none"
  BY DEF Refill, Polling
<1>2. /\ Typed /\ phase[d] = "Running" /\ pos[d] < Len(buf[d]) /\ ~readDone[d]
      /\ ~woken => "write" \in interest[d]
  BY <1>1 DEF IInv, Before, Registered
<1>3. CASE Fill(d) /\ Consume("pending")
  BY <1>1, <1>2, <1>3, FillInv
<1>4. CASE Pends(d, "read") /\ Leave /\ Held
  <2>1. "read" \in Operations
    BY DEF Operations
  <2>2. interest[d] \subseteq interest'[d]
    BY <1>2, <1>4, <2>1, PendsFacts
  <2>3. woken \/ Watched(d)'
    <3>1. pos[d] # Len(buf[d])
      BY <1>2 DEF Typed
    <3> QED
      BY <1>2, <1>4, <2>2, <3>1 DEF Watched, Held, bufferVars
  <2>4. Before(d)' /\ Registered(d)' /\ turn' \in 0..3 /\ step' = "enter"
        /\ ops' \in 1..MaxOps /\ turn' = turn + 1
    BY <1>1, <1>2, <1>4, <2>3, LeaveFacts DEF Held
  <2> QED
    BY <1>1, <1>2, <1>4, <2>1, <2>4, PendsFacts, HeldFacts
<1>5. CASE Fails(d, "read")
  BY <1>5, FailsInv
<1> QED
  BY <1>3, <1>4, <1>5 DEF Refill, Held

LEMMA WrapInv == ASSUME IInv, NEW d \in Dirs, Wrap(d) PROVE IInv'
<1> USE DEF streamVars
<1>1. /\ turn = d /\ step = "write" /\ result = "none" /\ result' = "none"
      /\ pos[d] = Len(buf[d])
      /\ pos' = [pos EXCEPT ![d] = 0] /\ buf' = [buf EXCEPT ![d] = <<>>]
      /\ GoTo(IF readDone[d] THEN "eofflush" ELSE "top")
      /\ UNCHANGED <<phase, readDone, needFlush, amt, made, left, woken, result,
                     interest, got, eof, delivered, dirty, shut, quiet>>
  BY DEF Wrap, Polling
<1>2. Typed /\ Stream(d) /\ Ends(d) /\ phase[d] = "Running"
  BY <1>1 DEF IInv, Before
<1>3. turn' = turn /\ ops' = ops /\ step' = IF readDone[d] THEN "eofflush" ELSE "top"
  BY <1>1 DEF GoTo
<1>4. /\ pos' \in [Dirs -> Nat] /\ buf' \in [Dirs -> Seq(Nat)]
      /\ pos'[d] = 0 /\ buf'[d] = <<>> /\ Len(buf'[d]) = 0
  BY <1>1, <1>2 DEF Typed
<1>5. Typed'
  BY <1>1, <1>2, <1>3, <1>4 DEF Typed
<1>6. Moves(d)
  BY <1>1, <1>3 DEF Moves
<1>7. \A e \in Dirs : e # d => Kept(e)
  BY <1>1, <1>2 DEF Kept, Typed
<1>8. Stream(d)'
  <2>1. /\ amt[d] = Len(delivered[d]) /\ Follow(delivered[d], 0) /\ got[d] <= Supply[d]
        /\ Len(delivered[d]) + Len(buf[d]) = got[d] + pos[d]
    BY <1>2 DEF Stream
  <2>2. Len(delivered[d]) = got[d] /\ got[d] \in Nat
    <3>1. Len(delivered[d]) \in Nat /\ Len(buf[d]) \in Nat /\ got[d] \in Nat
      BY <1>2 DEF Typed
    <3>2. Len(delivered[d]) + Len(buf[d]) = got[d] + Len(buf[d])
      BY <1>1, <2>1
    <3> QED
      BY <3>1, <3>2, Cancels
  <2>3. Follow(buf'[d], got'[d] - Len(buf'[d]))
    BY <1>4 DEF Follow
  <2>4. 0 <= BufSize[d]
    BY CopyAssumption
  <2> QED
    BY <1>1, <1>4, <2>1, <2>2, <2>3, <2>4 DEF Stream
<1>9. Ends(d)'
  BY <1>1, <1>2, <1>4 DEF Ends
<1>10. Before(d)' /\ Registered(d)'
  BY <1>1, <1>2, <1>3, <1>4 DEF Before, Registered, Dirs
<1> QED
  BY <1>1, <1>5, <1>6, <1>7, <1>8, <1>9, <1>10, OneDirection

LEMMA WriteBufferInv == ASSUME IInv, NEW d \in Dirs, WriteBuffer(d) PROVE IInv'
<1> USE DEF bufferVars
<1>1. turn = d /\ step = "write" /\ result = "none" /\ pos[d] < Len(buf[d])
  BY DEF WriteBuffer, Polling
<1>2. Typed /\ Stream(d) /\ Ends(d) /\ phase[d] = "Running"
  BY <1>1 DEF IInv, Before
<1>3. ASSUME Answered(d, "write"), NEW n \in 1..Len(buf[d]) - pos[d], Write(d, n),
             delivered' = [delivered EXCEPT ![d] =
                             @ \o SubSeq(buf[d], pos[d] + 1, pos[d] + n)],
             dirty' = [dirty EXCEPT ![d] = TRUE], quiet' = 0, Consume("write"),
             UNCHANGED <<phase, readDone, buf, left, result, got, eof, shut>>
      PROVE  IInv'
  <2>1. /\ woken' \in BOOLEAN
        /\ woken => woken'
        /\ \/ Leave /\ woken'
           \/ /\ turn' = turn /\ step' = "write" /\ ops' \in 1..MaxOps
    BY <1>1, <1>2, <1>3, ConsumeFacts
  <2>2. /\ pos' = [pos EXCEPT ![d] = @ + n] /\ amt' = [amt EXCEPT ![d] = @ + n]
        /\ needFlush' = [needFlush EXCEPT ![d] = TRUE] /\ made' = TRUE
        /\ interest' = interest
    BY <1>3 DEF Write, Answered
  <2>3. /\ pos[d] \in Nat /\ amt[d] \in Nat /\ buf[d] \in Seq(Nat)
        /\ delivered[d] \in Seq(Nat) /\ got[d] \in Nat
    BY <1>2 DEF Typed
  <2>4. n \in Nat /\ pos[d] + n <= Len(buf[d]) /\ Len(buf[d]) \in Nat
    BY <1>1, <2>3
  <2>5. PICK k \in Int : Len(delivered[d]) = k + pos[d] /\ Follow(buf[d], k)
                        /\ k = got[d] - Len(buf[d])
    <3>1. Len(delivered[d]) + Len(buf[d]) = got[d] + pos[d] /\ Follow(buf[d], got[d] - Len(buf[d]))
      BY <1>2 DEF Stream
    <3>2. PICK m, l, g, p \in Nat :
            m = Len(delivered[d]) /\ l = Len(buf[d]) /\ g = got[d] /\ p = pos[d]
      BY <2>3, <2>4
    <3>3. m + l = g + p
      BY <3>1, <3>2
    <3>4. g - l \in Int /\ m = (g - l) + p
      BY <3>3
    <3>5. Follow(buf[d], g - l)
      BY <3>1, <3>2
    <3> QED
      BY <3>2, <3>4, <3>5
  <2> DEFINE t == delivered[d] \o SubSeq(buf[d], pos[d] + 1, pos[d] + n)
  <2>6. t \in Seq(Nat) /\ Len(t) = Len(delivered[d]) + n /\ Follow(t, 0)
    <3>1. Follow(delivered[d], 0)
      BY <1>2 DEF Stream
    <3> QED
      BY <2>3, <2>4, <2>5, <3>1, WriteAppends
  <2>7. delivered' = [delivered EXCEPT ![d] = t]
    BY <1>3
  <2> HIDE DEF t
  <2>8. /\ delivered'[d] = t /\ pos'[d] = pos[d] + n /\ amt'[d] = amt[d] + n
        /\ dirty'[d] = TRUE /\ needFlush'[d] = TRUE
    BY <1>2, <1>3, <2>2, <2>7 DEF Typed
  <2>9. /\ turn' \in 0..3 /\ ops' \in 1..MaxOps /\ step' \in {"enter", "write"}
        /\ \/ turn' = turn
           \/ turn' = turn + 1 /\ step' = "enter"
        /\ Before(d)' /\ Registered(d)'
    <3>1. CASE Leave /\ woken'
      BY <1>1, <1>2, <3>1, LeaveFacts
    <3>2. CASE turn' = turn /\ step' = "write" /\ ops' \in 1..MaxOps
      <4>1. phase'[d] = "Running" /\ turn' # 0 /\ ~(turn' > d)
        BY <1>1, <1>2, <1>3, <3>2 DEF Dirs
      <4>2. Before(d)' /\ Registered(d)'
        BY <1>1, <3>2, <4>1 DEF Before, Registered, Dirs
      <4> QED
        BY <1>2, <3>2, <4>2 DEF Typed
    <3> QED
      BY <2>1, <3>1, <3>2
  <2>10. Typed'
    <3>1. pos' \in [Dirs -> Nat] /\ amt' \in [Dirs -> Nat]
      <4>1. pos[d] + n \in Nat /\ amt[d] + n \in Nat
        BY <2>3, <2>4
      <4> QED
        BY <1>2, <2>2, <4>1 DEF Typed
    <3>2. delivered' \in [Dirs -> Seq(Nat)]
      BY <1>2, <2>6, <2>7 DEF Typed
    <3>3. {needFlush', dirty'} \subseteq [Dirs -> BOOLEAN]
      BY <1>2, <1>3, <2>2 DEF Typed
    <3>4. quiet' \in 0..Timeout
      BY <1>3, CopyAssumption
    <3>5. /\ made' \in BOOLEAN /\ woken' \in BOOLEAN /\ turn' \in 0..3 /\ ops' \in 1..MaxOps
          /\ step' \in {"enter", "write"}
      BY <2>1, <2>2, <2>9
    <3>6. UNCHANGED <<phase, readDone, buf, left, result, got, eof, shut, interest>>
      BY <1>3, <2>2
    <3> QED
      BY <1>2, <3>1, <3>2, <3>3, <3>4, <3>5, <3>6 DEF Typed
  <2>11. Moves(d)
    BY <1>1, <1>3, <2>1, <2>9 DEF Moves
  <2>12. \A e \in Dirs : e # d => Kept(e)
    BY <1>2, <1>3, <2>2, <2>7 DEF Kept, Typed
  <2>13. Stream(d)'
    <3>1. /\ amt[d] = Len(delivered[d]) /\ Len(buf[d]) <= BufSize[d] /\ got[d] <= Supply[d]
          /\ Follow(buf[d], got[d] - Len(buf[d]))
          /\ Len(delivered[d]) + Len(buf[d]) = got[d] + pos[d]
      BY <1>2 DEF Stream
    <3>2. PICK m, l, g, p \in Nat :
            m = Len(delivered[d]) /\ l = Len(buf[d]) /\ g = got[d] /\ p = pos[d]
      BY <2>3, <2>4
    <3>3. m + l = g + p
      BY <3>1, <3>2
    <3>4. (m + n) + l = g + (p + n)
      BY <2>4, <3>3
    <3>5. Len(t) + Len(buf[d]) = got[d] + pos'[d]
      BY <2>6, <2>8, <3>2, <3>4
    <3> QED
      BY <1>3, <2>4, <2>6, <2>8, <3>1, <3>5 DEF Stream
  <2>14. Ends(d)'
    BY <1>2, <1>3, <2>8 DEF Ends
  <2> QED
    BY <1>1, <2>2, <2>9, <2>10, <2>11, <2>12, <2>13, <2>14, OneDirection
<1>4. CASE Pends(d, "write") /\ Held /\ CanFill(d) /\ GoTo("refill")
  <2>1. "write" \in Operations /\ ~readDone[d]
    BY <1>4 DEF Operations, CanFill
  <2> QED
    BY <1>1, <1>2, <1>4, <2>1, PendsAndGoes
<1>5. CASE Pends(d, "write") /\ Held /\ Leave
  <2>1. "write" \in Operations
    BY DEF Operations
  <2>2. "write" \in interest'[d]
    BY <1>2, <1>5, <2>1, PendsFacts
  <2>3. pos[d] # Len(buf[d])
    BY <1>1, <1>2 DEF Typed
  <2>4. Watched(d)'
    BY <1>2, <1>5, <2>2, <2>3 DEF Watched, Held
  <2> QED
    BY <1>1, <1>5, <2>1, <2>4, PendsAndLeaves
<1>6. CASE Fails(d, "write")
  BY <1>6, FailsInv
<1> QED
  BY <1>3, <1>4, <1>5, <1>6 DEF WriteBuffer, Held

LEMMA IdleFlushInv == ASSUME IInv, NEW d \in Dirs, IdleFlush(d) PROVE IInv'
<1> USE DEF bufferVars
<1>1. turn = d /\ step = "idleflush" /\ result = "none"
  BY DEF IdleFlush, Polling
<1>2. /\ Typed /\ Stream(d) /\ Ends(d) /\ phase[d] = "Running"
      /\ pos[d] = Len(buf[d]) /\ ~readDone[d]
      /\ ~woken => "read" \in interest[d]
  BY <1>1 DEF IInv, Before, Registered
<1>3. CASE /\ Answered(d, "flush")
           /\ needFlush' = [needFlush EXCEPT ![d] = FALSE]
           /\ dirty' = [dirty EXCEPT ![d] = FALSE]
           /\ made' = TRUE /\ quiet' = 0
           /\ Consume("pending")
           /\ UNCHANGED <<phase, readDone, pos, amt, buf, left, result, got, eof,
                          delivered, shut>>
  <2>1. woken' \in BOOLEAN /\ (woken => woken') /\ Leave
    BY <1>1, <1>2, <1>3, ConsumeFacts
  <2>2. /\ needFlush'[d] = FALSE /\ dirty'[d] = FALSE /\ interest' = interest
        /\ {needFlush', dirty'} \subseteq [Dirs -> BOOLEAN]
    BY <1>2, <1>3 DEF Answered, Typed
  <2>3. woken' \/ Watched(d)'
    BY <1>2, <1>3, <2>1, <2>2 DEF Watched
  <2>4. /\ turn' \in 0..3 /\ step' = "enter" /\ ops' \in 1..MaxOps
        /\ turn' = turn + 1
        /\ Before(d)' /\ Registered(d)'
    BY <1>1, <1>2, <2>1, <2>3, LeaveFacts
  <2>5. Typed'
    <3>1. quiet' \in 0..Timeout
      BY <1>3, CopyAssumption
    <3> QED
      BY <1>2, <1>3, <2>1, <2>2, <2>4, <3>1 DEF Typed
  <2>6. Moves(d)
    BY <1>1, <1>3, <2>1, <2>4 DEF Moves
  <2>7. \A e \in Dirs : e # d => Kept(e)
    BY <1>2, <1>3, <2>2 DEF Kept, Typed
  <2>8. Stream(d)'
    BY <1>2, <1>3 DEF Stream
  <2>9. Ends(d)'
    BY <1>2, <1>3, <2>2 DEF Ends
  <2> QED
    BY <1>1, <1>3, <2>4, <2>5, <2>6, <2>7, <2>8, <2>9, OneDirection
<1>4. CASE Pends(d, "flush") /\ Leave /\ Held
  <2>1. "flush" \in Operations
    BY DEF Operations
  <2>2. "flush" \in interest'[d] /\ interest[d] \subseteq interest'[d]
    BY <1>2, <1>4, <2>1, PendsFacts
  <2>3. woken \/ Watched(d)'
    BY <1>2, <1>4, <2>2 DEF Watched, Held
  <2>4. /\ turn' \in 0..3 /\ step' = "enter" /\ ops' \in 1..MaxOps
        /\ turn' = turn + 1
        /\ Before(d)' /\ Registered(d)'
    BY <1>1, <1>2, <1>4, <2>3, LeaveFacts DEF Held
  <2> QED
    BY <1>1, <1>2, <1>4, <2>1, <2>4, PendsFacts, HeldFacts
<1>5. CASE Fails(d, "flush")
  BY <1>5, FailsInv
<1> QED
  BY <1>3, <1>4, <1>5 DEF IdleFlush, Held

LEMMA EofFlushInv == ASSUME IInv, NEW d \in Dirs, EofFlush(d) PROVE IInv'
<1> USE DEF bufferVars
<1>1. turn = d /\ step = "eofflush" /\ result = "none"
  BY DEF EofFlush, Polling
<1>2. /\ Typed /\ Stream(d) /\ Ends(d) /\ phase[d] = "Running"
      /\ pos[d] = Len(buf[d]) /\ readDone[d]
  BY <1>1 DEF IInv, Before
<1>3. CASE /\ Answered(d, "flush")
           /\ dirty' = [dirty EXCEPT ![d] = FALSE]
           /\ made' = TRUE /\ quiet' = 0
           /\ phase' = [phase EXCEPT ![d] = "ShuttingDown"]
           /\ GoTo("shutdown")
           /\ UNCHANGED <<bufferVars, left, woken, result, got, eof, delivered, shut>>
  <2>1. turn' = turn /\ step' = "shutdown" /\ ops' = ops /\ interest' = interest
    BY <1>3 DEF GoTo, Answered
  <2>2. /\ dirty' \in [Dirs -> BOOLEAN] /\ dirty'[d] = FALSE /\ phase'[d] = "ShuttingDown"
        /\ phase' \in [Dirs -> {"Running", "ShuttingDown", "Done"}]
    BY <1>2, <1>3 DEF Typed
  <2>3. Typed'
    <3>1. quiet' \in 0..Timeout
      BY <1>3, CopyAssumption
    <3> QED
      BY <1>2, <1>3, <2>1, <2>2, <3>1 DEF Typed
  <2>4. Moves(d)
    BY <1>1, <1>3, <2>1 DEF Moves
  <2>5. \A e \in Dirs : e # d => Kept(e)
    BY <1>2, <1>3, <2>1 DEF Kept, Typed
  <2>6. Stream(d)'
    BY <1>2, <1>3 DEF Stream
  <2>7. Ends(d)'
    BY <1>2, <1>3, <2>2 DEF Ends
  <2>8. Before(d)' /\ Registered(d)'
    BY <1>1, <2>1, <2>2 DEF Before, Registered, Dirs
  <2> QED
    BY <1>1, <1>3, <2>3, <2>4, <2>5, <2>6, <2>7, <2>8, OneDirection
<1>4. CASE Pends(d, "flush") /\ Leave /\ Held
  <2>1. "flush" \in Operations
    BY DEF Operations
  <2>2. "flush" \in interest'[d]
    BY <1>2, <1>4, <2>1, PendsFacts
  <2>3. Watched(d)'
    BY <1>2, <1>4, <2>2 DEF Watched, Held
  <2> QED
    BY <1>1, <1>4, <2>1, <2>3, PendsAndLeaves
<1>5. CASE Fails(d, "flush")
  BY <1>5, FailsInv
<1> QED
  BY <1>3, <1>4, <1>5 DEF EofFlush, Held

LEMMA ShutDownInv == ASSUME IInv, NEW d \in Dirs, ShutDown(d) PROVE IInv'
<1> USE DEF bufferVars
<1>1. turn = d /\ step = "shutdown" /\ result = "none"
  BY DEF ShutDown, Polling
<1>2. Typed /\ Stream(d) /\ Ends(d) /\ phase[d] = "ShuttingDown"
  BY <1>1 DEF IInv, Before
<1>3. CASE /\ Answered(d, "shutdown")
           /\ shut' = [shut EXCEPT ![d] = TRUE]
           /\ made' = TRUE /\ quiet' = 0
           /\ phase' = [phase EXCEPT ![d] = "Done"]
           /\ Leave
           /\ UNCHANGED <<bufferVars, left, woken, result, got, eof, delivered, dirty>>
  <2>1. interest' = interest
    BY <1>3 DEF Answered
  <2>2. /\ shut' \in [Dirs -> BOOLEAN] /\ shut'[d] = TRUE /\ phase'[d] = "Done"
        /\ phase' \in [Dirs -> {"Running", "ShuttingDown", "Done"}]
    BY <1>2, <1>3 DEF Typed
  <2>3. Ends(d)'
    BY <1>2, <1>3, <2>2 DEF Ends
  <2>4. Watched(d)'
    BY <1>2, <1>3, <2>2 DEF Watched, Ends
  <2>5. /\ turn' \in 0..3 /\ step' = "enter" /\ ops' \in 1..MaxOps
        /\ turn' = turn + 1
        /\ Before(d)' /\ Registered(d)'
    BY <1>1, <1>2, <1>3, <2>4, LeaveFacts
  <2>6. Typed'
    <3>1. quiet' \in 0..Timeout
      BY <1>3, CopyAssumption
    <3> QED
      BY <1>2, <1>3, <2>1, <2>2, <2>5, <3>1 DEF Typed
  <2>7. Moves(d)
    BY <1>1, <1>3, <2>5 DEF Moves
  <2>8. \A e \in Dirs : e # d => Kept(e)
    BY <1>2, <1>3, <2>1 DEF Kept, Typed
  <2>9. Stream(d)'
    BY <1>2, <1>3 DEF Stream
  <2> QED
    BY <1>1, <1>3, <2>3, <2>5, <2>6, <2>7, <2>8, <2>9, OneDirection
<1>4. CASE Pends(d, "shutdown") /\ Leave /\ Held
  <2>1. "shutdown" \in Operations
    BY DEF Operations
  <2>2. "shutdown" \in interest'[d]
    BY <1>2, <1>4, <2>1, PendsFacts
  <2>3. Watched(d)'
    BY <1>2, <1>4, <2>2 DEF Watched, Held, Ends
  <2> QED
    BY <1>1, <1>4, <2>1, <2>3, PendsAndLeaves
<1>5. CASE Fails(d, "shutdown")
  BY <1>5, FailsInv
<1> QED
  BY <1>3, <1>4, <1>5 DEF ShutDown, Held
-----------------------------------------------------------------------------
(* A poll begins with the timer and ends by putting it back.                *)
LEMMA StartPollInv == ASSUME IInv, StartPoll PROVE IInv'
<1> USE DEF bufferVars, streamVars
<1>1. /\ Typed /\ turn = 0 /\ step = "enter" /\ result = "none"
      /\ quiet + left >= Timeout
  BY DEF IInv, StartPoll, Timed, Before, Dirs
<1>2. CASE left = 0
  <2>1. /\ result' = "timeout"
        /\ UNCHANGED <<turn, made, woken, phase, bufferVars, step, ops, left, streamVars>>
    BY <1>2 DEF StartPoll
  <2>2. quiet = Timeout
    BY <1>1, <1>2, CopyAssumption DEF Typed
  <2>3. Typed' /\ Timed'
    BY <1>1, <2>1, <2>2 DEF Typed, Timed, TimeoutMeansIdle
  <2>4. ASSUME NEW d \in Dirs PROVE Stream(d)' /\ Ends(d)' /\ Before(d)' /\ Registered(d)'
    BY <2>1 DEF IInv, Stream, Ends, Before, Registered, Watched
  <2> QED
    BY <2>3, <2>4 DEF IInv
<1>3. CASE left # 0
  <2>1. /\ turn' = 1 /\ made' = FALSE /\ woken' = FALSE
        /\ UNCHANGED <<phase, bufferVars, step, ops, left, result, streamVars>>
    BY <1>3 DEF StartPoll
  <2>2. Typed' /\ Timed'
    <3>1. turn' \in 0..3
      <4>1. turn' = 1
        BY <2>1
      <4> QED
        BY <4>1
    <3>2. made' \in BOOLEAN /\ woken' \in BOOLEAN
      BY <2>1
    <3>3. Typed'
      BY <1>1, <2>1, <3>1, <3>2 DEF Typed
    <3>4. UNCHANGED <<quiet, left, result>>
      BY <2>1
    <3>5. Timed'
      BY <1>1, <3>4 DEF Timed, TimeoutMeansIdle
    <3> QED
      BY <3>3, <3>5
  <2>3. ASSUME NEW d \in Dirs PROVE Stream(d)' /\ Ends(d)'
    BY <2>1 DEF IInv, Stream, Ends
  <2>4. ASSUME NEW d \in Dirs PROVE Before(d)' /\ Registered(d)'
    BY <1>1, <2>1, <2>4 DEF Before, Registered, Dirs
  <2> QED
    BY <2>2, <2>3, <2>4 DEF IInv
<1> QED
  BY <1>2, <1>3

LEMMA EndPollInv == ASSUME IInv, EndPoll PROVE IInv'
<1> USE DEF bufferVars, streamVars
<1>1. /\ Typed /\ turn = 3 /\ turn' = 0 /\ step = "enter" /\ result = "none"
      /\ left' = IF made THEN Timeout ELSE left
      /\ result' \in {"none", "ok"}
      /\ UNCHANGED <<phase, bufferVars, step, ops, made, woken, streamVars>>
  BY DEF IInv, EndPoll, Before, Dirs
<1>2. Typed'
  <2>1. left' \in 0..Timeout
    BY <1>1, CopyAssumption DEF Typed
  <2> QED
    BY <1>1, <2>1 DEF Typed
<1>3. Timed'
  <2>1. CASE made
    BY <1>1, <2>1, CopyAssumption DEF Typed, Timed, TimeoutMeansIdle
  <2>2. CASE ~made
    BY <1>1, <2>2 DEF IInv, Timed, TimeoutMeansIdle
  <2> QED
    BY <2>1, <2>2
<1>4. ASSUME NEW d \in Dirs PROVE Stream(d)' /\ Ends(d)' /\ Before(d)' /\ Registered(d)'
  <2>1. Stream(d)' /\ Ends(d)'
    BY <1>1 DEF IInv, Stream, Ends
  <2>2. Before(d)'
    BY <1>1 DEF Before
  <2>3. ~woken => Watched(d)
    BY <1>1 DEF IInv, Registered, Dirs
  <2>4. Registered(d)'
    BY <1>1, <2>3 DEF Registered, Watched, Dirs
  <2> QED
    BY <2>1, <2>2, <2>4
<1> QED
  BY <1>2, <1>3, <1>4 DEF IInv

LEMMA BecomesReadyInv ==
  ASSUME IInv, NEW d \in Dirs, NEW op \in Operations, BecomesReady(d, op) PROVE IInv'
<1> USE DEF bufferVars, pollVars
<1>1. /\ interest' = [interest EXCEPT ![d] = @ \ {op}] /\ woken' = TRUE
      /\ UNCHANGED <<phase, bufferVars, pollVars, left, result,
                     got, eof, delivered, dirty, shut, quiet>>
  BY DEF BecomesReady
<1>2. Typed'
  BY <1>1 DEF IInv, Typed
<1>3. Timed'
  BY <1>1 DEF IInv, Timed, TimeoutMeansIdle
<1>4. ASSUME NEW e \in Dirs PROVE Stream(e)' /\ Ends(e)' /\ Before(e)' /\ Registered(e)'
  BY <1>1 DEF IInv, Stream, Ends, Before, Registered
<1> QED
  BY <1>2, <1>3, <1>4 DEF IInv

LEMMA TickInv == ASSUME IInv, result = "none", Tick PROVE IInv'
<1> USE DEF bufferVars, pollVars
<1>1. /\ left > 0 /\ left' = left - 1 /\ quiet' = Least(quiet + 1, Timeout)
      /\ woken' = (woken \/ left = 1)
      /\ UNCHANGED <<phase, bufferVars, pollVars, result, interest,
                     got, eof, delivered, dirty, shut>>
  BY DEF Tick
<1>2. left' \in 0..Timeout /\ quiet' \in 0..Timeout
      /\ (quiet + left >= Timeout => quiet' + left' >= Timeout)
  BY <1>1, CopyAssumption DEF IInv, Typed, Least
<1>3. Typed'
  BY <1>1, <1>2 DEF IInv, Typed
<1>4. Timed'
  BY <1>1, <1>2 DEF IInv, Timed, TimeoutMeansIdle
<1>5. ASSUME NEW d \in Dirs PROVE Stream(d)' /\ Ends(d)' /\ Before(d)' /\ Registered(d)'
  BY <1>1 DEF IInv, Stream, Ends, Before, Registered, Watched
<1> QED
  BY <1>3, <1>4, <1>5 DEF IInv

LEMMA NextInv == IInv /\ [Next]_vars => IInv'
<1> SUFFICES ASSUME IInv, [Next]_vars PROVE IInv'
  OBVIOUS
<1>1. ASSUME NEW d \in Dirs, Transfer(d) PROVE IInv'
  BY <1>1, EnterInv, TopInv, IdleFlushInv, WriteBufferInv, RefillInv, WrapInv,
     EofFlushInv, ShutDownInv DEF Transfer
<1>2. CASE StartPoll
  BY <1>2, StartPollInv
<1>3. CASE EndPoll
  BY <1>3, EndPollInv
<1>4. CASE Streams
  BY <1>4, BecomesReadyInv DEF Streams
<1>5. CASE Clock
  BY <1>5, TickInv DEF Clock
<1>6. CASE UNCHANGED vars
  <2>1. Typed' /\ Timed'
    BY <1>6 DEF vars, IInv, Typed, Timed, TimeoutMeansIdle
  <2>2. ASSUME NEW d \in Dirs PROVE Stream(d)' /\ Ends(d)' /\ Before(d)' /\ Registered(d)'
    BY <1>6 DEF vars, IInv, Stream, Ends, Before, Registered, Watched
  <2> QED
    BY <2>1, <2>2 DEF IInv
<1> QED
  BY <1>1, <1>2, <1>3, <1>4, <1>5, <1>6 DEF Next, Task

LEMMA Invariance == Spec => []IInv
BY InitInv, NextInv, PTL DEF Spec
-----------------------------------------------------------------------------
(* SleepsSafely: whatever a sleeping task could do next will wake it, and a
   direction that waits for its source has its bytes flushed.               *)
THEOREM NoWakeupIsLost == Spec => []SleepsSafely
<1>1. IInv => SleepsSafely
  <2> SUFFICES ASSUME IInv PROVE SleepsSafely
    OBVIOUS
  <2>1. ASSUME NEW d \in Dirs
        PROVE  amt[d] = Len(delivered[d]) /\ buf[d] \in Seq(Nat) /\ Len(buf[d]) <= BufSize[d]
               /\ pos[d] \in 0..Len(buf[d])
    BY DEF IInv, Typed, Stream
  <2>2. TypeOK
    BY <2>1 DEF IInv, Typed, TypeOK
  <2>3. Asleep => \A d \in Dirs : Watched(d)
    BY DEF Asleep, IInv, Registered
  <2> QED
    BY <2>2, <2>3 DEF SleepsSafely, Watched
<1> QED
  BY <1>1, Invariance, PTL

(* TimeoutMeansIdle: a timeout is reported only after a full timeout in which
   no byte moved.                                                           *)
THEOREM TimeoutsAreIdle == Spec => []TimeoutMeansIdle
<1>1. IInv => TimeoutMeansIdle
  BY DEF IInv, Timed
<1> QED
  BY <1>1, Invariance, PTL
-----------------------------------------------------------------------------
(* The refinement: every call moves one of the two pipes of Relay, or none. *)
RelayStep == Pipes!RelayNext \/ UNCHANGED <<got, eof, delivered, dirty, shut, result>>

LEMMA Counting ==
  ASSUME NEW s \in Seq(Nat), Follow(s, 0) PROVE s = [i \in 1..Len(s) |-> i]
<1>1. s = [i \in 1..Len(s) |-> s[i]]
  OBVIOUS
<1>2. \A i \in 1..Len(s) : s[i] = i
  BY DEF Follow
<1> QED
  BY <1>1, <1>2

LEMMA FillRelays ==
  ASSUME IInv, NEW d \in Dirs, ~readDone[d], Fill(d), result = "none" PROVE RelayStep
<1>1. /\ UNCHANGED <<result, delivered, dirty, shut>>
      /\ \/ /\ \E n \in 1..Least(BufSize[d] - Len(buf[d]), Supply[d] - got[d]) :
                   got' = [got EXCEPT ![d] = @ + n]
            /\ UNCHANGED eof
         \/ eof' = [eof EXCEPT ![d] = TRUE] /\ UNCHANGED got
  BY DEF Fill, sinkVars
<1>2. CASE eof' = [eof EXCEPT ![d] = TRUE] /\ UNCHANGED got
  <2>1. Pipes!SourceEnds(d)
    BY <1>1, <1>2 DEF Pipes!SourceEnds
  <2> QED
    BY <2>1 DEF RelayStep, Pipes!RelayNext
<1>3. ASSUME NEW n \in 1..Least(BufSize[d] - Len(buf[d]), Supply[d] - got[d]),
             got' = [got EXCEPT ![d] = @ + n], UNCHANGED eof
      PROVE  RelayStep
  <2>1. /\ got[d] \in Nat /\ Supply[d] \in Nat /\ BufSize[d] \in Nat /\ Len(buf[d]) \in Nat
    BY CopyAssumption DEF IInv, Typed
  <2>2. PICK m \in got[d] + 1..Supply[d] : got' = [got EXCEPT ![d] = m]
    <3>1. got[d] + n \in got[d] + 1..Supply[d]
      BY <2>1 DEF Least
    <3> QED
      BY <1>3, <3>1
  <2>3. ~eof[d]
    BY DEF IInv, Ends
  <2>4. Pipes!Receive(d)
    BY <1>1, <1>3, <2>2, <2>3 DEF Pipes!Receive
  <2> QED
    BY <2>4 DEF RelayStep, Pipes!RelayNext
<1> QED
  BY <1>1, <1>2, <1>3

LEMMA FailRelays == ASSUME NEW d, NEW op, Fails(d, op), result = "none" PROVE RelayStep
<1>1. Pipes!GiveUp
  BY DEF Fails, streamVars, Pipes!GiveUp
<1> QED
  BY <1>1 DEF RelayStep, Pipes!RelayNext

LEMMA FlushRelays ==
  ASSUME NEW d \in Dirs, dirty' = [dirty EXCEPT ![d] = FALSE], result = "none",
         UNCHANGED <<got, eof, delivered, shut, result>>
  PROVE  RelayStep
<1>1. Pipes!Flush(d)
  BY DEF Pipes!Flush
<1> QED
  BY <1>1 DEF RelayStep, Pipes!RelayNext

LEMMA WriteRelays == ASSUME IInv, IInv', NEW d \in Dirs, WriteBuffer(d) PROVE RelayStep
<1>1. result = "none" /\ turn = d /\ step = "write"
  BY DEF WriteBuffer, Polling
<1>2. CASE Fails(d, "write")
  BY <1>1, <1>2, FailRelays
<1>3. CASE Pends(d, "write") /\ UNCHANGED result
  BY <1>3 DEF Pends, RelayStep
<1>4. ASSUME NEW n \in 1..Len(buf[d]) - pos[d], Write(d, n),
             delivered' = [delivered EXCEPT ![d] =
                             @ \o SubSeq(buf[d], pos[d] + 1, pos[d] + n)],
             dirty' = [dirty EXCEPT ![d] = TRUE],
             UNCHANGED <<result, got, eof, shut>>
      PROVE  RelayStep
  <2>1. /\ amt[d] \in Nat /\ pos[d] \in Nat /\ buf[d] \in Seq(Nat) /\ n \in Nat /\ n > 0
        /\ amt'[d] = amt[d] + n
    <3>1. amt \in [Dirs -> Nat] /\ pos[d] \in Nat /\ buf[d] \in Seq(Nat)
      BY DEF IInv, Typed
    <3>2. n \in Nat /\ n > 0
      <4>1. PICK l \in Nat : l = Len(buf[d])
        BY <3>1
      <4>2. n \in 1..l - pos[d]
        BY <1>4, <4>1
      <4> QED
        BY <3>1, <4>1, <4>2
    <3>3. amt'[d] = amt[d] + n
      BY <1>4, <3>1 DEF Write
    <3> QED
      BY <3>1, <3>2, <3>3
  <2>2. /\ Len(delivered[d]) = amt[d] /\ Len(delivered'[d]) = amt[d] + n
        /\ delivered'[d] \in Seq(Nat) /\ Follow(delivered'[d], 0)
    BY <2>1 DEF IInv, Stream, Typed
  <2>3. Len(delivered'[d]) <= got[d]
    <3>1. /\ Len(delivered'[d]) + Len(buf'[d]) = got'[d] + pos'[d]
          /\ pos'[d] <= Len(buf'[d])
      BY DEF IInv, Stream
    <3>2. PICK m, l, g, p \in Nat : /\ m = Len(delivered'[d]) /\ l = Len(buf'[d])
                                    /\ g = got'[d] /\ p = pos'[d]
      BY DEF IInv, Typed
    <3>3. m + l = g + p /\ p <= l
      BY <3>1, <3>2
    <3>4. m <= g
      BY <3>3
    <3> QED
      BY <1>4, <3>2, <3>4
  <2>4. PICK m : m = Len(delivered'[d])
    OBVIOUS
  <2>5. m \in Len(delivered[d]) + 1..got[d]
    <3>1. m \in Nat /\ got[d] \in Nat
      BY <2>2, <2>4 DEF IInv, Typed
    <3> QED
      BY <2>1, <2>2, <2>3, <2>4, <3>1
  <2>6. delivered' = [delivered EXCEPT ![d] = [i \in 1..m |-> i]]
    <3>1. delivered'[d] = [i \in 1..m |-> i]
      BY <2>2, <2>4, Counting
    <3> QED
      BY <1>4, <3>1 DEF IInv, Typed
  <2>7. ~shut[d]
    BY <1>1 DEF IInv, Before, Ends
  <2>8. Pipes!Deliver(d)
    BY <1>4, <2>5, <2>6, <2>7 DEF Pipes!Deliver
  <2> QED
    BY <1>1, <2>8 DEF RelayStep, Pipes!RelayNext
<1> QED
  BY <1>2, <1>3, <1>4 DEF WriteBuffer

LEMMA ShutDownRelays == ASSUME IInv, NEW d \in Dirs, ShutDown(d) PROVE RelayStep
<1>1. result = "none" /\ turn = d /\ step = "shutdown"
  BY DEF ShutDown, Polling
<1>2. CASE shut' = [shut EXCEPT ![d] = TRUE] /\ UNCHANGED <<result, got, eof, delivered, dirty>>
  <2>1. eof[d] /\ ~dirty[d] /\ pos[d] = Len(buf[d])
    BY <1>1 DEF IInv, Before, Ends
  <2>2. Len(delivered[d]) = got[d]
    <3>1. Len(delivered[d]) + Len(buf[d]) = got[d] + Len(buf[d])
      BY <2>1 DEF IInv, Stream
    <3>2. Len(delivered[d]) \in Nat /\ Len(buf[d]) \in Nat /\ got[d] \in Nat
      BY DEF IInv, Typed
    <3> QED
      BY <3>1, <3>2, Cancels
  <2>3. Pipes!ShutDown(d)
    BY <1>2, <2>1, <2>2 DEF Pipes!ShutDown
  <2> QED
    BY <1>1, <2>3 DEF RelayStep, Pipes!RelayNext
<1>3. CASE Pends(d, "shutdown") /\ UNCHANGED result
  BY <1>3 DEF Pends, RelayStep
<1>4. CASE Fails(d, "shutdown")
  BY <1>1, <1>4, FailRelays
<1> QED
  BY <1>2, <1>3, <1>4 DEF ShutDown

LEMMA TransferRelays == ASSUME IInv, IInv', NEW d \in Dirs, Transfer(d) PROVE RelayStep
<1>1. result = "none"
  BY DEF Transfer, Enter, Top, IdleFlush, WriteBuffer, Refill, Wrap, EofFlush, ShutDown, Polling
<1>2. CASE Enter(d) \/ Wrap(d)
  BY <1>2 DEF Enter, Wrap, streamVars, RelayStep
<1>3. CASE Top(d)
  BY <1>1, <1>3, FillRelays, FailRelays
     DEF Top, CanFill, FillPends, Pends, streamVars, RelayStep
<1>4. CASE Refill(d)
  <2>1. ~readDone[d]
    BY <1>4 DEF Refill, Polling, IInv, Before
  <2> QED
    BY <1>1, <1>4, <2>1, FillRelays, FailRelays DEF Refill, Pends, RelayStep
<1>5. CASE IdleFlush(d)
  BY <1>1, <1>5, FlushRelays, FailRelays DEF IdleFlush, Pends, RelayStep
<1>6. CASE EofFlush(d)
  BY <1>1, <1>6, FlushRelays, FailRelays DEF EofFlush, Pends, RelayStep
<1>7. CASE WriteBuffer(d) \/ ShutDown(d)
  BY <1>7, WriteRelays, ShutDownRelays
<1> QED
  BY <1>2, <1>3, <1>4, <1>5, <1>6, <1>7 DEF Transfer

LEMMA NextRelays == IInv /\ IInv' /\ [Next]_vars => RelayStep
<1> SUFFICES ASSUME IInv, IInv', [Next]_vars PROVE RelayStep
  OBVIOUS
<1>1. ASSUME NEW d \in Dirs, Transfer(d) PROVE RelayStep
  BY <1>1, TransferRelays
<1>2. CASE StartPoll
  <2>1. CASE left = 0
    <3>1. Pipes!GiveUp
      BY <1>2, <2>1 DEF StartPoll, streamVars, Pipes!GiveUp
    <3> QED
      BY <1>2, <3>1 DEF StartPoll, RelayStep, Pipes!RelayNext
  <2>2. CASE left # 0
    BY <1>2, <2>2 DEF StartPoll, streamVars, RelayStep
  <2> QED
    BY <2>1, <2>2
<1>3. CASE EndPoll
  <2>1. CASE \A d \in Dirs : phase[d] = "Done"
    <3>1. \A d \in Dirs : shut[d]
      BY <2>1 DEF IInv, Ends
    <3>2. Pipes!Succeed
      BY <1>3, <2>1, <3>1 DEF EndPoll, streamVars, Pipes!Succeed
    <3> QED
      BY <1>3, <3>2 DEF EndPoll, RelayStep, Pipes!RelayNext
  <2>2. CASE ~\A d \in Dirs : phase[d] = "Done"
    BY <1>3, <2>2 DEF EndPoll, streamVars, RelayStep
  <2> QED
    BY <2>1, <2>2
<1>4. CASE Streams \/ Clock
  BY <1>4 DEF Streams, BecomesReady, Clock, Tick, RelayStep
<1>5. CASE UNCHANGED vars
  BY <1>5 DEF vars, RelayStep
<1> QED
  BY <1>1, <1>2, <1>3, <1>4, <1>5 DEF Next, Task

(* ImplementsRelay: the copy is two pipes in which nothing is lost, repeated
   or reordered, which are shut down only complete and flushed, and whose
   success means that both are.                                             *)
THEOREM CopyIsRelay == Spec => ImplementsRelay
<1>1. Init => Pipes!RelayInit
  BY DEF Init, Pipes!RelayInit
<1>2. IInv /\ IInv' /\ [Next]_vars => [Pipes!RelayNext]_(Pipes!relayVars)
  BY NextRelays DEF RelayStep, Pipes!relayVars
<1> QED
  BY <1>1, <1>2, Invariance, PTL DEF Spec, ImplementsRelay, Pipes!RelaySpec
=============================================================================
