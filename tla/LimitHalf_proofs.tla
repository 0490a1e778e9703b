-------------------------- MODULE LimitHalf_proofs --------------------------
(* Proofs about LimitHalf, for every set of permit and buffer sizes.        *)
EXTENDS LimitHalf, TLAPS

(* The remainder of the current permit, as the state records it.            *)
Left == IF state = "Moving" THEN len - done ELSE 0

IInv ==
  /\ TypeOK
  /\ state = "Moving" => done < len
  /\ panics = 0 => credit = Left /\ state \notin {"WaitingNone", "MovingNone"}
  /\ NoSpuriousEof

(* The inner poll of any arm that still has something of its permit left.   *)
LEMMA TransferInv ==
  ASSUME IInv, NEW room \in Rooms, NEW l \in Permits, NEW d \in 0..l - 1,
         NEW fresh \in {0, l}, NEW torn \in {"Idle", "WaitingNone", "MovingNone"},
         calling, Transfer(room, l, d, fresh, torn),
         panics = 0 => credit + fresh = l - d
  PROVE  IInv'
<1> USE LimitHalfAssumption
<1> DEFINE cap == Capacity(room, l - d)
<1>1. /\ l \in Nat /\ l > 0 /\ d \in Nat /\ d < l /\ room \in Nat
      /\ credit \in Int /\ fresh \in Int
  BY DEF IInv, TypeOK
<1>2. /\ cap \in Nat /\ cap <= l - d /\ (room > 0 => cap > 0)
  BY <1>1 DEF Capacity, Least
<1>3. starved' = (room > 0 /\ cap = 0) /\ permit' = 0
  BY DEF Transfer
<1> HIDE DEF cap
<1>4. NoSpuriousEof' /\ starved' \in BOOLEAN
  <2>1. ~(room > 0 /\ cap = 0)
    BY <1>1, <1>2
  <2> QED
    BY <1>3, <2>1, Zenon DEF NoSpuriousEof
<1>9. 0 \in 0..0 /\ panics \in 0..MaxPanics /\ calling \in BOOLEAN
  BY DEF IInv, TypeOK
<1>5. CASE \E n \in 0..cap : /\ Settle(l, d + n) /\ credit' = credit + fresh - n
                             /\ Return /\ inner' \in {"dry", "ready"} /\ UNCHANGED panics
  <2>1. PICK n \in 0..cap : /\ Settle(l, d + n) /\ credit' = credit + fresh - n
                            /\ Return /\ inner' \in {"dry", "ready"} /\ UNCHANGED panics
    BY <1>5
  <2>2. n \in Nat /\ d + n \in 0..l
    <3>1. n \in Nat /\ n <= cap
      BY <1>2
    <3> QED
      BY <1>1, <1>2, <3>1
  <2>3. CASE d + n >= l
    <3>1. Idle /\ d + n = l
      BY <1>1, <2>1, <2>2, <2>3 DEF Settle
    <3>2. credit' \in Int /\ (panics = 0 => credit' = 0)
      BY <1>1, <2>1, <2>2, <3>1
    <3> QED
      BY <1>3, <1>4, <1>9, <2>1, <3>1, <3>2 DEF Idle, Return, IInv, TypeOK, Left
  <2>4. CASE ~(d + n >= l)
    <3>1. Keep(l, d + n) /\ d + n < l /\ d + n \in 0..l
      BY <1>1, <2>1, <2>2, <2>4 DEF Settle
    <3>2. credit' \in Int /\ (panics = 0 => credit' = l - (d + n))
      BY <1>1, <2>1, <2>2
    <3> QED
      BY <1>3, <1>4, <1>9, <2>1, <3>1, <3>2 DEF Keep, Return, IInv, TypeOK, Left
  <2> QED
    BY <2>3, <2>4
<1>6. CASE /\ Idle /\ credit' = credit + fresh - (l - d)
           /\ Return /\ inner' \in {"dry", "ready"} /\ UNCHANGED panics
  <2>1. credit' \in Int /\ (panics = 0 => credit' = 0)
    BY <1>1, <1>6
  <2> QED
    BY <1>3, <1>4, <1>6, <1>9, <2>1 DEF Idle, Return, IInv, TypeOK, Left
<1>7. CASE /\ inner = "dry" /\ Keep(l, d) /\ parked' = "inner"
           /\ credit' = credit + fresh /\ UNCHANGED <<inner, calling, panics>>
  BY <1>1, <1>3, <1>4, <1>7 DEF Keep, IInv, TypeOK, Left
<1>8. CASE /\ panics < MaxPanics /\ panics' = panics + 1 /\ Return
           /\ state' = torn /\ len' = 0 /\ done' = 0
           /\ credit' = credit + fresh - (l - d) /\ UNCHANGED inner
  <2>1. panics' \in 1..MaxPanics
    BY <1>8 DEF IInv, TypeOK
  <2>2. panics' # 0 /\ panics' \in 0..MaxPanics /\ credit' \in Int
    BY <2>1, <1>1, <1>8
  <2> QED
    BY <1>3, <1>4, <1>8, <1>9, <2>2 DEF Return, IInv, TypeOK
<1> QED
  BY <1>5, <1>6, <1>7, <1>8 DEF Transfer, cap

LEMMA InitInv == Init => IInv
<1> SUFFICES ASSUME Init PROVE IInv
  OBVIOUS
<1>1. 0 \in 0..0 /\ 0 \in 0..MaxPanics /\ 0 \in Nat
  BY LimitHalfAssumption
<1>3. starved \in BOOLEAN /\ NoSpuriousEof
  BY DEF Init, NoSpuriousEof
<1>4. credit \in Int /\ credit = Left
  BY DEF Init, Left
<1>5. TypeOK
  BY <1>1, <1>3, <1>4 DEF Init, TypeOK
<1> QED
  BY <1>3, <1>4, <1>5 DEF Init, IInv

(* One case per arm of the match, then the caller and the environment.      *)
LEMMA NextInv == IInv /\ [Next]_vars => IInv'
<1> SUFFICES ASSUME IInv, [Next]_vars PROVE IInv'
  OBVIOUS
<1> USE LimitHalfAssumption
<1>1. ASSUME NEW room \in Rooms, calling, PollIdle(room) PROVE IInv'
  <2>1. ASSUME NEW n \in Permits, Transfer(room, n, 0, n, "Idle") PROVE IInv'
    <3>1. 0 \in 0..n - 1 /\ n \in {0, n} /\ (panics = 0 => credit + n = n - 0)
      BY <1>1 DEF PollIdle, IInv, TypeOK, Left
    <3> QED
      BY <1>1, <2>1, <3>1, TransferInv
  <2>2. CASE /\ state' = "Waiting" /\ permit' = 0 /\ parked' = "permit"
             /\ UNCHANGED <<len, done, inner, calling, credit, starved, panics>>
    BY <1>1, <2>2 DEF PollIdle, IInv, TypeOK, Left, NoSpuriousEof
  <2> QED
    BY <1>1, <2>1, <2>2 DEF PollIdle
<1>2. ASSUME NEW room \in Rooms, calling, PollWaiting(room) PROVE IInv'
  <2>1. CASE permit > 0 /\ Transfer(room, permit, 0, permit, "WaitingNone")
    <3>1. /\ permit \in Permits /\ 0 \in 0..permit - 1 /\ permit \in {0, permit}
          /\ panics = 0 => credit + permit = permit - 0
      BY <1>2, <2>1 DEF PollWaiting, IInv, TypeOK, Left
    <3> QED
      BY <1>2, <2>1, <3>1, TransferInv
  <2>2. CASE /\ permit = 0 /\ parked' = "permit"
             /\ UNCHANGED <<state, len, done, permit, inner, calling, credit, starved, panics>>
    BY <2>2 DEF IInv, TypeOK, Left, NoSpuriousEof
  <2> QED
    BY <1>2, <2>1, <2>2 DEF PollWaiting
<1>3. ASSUME NEW room \in Rooms, calling, PollMoving(room) PROVE IInv'
  <2>1. /\ len \in Permits /\ done \in 0..len - 1 /\ 0 \in {0, len}
        /\ panics = 0 => credit + 0 = len - done
    BY <1>3 DEF PollMoving, IInv, TypeOK, Left
  <2> QED
    BY <1>3, <2>1, TransferInv DEF PollMoving
<1>4. ASSUME NEW room \in Rooms, calling, PollMovingNone(room) PROVE IInv'
  <2>1. panics # 0 /\ state = "MovingNone" /\ room \in Nat
    BY <1>4 DEF PollMovingNone, IInv
  <2>2. starved' = FALSE /\ permit' = permit
    BY <1>4 DEF PollMovingNone
  <2>3. CASE /\ inner = "ready" /\ Idle /\ Return
             /\ \E n \in 0..room : credit' = credit - n
             /\ inner' \in {"dry", "ready"} /\ UNCHANGED panics
    <3>1. credit' \in Int
      BY <2>1, <2>3 DEF IInv, TypeOK
    <3>2. 0 \in 0..0
      OBVIOUS
    <3> QED
      BY <2>1, <2>2, <2>3, <3>1, <3>2 DEF Idle, Return, IInv, TypeOK, NoSpuriousEof
  <2>4. CASE /\ inner = "dry" /\ parked' = "inner"
             /\ UNCHANGED <<state, len, done, inner, calling, credit, panics>>
    BY <2>1, <2>2, <2>4 DEF IInv, TypeOK, NoSpuriousEof
  <2>5. CASE /\ panics < MaxPanics /\ panics' = panics + 1 /\ Return
             /\ UNCHANGED <<state, len, done, inner, credit>>
    <3>1. panics' # 0 /\ panics' \in 0..MaxPanics
      BY <2>5 DEF IInv, TypeOK
    <3> QED
      BY <2>1, <2>2, <2>5, <3>1 DEF Return, IInv, TypeOK, NoSpuriousEof
  <2> QED
    BY <1>4, <2>3, <2>4, <2>5 DEF PollMovingNone
<1>5. CASE PollWaitingNone
  BY <1>5 DEF PollWaitingNone, Return, IInv, TypeOK, Left, NoSpuriousEof
<1>6. CASE Begin \/ GiveUp \/ Admit \/ InnerReady
  <2>1. CASE Begin
    BY <2>1 DEF Begin, IInv, TypeOK, Left, NoSpuriousEof
  <2>2. CASE GiveUp
    BY <2>2 DEF GiveUp, Return, IInv, TypeOK, Left, NoSpuriousEof
  <2>3. CASE Admit
    BY <2>3 DEF Admit, IInv, TypeOK, Left, NoSpuriousEof
  <2>4. CASE InnerReady
    BY <2>4 DEF InnerReady, IInv, TypeOK, Left, NoSpuriousEof
  <2> QED
    BY <1>6, <2>1, <2>2, <2>3, <2>4
<1>7. CASE UNCHANGED vars
  BY <1>7 DEF vars, IInv, TypeOK, Left, NoSpuriousEof
<1> QED
  BY <1>1, <1>2, <1>3, <1>4, <1>5, <1>6, <1>7 DEF Next, Poll

(* Whatever is abandoned or fails, the state knows what is left of its permit. *)
THEOREM HalfInvariance == Spec => []IInv
BY InitInv, NextInv, PTL DEF Spec

(* The fields of the state stay within their permit, whatever is abandoned:
   len - done never wraps.                                                  *)
THEOREM HalfTypeCorrect == Spec => []TypeOK
<1>1. IInv => TypeOK
  BY DEF IInv
<1> QED
  BY HalfInvariance, <1>1, PTL

(* As long as the inner stream does not panic, the state holds exactly what
   is left of the permits, and every transfer is covered by one.            *)
THEOREM HalfMetersEveryByte == Spec => []CreditBacked
<1>1. IInv => CreditBacked
  <2> SUFFICES ASSUME IInv PROVE CreditBacked
    OBVIOUS
  <2>2. len \in Nat
    BY LimitHalfAssumption DEF IInv, TypeOK
  <2>3. done \in 0..len /\ (state = "Moving" => done < len)
    BY DEF IInv, TypeOK
  <2>4. state = "Moving" => len - done > 0
    BY <2>2, <2>3
  <2> QED
    BY <2>4 DEF IInv, CreditBacked, Left
<1> QED
  BY HalfInvariance, <1>1, PTL

(* The half never reports an end of the stream that the inner one did not.  *)
THEOREM HalfNoSpuriousEof == Spec => []NoSpuriousEof
<1>1. IInv => NoSpuriousEof
  BY DEF IInv
<1> QED
  BY HalfInvariance, <1>1, PTL
-----------------------------------------------------------------------------
(* The bytes moved without a permit, and the panics that have been used for
   it: one that has just left Moving(None) behind is still open.            *)
Deficit == Left - credit
Ridden  == IF state = "MovingNone" THEN panics - 1 ELSE panics

RideInv ==
  /\ state = "MovingNone" => panics > 0
  /\ \E room \in Rooms : Deficit <= Ridden * room

(* Products of numbers grow with their factors.                             *)
LEMMA ProductGrows ==
  ASSUME NEW p \in Nat, NEW q \in Nat, NEW a \in Nat, NEW b \in Nat, p <= q, a <= b
  PROVE  p * a <= q * b /\ p * a \in Nat /\ q * b \in Nat
<1>1. p * a \in Nat /\ q * a \in Nat /\ q * b \in Nat /\ (q - p) * a \in Nat /\ q * (b - a) \in Nat
  <2>1. q - p \in Nat /\ b - a \in Nat
    OBVIOUS
  <2> QED
    BY <2>1
<1>2. q * a = p * a + (q - p) * a
  OBVIOUS
<1>3. q * b = q * a + q * (b - a)
  OBVIOUS
<1> QED
  BY <1>1, <1>2, <1>3

(* More panics do not make the bound smaller.                               *)
LEMMA RidesKept ==
  ASSUME IInv, RideInv, Deficit' = Deficit, Ridden' \in Nat, Ridden <= Ridden',
         state' = "MovingNone" => panics' > 0
  PROVE  RideInv'
<1>1. PICK room \in Rooms : Deficit <= Ridden * room
  BY DEF RideInv
<1>2. panics \in Nat /\ room \in Nat
  BY LimitHalfAssumption DEF IInv, TypeOK
<1>3. Ridden \in Nat
  BY <1>2 DEF RideInv, Ridden
<1>4. \A p, q \in Nat : p <= q => p * room <= q * room /\ p * room \in Nat /\ q * room \in Nat
  <2>1. room <= room
    BY <1>2
  <2> QED
    BY <2>1, <1>2, ProductGrows
<1>5. /\ Ridden * room <= Ridden' * room
      /\ Ridden * room \in Nat /\ Ridden' * room \in Nat
  BY <1>3, <1>4, Zenon
<1>6. Deficit \in Int
  BY LimitHalfAssumption DEF IInv, TypeOK, Left, Deficit
<1>7. Deficit' <= Ridden' * room
  <2> DEFINE x == Ridden * room
             y == Ridden' * room
  <2>1. Deficit <= x /\ x <= y /\ x \in Nat /\ y \in Nat
    BY <1>1, <1>5
  <2> HIDE DEF x, y
  <2>2. Deficit <= y
    BY <2>1, <1>6
  <2> QED
    BY <2>2 DEF y
<1> QED
  BY <1>7 DEF RideInv

(* A transfer under a permit moves what it takes from the permit, and a
   panic in it gives up the rest.                                           *)
LEMMA TransferRides ==
  ASSUME IInv, RideInv, NEW room \in Rooms, NEW l \in Permits, NEW d \in 0..l - 1,
         NEW fresh \in {0, l}, NEW torn \in {"Idle", "WaitingNone", "MovingNone"},
         Transfer(room, l, d, fresh, torn),
         Left + fresh = l - d, state # "MovingNone"
  PROVE  RideInv'
<1>1. /\ l \in Nat /\ d \in Nat /\ d < l /\ room \in Nat /\ credit \in Int
      /\ fresh \in Int /\ Left \in Int /\ panics \in Nat
  BY LimitHalfAssumption DEF IInv, TypeOK, Left
<1>2. Capacity(room, l - d) \in Nat /\ Capacity(room, l - d) <= l - d
  BY <1>1 DEF Capacity, Least
<1>3. Ridden = panics
  BY DEF Ridden
<1>4. CASE \E n \in 0..Capacity(room, l - d) :
             Settle(l, d + n) /\ credit' = credit + fresh - n /\ UNCHANGED panics
  <2>1. PICK n \in 0..Capacity(room, l - d) :
               Settle(l, d + n) /\ credit' = credit + fresh - n /\ UNCHANGED panics
    BY <1>4
  <2>2. n \in Nat /\ n <= l - d
    BY <1>1, <1>2
  <2>3. Left' = l - (d + n) /\ state' # "MovingNone"
    BY <1>1, <2>1, <2>2 DEF Settle, Idle, Keep, Left
  <2>4. Deficit' = Deficit
    BY <1>1, <2>1, <2>2, <2>3 DEF Deficit
  <2> QED
    BY <1>1, <1>3, <2>1, <2>3, <2>4, RidesKept DEF Ridden
<1>5. CASE Idle /\ credit' = credit + fresh - (l - d) /\ UNCHANGED panics
  <2>1. Left' = 0 /\ state' # "MovingNone"
    BY <1>5 DEF Idle, Left
  <2>2. Deficit' = Deficit
    BY <1>1, <1>5, <2>1 DEF Deficit
  <2> QED
    BY <1>1, <1>3, <1>5, <2>1, <2>2, RidesKept DEF Ridden
<1>6. CASE inner = "dry" /\ Keep(l, d) /\ credit' = credit + fresh /\ UNCHANGED panics
  <2>1. Left' = l - d /\ state' # "MovingNone"
    BY <1>6 DEF Keep, Left
  <2>2. Deficit' = Deficit
    BY <1>1, <1>6, <2>1 DEF Deficit
  <2> QED
    BY <1>1, <1>3, <1>6, <2>1, <2>2, RidesKept DEF Ridden
<1>7. CASE panics' = panics + 1 /\ state' = torn /\ credit' = credit + fresh - (l - d)
  <2>1. Left' = 0
    BY <1>7 DEF Left
  <2>2. Deficit' = Deficit
    BY <1>1, <1>7, <2>1 DEF Deficit
  <2>3. Ridden' \in Nat /\ Ridden <= Ridden' /\ panics' > 0
    BY <1>1, <1>3, <1>7 DEF Ridden
  <2> QED
    BY <2>2, <2>3, RidesKept
<1> QED
  BY <1>4, <1>5, <1>6, <1>7 DEF Transfer

(* The one transfer that no permit covers: it uses a panic up.              *)
LEMMA FreeRide ==
  ASSUME IInv, RideInv, NEW room \in Rooms, NEW n \in 0..room, state = "MovingNone",
         Idle, credit' = credit - n, UNCHANGED panics
  PROVE  RideInv'
<1>1. PICK r \in Rooms : Deficit <= Ridden * r
  BY DEF RideInv
<1>2. PICK most \in Rooms : r <= most /\ room <= most
  <2>1. r \in Nat /\ room \in Nat
    BY LimitHalfAssumption
  <2> QED
    BY <2>1
<1>3. /\ r \in Nat /\ room \in Nat /\ most \in Nat /\ n \in Nat /\ n <= room
      /\ panics \in Nat /\ panics > 0 /\ credit \in Int
  BY LimitHalfAssumption DEF IInv, TypeOK, RideInv
<1>4. /\ Ridden = panics - 1 /\ Ridden' = panics /\ panics - 1 \in Nat
      /\ Deficit = 0 - credit /\ Deficit' = 0 - credit + n
  BY <1>3 DEF Ridden, Deficit, Left, Idle
<1>5. (panics - 1) * r <= (panics - 1) * most
  BY <1>2, <1>3, <1>4, ProductGrows
<1>6. panics * most = (panics - 1) * most + most
  BY <1>3
<1>7. (panics - 1) * r \in Nat /\ (panics - 1) * most \in Nat
  BY <1>3, <1>4
<1>8. Deficit' <= Ridden' * most
  <2> DEFINE x == (panics - 1) * r
             y == (panics - 1) * most
  <2>1. 0 - credit <= x /\ x <= y /\ x \in Nat /\ y \in Nat
    BY <1>1, <1>4, <1>5, <1>7
  <2>2. Ridden' * most = y + most
    BY <1>4, <1>6
  <2> HIDE DEF x, y
  <2>3. 0 - credit + n <= y + most
    BY <2>1, <1>2, <1>3
  <2> QED
    BY <1>4, <2>2, <2>3
<1>9. state' # "MovingNone"
  BY DEF Idle
<1> QED
  BY <1>8, <1>9 DEF RideInv

(* However often the inner stream panics, every panic lets at most one
   buffer of some size the caller offers through without a permit.          *)
THEOREM HalfRidesBounded == Spec => []FreeRideBounded
<1>1. Init => RideInv
  <2> SUFFICES ASSUME Init PROVE RideInv
    OBVIOUS
  <2>1. PICK room \in Rooms : TRUE
    BY LimitHalfAssumption
  <2>2. Deficit <= Ridden * room
    BY <2>1, LimitHalfAssumption DEF Init, Deficit, Left, Ridden
  <2> QED
    BY <2>2 DEF Init, RideInv
<1>2. ASSUME IInv, RideInv, [Next]_vars PROVE RideInv'
  <2>0. panics \in Nat
    BY <1>2, LimitHalfAssumption DEF IInv, TypeOK
  <2>1. ASSUME NEW room \in Rooms, PollIdle(room) PROVE RideInv'
    <3>1. ASSUME NEW n \in Permits, Transfer(room, n, 0, n, "Idle") PROVE RideInv'
      <4>1. 0 \in 0..n - 1 /\ n \in {0, n} /\ Left + n = n - 0 /\ state # "MovingNone"
        BY <2>1, LimitHalfAssumption DEF PollIdle, Left
      <4> QED
        BY <1>2, <3>1, <4>1, TransferRides
    <3>2. CASE state' = "Waiting" /\ UNCHANGED <<credit, panics>>
      BY <1>2, <2>1, <3>2 DEF PollIdle, RideInv, Deficit, Left, Ridden
    <3> QED
      BY <2>1, <3>1, <3>2 DEF PollIdle
  <2>2. ASSUME NEW room \in Rooms, PollWaiting(room) PROVE RideInv'
    <3>1. CASE permit > 0 /\ Transfer(room, permit, 0, permit, "WaitingNone")
      <4>1. /\ permit \in Permits /\ 0 \in 0..permit - 1 /\ permit \in {0, permit}
            /\ Left + permit = permit - 0 /\ state # "MovingNone"
        BY <1>2, <2>2, <3>1, LimitHalfAssumption DEF PollWaiting, IInv, TypeOK, Left
      <4> QED
        BY <1>2, <3>1, <4>1, TransferRides
    <3>2. CASE UNCHANGED <<state, len, done, credit, panics>>
      BY <1>2, <3>2 DEF RideInv, Deficit, Left, Ridden
    <3> QED
      BY <2>2, <3>1, <3>2 DEF PollWaiting
  <2>3. ASSUME NEW room \in Rooms, PollMoving(room) PROVE RideInv'
    <3>1. /\ len \in Permits /\ done \in 0..len - 1 /\ 0 \in {0, len}
          /\ Left + 0 = len - done /\ state # "MovingNone"
      BY <1>2, <2>3, LimitHalfAssumption DEF PollMoving, IInv, TypeOK, Left
    <3> QED
      BY <1>2, <2>3, <3>1, TransferRides DEF PollMoving
  <2>4. ASSUME NEW room \in Rooms, PollMovingNone(room) PROVE RideInv'
    <3>1. CASE Idle /\ UNCHANGED panics /\ \E n \in 0..room : credit' = credit - n
      BY <1>2, <2>4, <3>1, FreeRide DEF PollMovingNone
    <3>2. CASE UNCHANGED <<state, len, done, credit, panics>>
      BY <1>2, <3>2 DEF RideInv, Deficit, Left, Ridden
    <3>3. CASE panics' = panics + 1 /\ UNCHANGED <<state, len, done, credit>>
      <4>1. Deficit' = Deficit /\ Ridden' \in Nat /\ Ridden <= Ridden' /\ panics' > 0
        BY <1>2, <2>0, <3>3 DEF Deficit, Left, Ridden, RideInv
      <4> QED
        BY <1>2, <4>1, RidesKept
    <3> QED
      BY <2>4, <3>1, <3>2, <3>3 DEF PollMovingNone
  <2>5. CASE PollWaitingNone \/ Begin \/ GiveUp \/ Admit \/ InnerReady \/ UNCHANGED vars
    <3>1. UNCHANGED <<state, len, done, credit, panics>>
      BY <2>5 DEF PollWaitingNone, Begin, GiveUp, Admit, InnerReady, vars
    <3> QED
      BY <1>2, <3>1 DEF RideInv, Deficit, Left, Ridden
  <2> QED
    BY <1>2, <2>1, <2>2, <2>3, <2>4, <2>5 DEF Next, Poll
<1>3. ASSUME IInv, RideInv PROVE FreeRideBounded
  <2>1. PICK room \in Rooms : Deficit <= Ridden * room
    BY <1>3 DEF RideInv
  <2>2. panics \in Nat /\ room \in Nat /\ credit \in Int /\ Left \in Nat
    BY <1>3, LimitHalfAssumption DEF IInv, TypeOK, Left
  <2>3. Ridden \in Nat /\ Ridden <= panics
    BY <1>3, <2>2 DEF RideInv, Ridden
  <2>4. Ridden * room <= panics * room /\ Ridden * room \in Nat /\ panics * room \in Nat
    BY <2>2, <2>3, ProductGrows
  <2> DEFINE x == Ridden * room
             y == panics * room
  <2>5. Left - credit <= x /\ x <= y /\ x \in Nat /\ y \in Nat
    BY <2>1, <2>4 DEF Deficit
  <2> HIDE DEF x, y
  <2>6. credit >= 0 - y
    BY <2>2, <2>5
  <2> QED
    BY <2>6 DEF FreeRideBounded, y
<1>4. IInv /\ RideInv => FreeRideBounded
  BY <1>3
<1> QED
  BY HalfInvariance, <1>1, <1>2, <1>4, PTL DEF Spec
=============================================================================
