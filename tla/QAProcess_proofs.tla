-------------------------- MODULE QAProcess_proofs --------------------------
(* Proofs about QAProcess, for questions, buffers and pipes of every size.  *)
EXTENDS QAProcess, SequenceTheorems, TLAPS

Typed ==
  /\ TypeOK
  /\ pipe \in [Outs -> Seq(Nat)] /\ stdin \in Seq({"a", "nl"})
  /\ {offset, match, noise} \subseteq [Outs -> Nat]
  /\ {asks, replies, line} \subseteq Nat /\ broken \in BOOLEAN

Above(n) == IF n > 0 THEN n ELSE 0

(* The child has written c bytes of a question that is not answered yet, last
   of all and on one pipe: the bytes still in a pipe follow from c, whatever
   was read.                                                                *)
Content(c) ==
  \A p \in Outs : \A i \in 1..Len(pipe[p]) :
    pipe[p][i] = IF p = on THEN Above(c - Len(pipe[p]) + i) ELSE 0

(* A call has read at most the other output and these c bytes ...           *)
Amount(c) ==
  \A p \in Outs :
    offset[p] + Len(pipe[p]) <= noise[p] + (IF p = on THEN c ELSE 0)

(* ... and knows how many of the c it has read, or some had been read before. *)
Matched(c) ==
  c > Len(pipe[on]) =>
    \/ match[on] = c - Len(pipe[on])
    \/ offset[on] + Len(pipe[on]) < noise[on] + c

(* A call that has seen the question has read all of it; while it answers no
   other question is on its way, nor is after the newline.                  *)
Turns(c) ==
  /\ child \in {"busy", "printing"} => c = 0 /\ asked = 0
  /\ child = "asking" => c = asked /\ asked < QLen
  /\ child = "waiting" => asked = 0
  /\ stage = "select" => \A p \in Outs : match[p] < QLen
  /\ stage \in {"answer", "newline"} =>
       c = QLen /\ pipe[on] = <<>> /\ child \notin {"busy", "printing", "asking"}
  /\ \A i \in 1..Len(stdin) : stdin[i] = "nl" =>
       /\ i = Len(stdin) /\ c = 0
       /\ child \notin {"busy", "printing", "asking"}

Calls ==
  /\ call = "none" <=> stage = "none"
  /\ call = "answer" <=> stage \in {"select", "answer", "newline"}

(* A question that was not answered is in a pipe, or with a call.           *)
Owed(c) ==
  /\ replies <= asks
  /\ c = QLen /\ pipe[on] # <<>> => replies < asks
  /\ stage = "answer" => replies < asks

(* As long as no call is dropped: nothing is asked, or the question is not
   answered, or the answer is written, or the line is complete.             *)
Asked   == asks = replies + 1 /\ line = 0 /\ stdin = <<>> /\ stage # "newline"
Written ==
  /\ asks = replies /\ stage = "newline"
  /\ \/ line = 0 /\ stdin = <<"a">>
     \/ line = 1 /\ stdin = <<>>
Ended   ==
  /\ asks = replies /\ stage \notin {"answer", "newline"}
  /\ \/ line = 0 /\ stdin = <<"a", "nl">>
     \/ line = 1 /\ stdin = <<"nl">>

Unbroken ==
  ~broken =>
    /\ line <= 1 /\ asks <= replies + 1
    /\ child \in {"busy", "printing", "asking"} => asks = replies /\ line = 0 /\ stdin = <<>>
    /\ child = "waiting" => Asked \/ Written \/ Ended

Dialogue(c) ==
  Content(c) /\ Amount(c) /\ Matched(c) /\ Turns(c) /\ Owed(c)

IInv ==
  /\ Typed /\ Calls /\ Unbroken
  /\ RoomEnough
  /\ \E c \in 0..QLen : Dialogue(c)
-----------------------------------------------------------------------------
LEMMA InitInv == Init => IInv
<1> SUFFICES ASSUME Init PROVE IInv
  OBVIOUS
<1> USE QAAssumption
<1>1. TypeOK
  BY DEF Init, TypeOK, Outs
<1>2. Typed /\ Calls /\ Unbroken /\ RoomEnough
  <2>1. pipe \in [Outs -> Seq(Nat)] /\ stdin \in Seq({"a", "nl"})
    BY DEF Init
  <2>2. {offset, match, noise} \subseteq [Outs -> Nat] /\ {asks, replies, line} \subseteq Nat
    BY DEF Init
  <2>3. Typed
    BY <1>1, <2>1, <2>2 DEF Init, Typed
  <2> QED
    BY <1>1, <2>3 DEF Init, Calls, Unbroken, RoomEnough
<1>3. Dialogue(0)
  BY DEF Init, Dialogue, Content, Amount, Matched, Turns, Owed, Outs
<1> QED
  BY <1>2, <1>3 DEF IInv

(* The end of a call, dropped or not: only what it knew is forgotten.       *)
LEMMA ReturnInv ==
  ASSUME IInv, NEW r \in {"none", "ok", "eof", "overflow", "error"}, Return(r),
         UNCHANGED <<childVars, pipe, stdin, replies>>,
         stage = "newline" => r # "ok",
         r = "overflow" => \E p \in Outs : noise[p] > BufSize - QLen
  PROVE  IInv'
<1> USE QAAssumption DEF childVars
<1>1. PICK c \in 0..QLen : Dialogue(c)
  BY DEF IInv
<1>2. Typed' /\ RoomEnough'
  BY DEF IInv, Typed, TypeOK, RoomEnough, Return, Outs
<1>3. Calls'
  BY DEF IInv, Calls, Return
<1>4. Unbroken'
  <2>1. SUFFICES ASSUME ~broken' PROVE Unbroken'
    BY DEF Unbroken
  <2>2. ~broken /\ stage # "newline" /\ stage' = "none"
    BY <2>1 DEF IInv, Calls, Return, Typed
  <2> QED
    BY <2>2 DEF IInv, Unbroken, Asked, Written, Ended
<1>5. Content(c)' /\ Owed(c)'
  BY <1>1 DEF Dialogue, Content, Owed, Return
<1>6. Amount(c)' /\ Matched(c)'
  <2>1. \A p \in Outs : /\ offset'[p] = 0 /\ offset[p] \in Nat /\ Len(pipe[p]) \in Nat
                        /\ noise[p] \in Nat
    BY DEF IInv, Typed, Return
  <2>2. on \in Outs /\ c \in Nat /\ UNCHANGED <<on, pipe, noise>>
    BY DEF IInv, Typed, TypeOK
  <2>3. \A p \in Outs : Len(pipe[p]) <= noise[p] + (IF p = on THEN c ELSE 0)
    BY <1>1, <2>1, <2>2 DEF Dialogue, Amount
  <2>4. Amount(c)'
    BY <2>1, <2>2, <2>3 DEF Amount
  <2>5. Matched(c)'
    BY <2>1, <2>2 DEF Matched
  <2> QED
    BY <2>4, <2>5
<1>7. Turns(c)'
  BY <1>1 DEF Dialogue, Turns, Return
<1> QED
  BY <1>2, <1>3, <1>4, <1>5, <1>6, <1>7 DEF IInv, Dialogue

(* What the child writes while it owes nothing is other output; the question
   it writes is the last thing in its pipe.                                 *)
LEMMA NoiseInv == ASSUME IInv, Noise PROVE IInv'
<1> USE QAAssumption DEF callVars
<1>1. PICK c \in 0..QLen : Dialogue(c)
  BY DEF IInv
<1>2. /\ c = 0 /\ child = "printing" /\ child' = "busy" /\ Len(pipe[on]) < PipeCap
      /\ pipe' = [pipe EXCEPT ![on] = Append(@, 0)]
      /\ noise' = [noise EXCEPT ![on] = @ + 1]
      /\ UNCHANGED <<asked, on, asks, line, stdin, call, stage, offset, match,
                     result, replies, broken>>
  BY <1>1 DEF Noise, Put, Dialogue, Turns
<1>3. /\ on \in Outs /\ \A p \in Outs : /\ pipe[p] \in Seq(Nat) /\ noise[p] \in Nat
                                      /\ offset[p] \in Nat /\ Len(pipe[p]) <= PipeCap
      /\ pipe \in [Outs -> Seq(Nat)] /\ noise \in [Outs -> Nat]
  BY DEF IInv, Typed, TypeOK
<1>4. /\ pipe'[on] = Append(pipe[on], 0)
      /\ \A p \in Outs : p # on => pipe'[p] = pipe[p]
      /\ noise'[on] = noise[on] + 1 /\ \A p \in Outs : p # on => noise'[p] = noise[p]
  BY <1>2, <1>3
<1>5. /\ Len(pipe'[on]) = Len(pipe[on]) + 1 /\ pipe'[on][Len(pipe[on]) + 1] = 0
      /\ \A i \in 1..Len(pipe[on]) : pipe'[on][i] = pipe[on][i]
  BY <1>3, <1>4
<1>6. Typed' /\ RoomEnough'
  <2>1. TypeOK'
    BY <1>2, <1>3, <1>4, <1>5 DEF IInv, Typed, TypeOK
  <2>2. pipe' \in [Outs -> Seq(Nat)] /\ noise' \in [Outs -> Nat]
    BY <1>2, <1>3
  <2>3. Typed'
    BY <1>2, <2>1, <2>2 DEF IInv, Typed
  <2>4. ASSUME result' = "overflow" PROVE \E p \in Outs : noise'[p] > BufSize - QLen
    <3>1. PICK p \in Outs : noise[p] > BufSize - QLen
      BY <1>2, <2>4 DEF IInv, RoomEnough
    <3>2. noise'[p] >= noise[p] /\ noise'[p] \in Nat
      <4>1. CASE p = on
        BY <1>3, <1>4, <4>1
      <4>2. CASE p # on
        BY <1>3, <1>4, <4>2
      <4> QED
        BY <4>1, <4>2
    <3> QED
      BY <1>3, <3>1, <3>2
  <2> QED
    BY <2>1, <2>3, <2>4 DEF RoomEnough
<1>7. Calls' /\ Unbroken'
  BY <1>2 DEF IInv, Calls, Unbroken
<1>8. Content(c)'
  <2> SUFFICES ASSUME NEW p \in Outs, NEW i \in 1..Len(pipe'[p])
               PROVE pipe'[p][i] = IF p = on' THEN Above(c - Len(pipe'[p]) + i) ELSE 0
    BY <1>2 DEF Content
  <2>1. \A j \in 1..Len(pipe[p]) : pipe[p][j] = 0
    BY <1>1, <1>2, <1>3 DEF Dialogue, Content, Above
  <2>2. pipe'[p][i] = 0
    <3>1. CASE p = on
      <4>1. i = Len(pipe[p]) + 1 \/ i \in 1..Len(pipe[p])
        BY <1>3, <1>5, <3>1
      <4> QED
        BY <1>5, <2>1, <3>1, <4>1
    <3>2. CASE p # on
      BY <1>4, <2>1, <3>2
    <3> QED
      BY <3>1, <3>2
  <2>3. p = on => Above(c - Len(pipe'[p]) + i) = 0
    BY <1>2, <1>3, <1>5 DEF Above
  <2> QED
    BY <1>2, <2>2, <2>3
<1>9. Amount(c)' /\ Matched(c)'
  BY <1>1, <1>2, <1>3, <1>4, <1>5 DEF Dialogue, Amount, Matched
<1>10. Turns(c)' /\ Owed(c)'
  <2>1. stage \notin {"answer", "newline"} /\ c < QLen
    BY <1>1, <1>2 DEF Dialogue, Turns
  <2>2. Owed(c)'
    BY <1>1, <1>2, <2>1 DEF Dialogue, Owed
  <2>3. \A i \in 1..Len(stdin) : stdin[i] # "nl"
    BY <1>1, <1>2 DEF Dialogue, Turns
  <2>4. Turns(c)'
    BY <1>1, <1>2, <2>1, <2>3 DEF Dialogue, Turns
  <2> QED
    BY <2>2, <2>4
<1> QED
  BY <1>6, <1>7, <1>8, <1>9, <1>10 DEF IInv, Dialogue

LEMMA AskInv == ASSUME IInv, Ask PROVE IInv'
<1> USE QAAssumption DEF callVars
<1>1. PICK c \in 0..QLen : Dialogue(c)
  BY DEF IInv
<1>2. /\ c = asked /\ asked < QLen /\ child = "asking" /\ Len(pipe[on]) < PipeCap
      /\ pipe' = [pipe EXCEPT ![on] = Append(@, asked + 1)]
      /\ UNCHANGED <<on, noise, line, stdin, call, stage, offset, match,
                     result, replies, broken>>
      /\ IF asked + 1 = QLen
         THEN child' = "waiting" /\ asked' = 0 /\ asks' = asks + 1
         ELSE asked' = asked + 1 /\ UNCHANGED <<child, asks>>
  BY <1>1 DEF Ask, Put, Dialogue, Turns
<1>3. /\ on \in Outs /\ \A p \in Outs : /\ pipe[p] \in Seq(Nat) /\ noise[p] \in Nat
                                      /\ offset[p] \in Nat /\ Len(pipe[p]) <= PipeCap
      /\ pipe \in [Outs -> Seq(Nat)] /\ asks \in Nat /\ replies \in Nat /\ asked \in Nat
  BY DEF IInv, Typed, TypeOK
<1>4. /\ pipe'[on] = Append(pipe[on], c + 1)
      /\ \A p \in Outs : p # on => pipe'[p] = pipe[p]
  BY <1>2, <1>3
<1>5. /\ Len(pipe'[on]) = Len(pipe[on]) + 1 /\ pipe'[on][Len(pipe[on]) + 1] = c + 1
      /\ \A i \in 1..Len(pipe[on]) : pipe'[on][i] = pipe[on][i]
  BY <1>3, <1>4
<1>6. PICK e \in 0..QLen : e = c + 1
  BY <1>2
<1>7. Typed' /\ RoomEnough'
  <2>1. child' \in {"asking", "waiting"} /\ asked' \in 0..QLen /\ asks' \in Nat
    BY <1>2, <1>3, <1>6
  <2>2. TypeOK'
    BY <1>2, <1>3, <1>4, <1>5, <2>1 DEF IInv, Typed, TypeOK
  <2>3. pipe' \in [Outs -> Seq(Nat)]
    BY <1>2, <1>3
  <2> QED
    BY <1>2, <2>1, <2>2, <2>3 DEF IInv, Typed, RoomEnough
<1>8. stage \notin {"answer", "newline"} /\ \A i \in 1..Len(stdin) : stdin[i] # "nl"
  BY <1>1, <1>2 DEF Dialogue, Turns
<1>9. Calls' /\ Unbroken'
  BY <1>2, <1>3, <1>8 DEF IInv, Calls, Unbroken, Asked
<1>10. Content(e)'
  <2> SUFFICES ASSUME NEW p \in Outs, NEW i \in 1..Len(pipe'[p])
               PROVE pipe'[p][i] = IF p = on' THEN Above(e - Len(pipe'[p]) + i) ELSE 0
    BY <1>2 DEF Content
  <2>1. CASE p = on /\ i = Len(pipe[p]) + 1
    BY <1>2, <1>3, <1>5, <1>6, <2>1 DEF Above
  <2>2. CASE ~(p = on /\ i = Len(pipe[p]) + 1)
    <3>1. i \in 1..Len(pipe[p]) /\ pipe'[p][i] = pipe[p][i]
      <4>1. CASE p = on
        BY <1>3, <1>5, <2>2, <4>1
      <4>2. CASE p # on
        BY <1>4, <4>2
      <4> QED
        BY <4>1, <4>2
    <3>2. pipe[p][i] = IF p = on THEN Above(c - Len(pipe[p]) + i) ELSE 0
      BY <1>1, <3>1 DEF Dialogue, Content
    <3>3. p = on => e - Len(pipe'[p]) + i = c - Len(pipe[p]) + i
      BY <1>2, <1>3, <1>5, <1>6
    <3> QED
      BY <1>2, <3>1, <3>2, <3>3
  <2> QED
    BY <1>2, <2>1, <2>2
<1>11. Amount(e)'
  <2>1. \A p \in Outs : offset[p] + Len(pipe[p]) <= noise[p] + (IF p = on THEN c ELSE 0)
    BY <1>1 DEF Dialogue, Amount
  <2>2. \A p \in Outs : offset[p] + Len(pipe'[p]) <= noise[p] + (IF p = on THEN e ELSE 0)
    BY <1>2, <1>3, <1>4, <1>5, <1>6, <2>1
  <2> QED
    BY <1>2, <2>2 DEF Amount
<1>12. Matched(e)'
  <2>1. Len(pipe'[on]) = Len(pipe[on]) + 1 /\ Len(pipe[on]) \in Nat
        /\ noise[on] \in Nat /\ offset[on] \in Nat
    BY <1>3, <1>5
  <2>2. c > Len(pipe[on]) => \/ match[on] = c - Len(pipe[on])
                             \/ offset[on] + Len(pipe[on]) < noise[on] + c
    BY <1>1 DEF Dialogue, Matched
  <2>3. e > Len(pipe'[on]) => \/ match[on] = e - Len(pipe'[on])
                                  \/ offset[on] + Len(pipe'[on]) < noise[on] + (e)
    BY <1>2, <1>3, <1>6, <2>1, <2>2
  <2> QED
    BY <1>2, <2>3 DEF Matched
<1>13. Turns(e)'
  BY <1>1, <1>2, <1>3, <1>6, <1>8 DEF Dialogue, Turns
<1>14. Owed(e)'
  BY <1>1, <1>2, <1>3, <1>6, <1>8 DEF Dialogue, Owed
<1> QED
  BY <1>6, <1>7, <1>9, <1>10, <1>11, <1>12, <1>13, <1>14 DEF IInv, Dialogue

LEMMA BeginInv ==
  ASSUME IInv, NEW p \in Outs, BeginNoise(p) \/ BeginAsk(p) PROVE IInv'
<1> USE QAAssumption DEF callVars
<1>1. PICK c \in 0..QLen : Dialogue(c)
  BY DEF IInv
<1>2. /\ c = 0 /\ asked = 0 /\ child = "busy" /\ child' \in {"printing", "asking"} /\ on' = p
      /\ UNCHANGED <<asked, noise, asks, line, pipe, stdin, call, stage, offset,
                     match, result, replies, broken>>
  BY <1>1 DEF BeginNoise, BeginAsk, Dialogue, Turns
<1>3. on \in Outs /\ \A q \in Outs : pipe[q] \in Seq(Nat) /\ noise[q] \in Nat /\ offset[q] \in Nat
  BY DEF IInv, Typed, TypeOK
<1>4. Typed' /\ RoomEnough'
  BY <1>2 DEF IInv, Typed, TypeOK, RoomEnough
<1>5. Calls' /\ Unbroken'
  BY <1>2 DEF IInv, Calls, Unbroken
<1>6. Content(c)'
  <2>1. \A q \in Outs : \A i \in 1..Len(pipe[q]) :
          pipe[q][i] = 0 /\ Above(c - Len(pipe[q]) + i) = 0
    BY <1>1, <1>2, <1>3 DEF Dialogue, Content, Above
  <2> QED
    BY <1>2, <2>1 DEF Content
<1>7. Amount(c)' /\ Matched(c)'
  BY <1>1, <1>2, <1>3 DEF Dialogue, Amount, Matched
<1>8. Turns(c)' /\ Owed(c)'
  BY <1>1, <1>2 DEF Dialogue, Turns, Owed
<1> QED
  BY <1>4, <1>5, <1>6, <1>7, <1>8 DEF IInv, Dialogue

(* A newline in stdin is the end of the line the child waits for.           *)
LEMMA ReadStdinInv == ASSUME IInv, ReadStdin PROVE IInv'
<1> USE QAAssumption DEF callVars
<1>1. PICK c \in 0..QLen : Dialogue(c)
  BY DEF IInv
<1>2. /\ child = "waiting" /\ stdin # <<>> /\ stdin' = Tail(stdin) /\ asked = 0
      /\ IF Head(stdin) = "nl" THEN child' = "busy" /\ line' = 0
         ELSE line' = line + 1 /\ UNCHANGED child
      /\ UNCHANGED <<asked, on, noise, asks, pipe, call, stage, offset, match,
                     result, replies, broken>>
  BY <1>1 DEF ReadStdin, Dialogue, Turns
<1>3. /\ stdin \in Seq({"a", "nl"}) /\ stdin' \in Seq({"a", "nl"}) /\ Head(stdin) = stdin[1]
      /\ Len(stdin) \in Nat /\ Len(stdin) > 0 /\ Len(stdin') = Len(stdin) - 1
      /\ \A i \in 1..Len(stdin') : stdin'[i] = stdin[i + 1]
  BY <1>2 DEF IInv, Typed
<1>4. Head(stdin) = "nl" => stdin' = <<>> /\ c = 0 /\ Len(stdin) = 1
  <2>1. SUFFICES ASSUME stdin[1] = "nl" PROVE stdin' = <<>> /\ c = 0 /\ Len(stdin) = 1
    BY <1>3
  <2>2. 1 \in 1..Len(stdin)
    BY <1>3
  <2>3. c = 0 /\ Len(stdin) = 1
    BY <1>1, <2>1, <2>2 DEF Dialogue, Turns
  <2> QED
    BY <1>3, <2>3
<1>5. Typed' /\ RoomEnough'
  <2>1. Len(stdin') <= PipeCap
    BY <1>3 DEF IInv, Typed, TypeOK
  <2>2. TypeOK'
    BY <1>2, <2>1 DEF IInv, Typed, TypeOK
  <2>3. line' \in Nat
    BY <1>2 DEF IInv, Typed
  <2> QED
    BY <1>2, <1>3, <2>2, <2>3 DEF IInv, Typed, RoomEnough
<1>6. Calls'
  BY <1>2 DEF IInv, Calls
<1>7. Unbroken'
  <2>1. SUFFICES ASSUME ~broken PROVE Unbroken'
    BY <1>2 DEF Unbroken
  <2>2. /\ line \in Nat /\ line <= 1 /\ asks <= replies + 1
        /\ Asked \/ Written \/ Ended
    BY <1>2, <2>1 DEF IInv, Unbroken, Typed
  <2>3. CASE Asked
    BY <1>2, <2>3 DEF Asked
  <2>4. CASE Written
    <3>1. stdin = <<"a">> /\ line = 0 /\ asks = replies /\ stage = "newline"
      BY <1>2, <2>4 DEF Written
    <3>2. stdin' = <<>> /\ line' = 1 /\ child' = "waiting"
      BY <1>2, <3>1
    <3> QED
      BY <1>2, <2>2, <3>1, <3>2 DEF Unbroken, Written
  <2>5. CASE Ended
    <3>1. CASE stdin = <<"a", "nl">> /\ line = 0
      <4>1. stdin' = <<"nl">> /\ line' = 1 /\ child' = "waiting"
        BY <1>2, <3>1
      <4>2. Ended'
        BY <1>2, <2>5, <4>1 DEF Ended
      <4> QED
        BY <1>2, <2>2, <4>1, <4>2 DEF Unbroken
    <3>2. CASE stdin = <<"nl">> /\ line = 1
      <4>1. stdin' = <<>> /\ line' = 0 /\ child' = "busy"
        BY <1>2, <3>2
      <4>2. asks = replies
        BY <2>5 DEF Ended
      <4> QED
        BY <1>2, <2>2, <4>1, <4>2 DEF Unbroken
    <3> QED
      BY <2>5, <3>1, <3>2 DEF Ended
  <2> QED
    BY <2>2, <2>3, <2>4, <2>5
<1>8. Content(c)' /\ Amount(c)' /\ Matched(c)' /\ Owed(c)'
  BY <1>1, <1>2 DEF Dialogue, Content, Amount, Matched, Owed
<1>9. Turns(c)'
  <2>1. CASE Head(stdin) = "nl"
    <3>1. c = 0 /\ child' = "busy" /\ stdin' = <<>> /\ stage \notin {"answer", "newline"}
      BY <1>1, <1>2, <1>4, <2>1 DEF Dialogue, Turns
    <3> QED
      BY <1>1, <1>2, <3>1 DEF Dialogue, Turns
  <2>2. CASE Head(stdin) # "nl"
    <3>1. \A i \in 1..Len(stdin') : i + 1 \in 1..Len(stdin) /\ stdin'[i] = stdin[i + 1]
      BY <1>3
    <3>2. \A i \in 1..Len(stdin') : stdin'[i] = "nl" => i = Len(stdin') /\ c = 0
      <4> SUFFICES ASSUME NEW i \in 1..Len(stdin'), stdin'[i] = "nl"
                   PROVE  i = Len(stdin') /\ c = 0
        OBVIOUS
      <4>1. i + 1 = Len(stdin) /\ c = 0
        BY <1>1, <3>1 DEF Dialogue, Turns
      <4> QED
        BY <1>3, <4>1
    <3> QED
      BY <1>1, <1>2, <2>2, <3>2 DEF Dialogue, Turns
  <2> QED
    BY <2>1, <2>2
<1> QED
  BY <1>5, <1>6, <1>7, <1>8, <1>9 DEF IInv, Dialogue

LEMMA DiesInv == ASSUME IInv, Exit("exited") \/ Exit("failed") \/ Killed PROVE IInv'
<1>1. PICK c \in 0..QLen : Dialogue(c)
  BY DEF IInv
<1>2. /\ child' \in {"exited", "failed"}
      /\ UNCHANGED <<asked, on, noise, asks, line, pipe, stdin, call, stage, offset,
                     match, result, replies, broken>>
  BY DEF Exit, Killed, callVars
<1>3. Typed' /\ RoomEnough'
  BY <1>2 DEF IInv, Typed, TypeOK, RoomEnough
<1>4. Calls' /\ Unbroken'
  BY <1>2 DEF IInv, Calls, Unbroken
<1>5. Dialogue(c)'
  BY <1>1, <1>2 DEF Dialogue, Content, Amount, Matched, Turns, Owed
<1> QED
  BY <1>3, <1>4, <1>5 DEF IInv

LEMMA AnswerInv == ASSUME IInv, Answer PROVE IInv'
<1> USE QAAssumption DEF childVars
<1>1. PICK c \in 0..QLen : Dialogue(c)
  BY DEF IInv
<1>2. /\ stage = "none" /\ call' = "answer" /\ stage' = "select" /\ result' = "none"
      /\ offset' = [p \in Outs |-> 0] /\ match' = [p \in Outs |-> 0]
      /\ UNCHANGED <<child, asked, on, noise, asks, line, pipe, stdin, replies, broken>>
  BY DEF Answer, IInv, Calls
<1>3. /\ on \in Outs /\ c \in Nat
      /\ \A p \in Outs : /\ offset'[p] = 0 /\ match'[p] = 0 /\ offset[p] \in Nat
                         /\ Len(pipe[p]) \in Nat /\ noise[p] \in Nat
  BY <1>2 DEF IInv, Typed, TypeOK
<1>4. Typed' /\ RoomEnough'
  BY <1>2 DEF IInv, Typed, TypeOK, RoomEnough
<1>5. Calls'
  BY <1>2 DEF Calls
<1>6. Unbroken'
  BY <1>2 DEF IInv, Unbroken, Asked, Written, Ended
<1>7. Content(c)' /\ Owed(c)'
  BY <1>1, <1>2 DEF Dialogue, Content, Owed
<1>8. Amount(c)' /\ Matched(c)'
  <2>1. \A p \in Outs : Len(pipe[p]) <= noise[p] + (IF p = on THEN c ELSE 0)
    BY <1>1, <1>3 DEF Dialogue, Amount
  <2>2. Amount(c)'
    BY <1>2, <1>3, <2>1 DEF Amount
  <2>3. Matched(c)'
    BY <1>2, <1>3 DEF Matched
  <2> QED
    BY <2>2, <2>3
<1>9. Turns(c)'
  BY <1>1, <1>2, <1>3 DEF Dialogue, Turns
<1> QED
  BY <1>4, <1>5, <1>6, <1>7, <1>8, <1>9 DEF IInv, Dialogue

LEMMA WaitInv == ASSUME IInv, Wait PROVE IInv'
<1>1. PICK c \in 0..QLen : Dialogue(c)
  BY DEF IInv
<1>2. /\ stage = "none" /\ call' = "wait" /\ stage' = "exit" /\ result' = "none"
      /\ UNCHANGED <<child, asked, on, noise, asks, line, pipe, stdin, offset, match,
                     replies, broken>>
  BY DEF Wait, IInv, Calls, childVars
<1>3. Typed' /\ RoomEnough'
  BY <1>2 DEF IInv, Typed, TypeOK, RoomEnough
<1>4. Calls' /\ Unbroken'
  BY <1>2 DEF IInv, Calls, Unbroken, Asked, Written, Ended
<1>5. Dialogue(c)'
  BY <1>1, <1>2 DEF Dialogue, Content, Amount, Matched, Turns, Owed
<1> QED
  BY <1>3, <1>4, <1>5 DEF IInv

(* The buffer is full: of the question it holds less than the whole, or the
   call would have seen it.                                                 *)
LEMMA OverflowInv == ASSUME IInv, Overflow PROVE IInv'
<1> USE QAAssumption
<1>1. PICK c \in 0..QLen : Dialogue(c)
  BY DEF IInv
<1>2. PICK p \in Outs : offset[p] = BufSize
  BY DEF Overflow, Full
<1>3. /\ on \in Outs /\ Len(pipe[p]) \in Nat /\ noise[p] \in Nat /\ offset[p] \in Nat
      /\ stage = "select"
  BY DEF IInv, Typed, TypeOK, Overflow
<1>4. offset[p] + Len(pipe[p]) <= noise[p] + (IF p = on THEN c ELSE 0)
  BY <1>1 DEF Dialogue, Amount
<1>5. noise[p] > BufSize - QLen
  <2>1. CASE p # on \/ c < QLen \/ Len(pipe[p]) > 0
    BY <1>2, <1>3, <1>4, <2>1
  <2>2. CASE p = on /\ c = QLen /\ Len(pipe[p]) = 0
    <3>1. match[on] # c - Len(pipe[on])
      BY <1>1, <1>3, <2>2 DEF Dialogue, Turns
    <3>2. offset[p] + Len(pipe[p]) < noise[p] + c
      BY <1>1, <2>2, <3>1 DEF Dialogue, Matched
    <3> QED
      BY <1>2, <1>3, <2>2, <3>2
  <2> QED
    BY <1>3, <2>1, <2>2
<1> QED
  BY <1>3, <1>5, ReturnInv DEF Overflow

(* The last byte of the question: the call has read all there is of it.     *)
LEMMA ReadByteInv == ASSUME IInv, NEW p \in Outs, ReadByte(p) PROVE IInv'
<1> USE QAAssumption DEF childVars
<1>1. PICK c \in 0..QLen : Dialogue(c)
  BY DEF IInv
<1> DEFINE byte == Head(pipe[p])
<1>2. /\ stage = "select" /\ offset[p] # BufSize /\ pipe[p] # <<>>
      /\ pipe' = [pipe EXCEPT ![p] = Tail(@)]
      /\ offset' = [offset EXCEPT ![p] = @ + 1]
      /\ match' = [match EXCEPT ![p] =
                     IF byte = @ + 1 THEN byte ELSE IF byte = 1 THEN 1 ELSE 0]
      /\ stage' = IF byte = match[p] + 1 /\ byte = QLen THEN "answer" ELSE "select"
      /\ UNCHANGED <<child, asked, on, noise, asks, line, stdin, call, result, replies, broken>>
  BY DEF ReadByte, Selecting, Full, EndsWith
<1>3. /\ on \in Outs /\ pipe \in [Outs -> Seq(Nat)] /\ offset \in [Outs -> Nat]
      /\ match \in [Outs -> Nat] /\ noise \in [Outs -> Nat]
      /\ \A q \in Outs : /\ pipe[q] \in Seq(Nat) /\ Len(pipe[q]) \in Nat /\ noise[q] \in Nat
                          /\ offset[q] \in Nat /\ match[q] \in Nat
                          /\ Len(pipe[q]) <= PipeCap /\ offset[q] <= BufSize
      /\ \A q \in Outs : match[q] < QLen
  <2>1. \A q \in Outs : match[q] < QLen
    BY <1>1, <1>2 DEF Dialogue, Turns
  <2>2. \A q \in Outs : offset[q] \in 0..BufSize /\ Len(pipe[q]) <= PipeCap
    BY DEF IInv, Typed, TypeOK
  <2>3. /\ on \in Outs /\ pipe \in [Outs -> Seq(Nat)] /\ offset \in [Outs -> Nat]
        /\ match \in [Outs -> Nat] /\ noise \in [Outs -> Nat]
    BY DEF IInv, Typed, TypeOK
  <2> QED
    BY <2>1, <2>2, <2>3
<1>4. /\ pipe'[p] = Tail(pipe[p]) /\ offset'[p] = offset[p] + 1
      /\ match'[p] = IF byte = match[p] + 1 THEN byte ELSE IF byte = 1 THEN 1 ELSE 0
      /\ \A q \in Outs : q # p => /\ pipe'[q] = pipe[q] /\ offset'[q] = offset[q]
                                  /\ match'[q] = match[q]
  BY <1>2, <1>3
<1>5. PICK n \in Nat : Len(pipe[p]) = n + 1
  <2>1. Len(pipe[p]) \in Nat /\ Len(pipe[p]) # 0
    BY <1>2, <1>3
  <2> QED
    BY <2>1
<1>6. /\ byte = pipe[p][1] /\ Len(pipe'[p]) = n /\ pipe'[p] \in Seq(Nat)
      /\ n + 1 <= PipeCap /\ offset[p] \in Nat
  BY <1>2, <1>3, <1>4, <1>5
<1>7. \A i \in 1..Len(pipe'[p]) : i + 1 \in 1..Len(pipe[p]) /\ pipe'[p][i] = pipe[p][i + 1]
  BY <1>2, <1>3, <1>4, <1>6, <1>5
<1>8. byte = IF p = on THEN Above(c - n) ELSE 0
  <2>1. 1 \in 1..Len(pipe[p]) /\ c - Len(pipe[p]) + 1 = c - n
    BY <1>5
  <2>2. pipe[p][1] = IF p = on THEN Above(c - Len(pipe[p]) + 1) ELSE 0
    BY <1>1, <2>1 DEF Dialogue, Content
  <2> QED
    BY <1>6, <2>1, <2>2
<1>9. byte \in 0..QLen
  BY <1>1, <1>3, <1>6, <1>8 DEF Above
<1> HIDE DEF byte
<1>10. match'[p] \in 0..QLen /\ (match'[p] = QLen => stage' = "answer")
  BY <1>2, <1>3, <1>4, <1>9
<1>11. stage' = "answer" => p = on /\ c = QLen /\ n = 0 /\ pipe'[on] = <<>>
  <2>1. SUFFICES ASSUME byte = QLen PROVE p = on /\ c = QLen /\ n = 0
    BY <1>2, <1>6
  <2> QED
    BY <1>8, <2>1 DEF Above
<1>12. stage' \in {"select", "answer"} /\ call = "answer"
  BY <1>2 DEF IInv, Calls
<1>13. child \notin {"busy", "printing", "asking"} \/ stage' = "select"
  BY <1>1, <1>11, <1>12 DEF Dialogue, Turns
<1>14. Typed' /\ RoomEnough'
  <2>1. \A q \in Outs : /\ Len(pipe'[q]) <= PipeCap /\ offset'[q] \in 0..BufSize
                        /\ match'[q] \in 0..QLen
    <3> SUFFICES ASSUME NEW q \in Outs
                 PROVE  /\ Len(pipe'[q]) <= PipeCap /\ offset'[q] \in 0..BufSize
                        /\ match'[q] \in 0..QLen
      OBVIOUS
    <3>1. CASE q = p
      <4>1. offset[p] + 1 \in 0..BufSize
        <5>1. offset[p] \in 0..BufSize /\ offset[p] # BufSize /\ BufSize \in Nat
          BY <1>2 DEF IInv, Typed, TypeOK
        <5> QED
          BY <5>1
      <4> QED
        <5>1. offset'[q] = offset[p] + 1 /\ Len(pipe'[q]) = n
          BY <1>4, <1>6, <3>1
        <5>2. PipeCap \in Nat /\ n <= PipeCap
          BY <1>6
        <5> QED
          BY <1>10, <3>1, <4>1, <5>1, <5>2
    <3>2. CASE q # p
      <4>1. Len(pipe[q]) <= PipeCap /\ offset[q] \in 0..BufSize /\ match[q] \in 0..QLen
        BY DEF IInv, Typed, TypeOK
      <4> QED
        BY <1>4, <3>2, <4>1
    <3> QED
      BY <3>1, <3>2
  <2>2. TypeOK'
    BY <1>2, <1>12, <2>1 DEF IInv, Typed, TypeOK
  <2>3. pipe' \in [Outs -> Seq(Nat)]
    BY <1>2, <1>3
  <2>4. offset' \in [Outs -> Nat] /\ match' \in [Outs -> Nat]
    <3>1. byte \in Nat
      BY <1>9
    <3>2. (IF byte = match[p] + 1 THEN byte ELSE IF byte = 1 THEN 1 ELSE 0) \in Nat
      BY <3>1
    <3> QED
      BY <1>2, <1>3, <3>2
  <2> QED
    BY <1>2, <2>2, <2>3, <2>4 DEF IInv, Typed, RoomEnough
<1>15. Calls'
  BY <1>2, <1>12 DEF IInv, Calls
<1>16. \A i \in 1..Len(stdin) : stdin[i] = "nl" => stage' = "select"
  BY <1>1, <1>11, <1>12 DEF Dialogue, Turns
<1>17. Unbroken'
  <2>1. SUFFICES ASSUME ~broken PROVE Unbroken'
    BY <1>2 DEF Unbroken
  <2>2. CASE Ended /\ child = "waiting"
    <3>1. \/ 1 \in 1..Len(stdin) /\ stdin[1] = "nl"
          \/ 2 \in 1..Len(stdin) /\ stdin[2] = "nl"
      <4>1. CASE stdin = <<"a", "nl">>
        BY <4>1
      <4>2. CASE stdin = <<"nl">>
        BY <4>2
      <4> QED
        BY <2>2, <4>1, <4>2 DEF Ended
    <3>2. stage' = "select"
      BY <1>16, <3>1
    <3>3. Ended'
      BY <1>2, <2>2, <3>2 DEF Ended
    <3> QED
      BY <1>2, <2>1, <3>3 DEF IInv, Unbroken
  <2>3. CASE Asked
    <3>1. Asked'
      BY <1>2, <1>12, <2>3 DEF Asked
    <3> QED
      BY <1>2, <2>1, <3>1 DEF IInv, Unbroken
  <2>4. CASE child # "waiting"
    BY <1>2, <2>1, <2>4 DEF IInv, Unbroken
  <2>5. ~Written
    BY <1>2 DEF Written
  <2> QED
    BY <2>1, <2>2, <2>3, <2>4, <2>5 DEF IInv, Unbroken
<1>18. Content(c)'
  <2> SUFFICES ASSUME NEW q \in Outs, NEW i \in 1..Len(pipe'[q])
               PROVE pipe'[q][i] = IF q = on' THEN Above(c - Len(pipe'[q]) + i) ELSE 0
    BY DEF Content
  <2>1. CASE q # p
    <3>1. pipe'[q] = pipe[q] /\ i \in 1..Len(pipe[q])
      BY <1>4, <2>1
    <3>2. pipe[q][i] = IF q = on THEN Above(c - Len(pipe[q]) + i) ELSE 0
      BY <1>1, <3>1 DEF Dialogue, Content
    <3> QED
      BY <1>2, <3>1, <3>2
  <2>2. CASE q = p
    <3>1. pipe[p][i + 1] = IF p = on THEN Above(c - Len(pipe[p]) + (i + 1)) ELSE 0
      BY <1>1, <1>7, <2>2 DEF Dialogue, Content
    <3>2. c - Len(pipe[p]) + (i + 1) = c - Len(pipe'[p]) + i
      BY <1>6, <1>5, <2>2
    <3> QED
      BY <1>2, <1>7, <2>2, <3>1, <3>2
  <2> QED
    BY <2>1, <2>2
<1>19. Amount(c)'
  <2> SUFFICES ASSUME NEW q \in Outs
               PROVE offset'[q] + Len(pipe'[q]) <= noise[q] + (IF q = on THEN c ELSE 0)
    BY <1>2 DEF Amount
  <2>1. offset[q] + Len(pipe[q]) <= noise[q] + (IF q = on THEN c ELSE 0)
    BY <1>1 DEF Dialogue, Amount
  <2>2. offset'[q] + Len(pipe'[q]) = offset[q] + Len(pipe[q])
    <3>1. CASE q = p
      <4>1. /\ offset'[q] = offset[q] + 1 /\ offset[q] \in Nat
            /\ Len(pipe'[q]) = n /\ Len(pipe[q]) = n + 1
        BY <1>4, <1>6, <1>5, <3>1
      <4> QED
        BY <4>1
    <3>2. CASE q # p
      BY <1>4, <3>2
    <3> QED
      BY <3>1, <3>2
  <2> QED
    BY <2>1, <2>2
<1>20. Matched(c)'
  <2>1. c > Len(pipe[on]) => \/ match[on] = c - Len(pipe[on])
                             \/ offset[on] + Len(pipe[on]) < noise[on] + c
    BY <1>1 DEF Dialogue, Matched
  <2>2. SUFFICES ASSUME c > Len(pipe'[on])
                 PROVE  \/ match'[on] = c - Len(pipe'[on])
                        \/ offset'[on] + Len(pipe'[on]) < noise[on] + c
    BY <1>2 DEF Matched
  <2>3. CASE p # on
    BY <1>3, <1>4, <2>1, <2>2, <2>3
  <2>4. CASE p = on
    <3>1. byte = c - n /\ c > n /\ Len(pipe'[on]) = n /\ Len(pipe[on]) = n + 1
      BY <1>6, <1>8, <1>5, <2>2, <2>4 DEF Above
    <3>2. CASE c = n + 1 \/ match[on] = c - (n + 1)
      <4>1. match'[on] = byte
        <5>1. match'[on] = IF byte = match[on] + 1 THEN byte ELSE IF byte = 1 THEN 1 ELSE 0
          BY <1>4, <2>4
        <5>2. byte = match[on] + 1 \/ byte = 1
          BY <3>1, <3>2
        <5> QED
          BY <5>1, <5>2
      <4> QED
        BY <3>1, <4>1
    <3>3. CASE c > n + 1 /\ offset[on] + (n + 1) < noise[on] + c
      <4>1. offset'[on] + n < noise[on] + c
        BY <1>3, <1>4, <1>6, <2>4, <3>3
      <4> QED
        BY <3>1, <4>1
    <3> QED
      BY <2>1, <3>1, <3>2, <3>3
  <2> QED
    BY <2>3, <2>4
<1>21. Turns(c)'
  <2>1. stage' = "select" => \A q \in Outs : match'[q] < QLen
    <3> SUFFICES ASSUME stage' = "select", NEW q \in Outs PROVE match'[q] < QLen
      OBVIOUS
    <3>1. CASE q = p
      BY <1>10, <3>1
    <3>2. CASE q # p
      BY <1>3, <1>4, <3>2
    <3> QED
      BY <3>1, <3>2
  <2> QED
    BY <1>1, <1>2, <1>11, <1>12, <1>13, <2>1 DEF Dialogue, Turns
<1>22. Owed(c)'
  <2>1. stage' = "answer" => replies < asks
    <3>1. SUFFICES ASSUME stage' = "answer" PROVE c = QLen /\ pipe[on] # <<>>
      BY <1>1 DEF Dialogue, Owed
    <3> QED
      BY <1>2, <1>11, <3>1, <1>5
  <2>2. replies <= asks /\ (c = QLen /\ pipe'[on] # <<>> => replies < asks)
    <3>1. pipe'[on] # <<>> => pipe[on] # <<>>
      BY <1>2, <1>4
    <3> QED
      BY <1>1, <3>1 DEF Dialogue, Owed
  <2> QED
    BY <1>2, <2>1, <2>2 DEF Owed
<1> QED
  BY <1>14, <1>15, <1>17, <1>18, <1>19, <1>20, <1>21, <1>22 DEF IInv, Dialogue

LEMMA WriteAnswerInv == ASSUME IInv, WriteAnswer PROVE IInv'
<1> USE QAAssumption DEF childVars
<1>1. PICK c \in 0..QLen : Dialogue(c)
  BY DEF IInv
<1>2. /\ stage = "answer" /\ Alive /\ Len(stdin) < PipeCap /\ call = "answer"
      /\ stdin' = Append(stdin, "a") /\ stage' = "newline" /\ replies' = replies + 1
      /\ UNCHANGED <<child, asked, on, noise, asks, line, pipe, call, offset, match, result, broken>>
  BY DEF WriteAnswer, IInv, Calls
<1>3. /\ c = QLen /\ pipe[on] = <<>> /\ child = "waiting" /\ replies < asks
  BY <1>1, <1>2 DEF IInv, Typed, TypeOK, Dialogue, Turns, Owed, Alive
<1>4. /\ stdin \in Seq({"a", "nl"}) /\ stdin' \in Seq({"a", "nl"})
      /\ Len(stdin') = Len(stdin) + 1 /\ Len(stdin) \in Nat
      /\ stdin'[Len(stdin) + 1] = "a" /\ \A i \in 1..Len(stdin) : stdin'[i] = stdin[i]
  BY <1>2 DEF IInv, Typed
<1>5. \A i \in 1..Len(stdin') : stdin'[i] # "nl"
  <2> SUFFICES ASSUME NEW i \in 1..Len(stdin') PROVE stdin'[i] # "nl"
    OBVIOUS
  <2>1. \A j \in 1..Len(stdin) : stdin[j] # "nl"
    BY <1>1, <1>3 DEF Dialogue, Turns
  <2>2. i = Len(stdin) + 1 \/ i \in 1..Len(stdin)
    BY <1>4
  <2> QED
    BY <1>4, <2>1, <2>2
<1>6. Typed' /\ RoomEnough'
  <2>1. TypeOK' /\ replies' \in Nat
    BY <1>2, <1>4 DEF IInv, Typed, TypeOK
  <2> QED
    BY <1>2, <1>4, <2>1 DEF IInv, Typed, RoomEnough
<1>7. Calls'
  BY <1>2 DEF IInv, Calls
<1>8. Unbroken'
  <2>1. SUFFICES ASSUME ~broken PROVE Unbroken'
    BY <1>2 DEF Unbroken
  <2>2. Asked
    BY <1>2, <1>3, <2>1 DEF IInv, Unbroken, Written, Ended
  <2>3. asks = replies' /\ line' = 0 /\ stdin' = <<"a">> /\ stage' = "newline"
    BY <1>2, <2>2 DEF Asked, IInv, Typed
  <2>4. Written'
    BY <1>2, <2>3 DEF Written
  <2>5. line' <= 1 /\ asks' <= replies' + 1
    BY <1>2, <2>3 DEF IInv, Typed
  <2> QED
    BY <1>2, <1>3, <2>4, <2>5 DEF Unbroken
<1>9. Content(c)' /\ Amount(c)' /\ Matched(c)'
  BY <1>1, <1>2 DEF Dialogue, Content, Amount, Matched
<1>10. Turns(c)'
  BY <1>1, <1>2, <1>3, <1>5 DEF Dialogue, Turns
<1>11. Owed(c)'
  BY <1>2, <1>3 DEF Owed, IInv, Typed
<1> QED
  BY <1>6, <1>7, <1>8, <1>9, <1>10, <1>11 DEF IInv, Dialogue

LEMMA AppendToOne == \A x, y : Append(<<x>>, y) = <<x, y>>
<1> SUFFICES ASSUME NEW x, NEW y PROVE Append(<<x>>, y) = <<x, y>>
  OBVIOUS
<1>1. <<x>> \in Seq({x, y}) /\ Len(<<x>>) = 1 /\ <<x>>[1] = x
  OBVIOUS
<1> DEFINE s == <<x>>
<1>2. s \in Seq({x, y}) /\ Len(s) = 1 /\ s[1] = x
  BY <1>1
<1>3. <<x, y>> \in Seq({x, y}) /\ Len(<<x, y>>) = 2 /\ <<x, y>>[1] = x /\ <<x, y>>[2] = y
  OBVIOUS
<1> DEFINE t == <<x, y>>
<1>4. t \in Seq({x, y}) /\ Len(t) = 2 /\ t[1] = x /\ t[2] = y
  BY <1>3
<1> HIDE DEF s, t
<1>5. Append(s, y) \in Seq({x, y}) /\ Len(Append(s, y)) = 2
      /\ Append(s, y)[1] = x /\ Append(s, y)[2] = y
  <2>1. y \in {x, y}
    OBVIOUS
  <2> QED
    <3>1. /\ Append(s, y) \in Seq({x, y}) /\ Len(Append(s, y)) = Len(s) + 1
          /\ \A i \in 1..Len(s) : Append(s, y)[i] = s[i]
          /\ Append(s, y)[Len(s) + 1] = y
      BY <1>2, <2>1, AppendProperties
    <3>2. Len(s) + 1 = 2 /\ 1 \in 1..Len(s)
      BY <1>2
    <3> QED
      BY <1>2, <3>1, <3>2
<1>6. Append(s, y) = t
  BY <1>4, <1>5, SeqEqual
<1> QED
  BY <1>6 DEF s, t

LEMMA WriteNewlineInv == ASSUME IInv, WriteNewline PROVE IInv'
<1> USE QAAssumption DEF childVars
<1>1. PICK c \in 0..QLen : Dialogue(c)
  BY DEF IInv
<1>2. /\ stage = "newline" /\ Alive /\ Len(stdin) < PipeCap /\ call = "answer"
      /\ stdin' = Append(stdin, "nl") /\ call' = "none" /\ stage' = "none" /\ result' = "ok"
      /\ offset' = [p \in Outs |-> 0] /\ match' = [p \in Outs |-> 0] /\ broken' = broken
      /\ UNCHANGED <<child, asked, on, noise, asks, line, pipe, replies>>
  BY DEF WriteNewline, Return, IInv, Calls, Typed
<1>3. /\ c = QLen /\ pipe[on] = <<>> /\ child = "waiting" /\ asked = 0
      /\ \A i \in 1..Len(stdin) : stdin[i] # "nl"
  BY <1>1, <1>2 DEF IInv, Typed, TypeOK, Dialogue, Turns, Alive
<1>4. /\ stdin \in Seq({"a", "nl"}) /\ stdin' \in Seq({"a", "nl"})
      /\ Len(stdin') = Len(stdin) + 1 /\ Len(stdin) \in Nat
      /\ stdin'[Len(stdin) + 1] = "nl" /\ \A i \in 1..Len(stdin) : stdin'[i] = stdin[i]
  BY <1>2 DEF IInv, Typed
<1>5. \A i \in 1..Len(stdin') : stdin'[i] = "nl" => i = Len(stdin')
  BY <1>3, <1>4
<1>6. Typed' /\ RoomEnough'
  <2>1. TypeOK'
    BY <1>2, <1>4 DEF IInv, Typed, TypeOK
  <2> QED
    BY <1>2, <1>4, <2>1 DEF IInv, Typed, RoomEnough
<1>7. Calls'
  BY <1>2 DEF Calls
<1>8. Unbroken'
  <2>1. SUFFICES ASSUME ~broken PROVE Unbroken'
    BY <1>2 DEF Unbroken
  <2>2. Written
    BY <1>2, <1>3, <2>1 DEF IInv, Unbroken, Asked, Ended
  <2>3. Ended'
    <3>1. CASE line = 0 /\ stdin = <<"a">>
      <4>1. stdin' = <<"a", "nl">>
        BY <1>2, <3>1, AppendToOne
      <4> QED
        BY <1>2, <2>2, <3>1, <4>1 DEF Written, Ended
    <3>2. CASE line = 1 /\ stdin = <<>>
      <4>1. stdin' = <<"nl">>
        BY <1>2, <3>2
      <4> QED
        BY <1>2, <2>2, <3>2, <4>1 DEF Written, Ended
    <3> QED
      BY <2>2, <3>1, <3>2 DEF Written
  <2> QED
    BY <1>2, <1>3, <2>1, <2>3 DEF IInv, Unbroken
<1>9. /\ on \in Outs
      /\ \A p \in Outs : /\ offset'[p] = 0 /\ offset[p] \in Nat /\ noise[p] \in Nat
                         /\ Len(pipe[p]) \in Nat
  BY <1>2 DEF IInv, Typed, TypeOK
<1>10. Content(0)'
  <2> SUFFICES ASSUME NEW p \in Outs, NEW i \in 1..Len(pipe[p])
               PROVE pipe[p][i] = IF p = on THEN Above(0 - Len(pipe[p]) + i) ELSE 0
    BY <1>2 DEF Content
  <2>1. p # on
    BY <1>3
  <2> QED
    BY <1>1, <2>1 DEF Dialogue, Content
<1>11. Amount(0)' /\ Matched(0)'
  <2>1. \A p \in Outs : Len(pipe[p]) <= noise[p]
    BY <1>1, <1>3, <1>9 DEF Dialogue, Amount
  <2>2. Amount(0)'
    BY <1>2, <1>9, <2>1 DEF Amount
  <2>3. Matched(0)'
    BY <1>2, <1>3 DEF Matched
  <2> QED
    BY <2>2, <2>3
<1>12. Turns(0)' /\ Owed(0)'
  BY <1>1, <1>2, <1>3, <1>5 DEF Dialogue, Turns, Owed
<1> QED
  BY <1>6, <1>7, <1>8, <1>10, <1>11, <1>12 DEF IInv, Dialogue

LEMMA WaitExitInv == ASSUME IInv, WaitExit PROVE IInv'
<1>1. CASE Return("ok")
  BY <1>1, ReturnInv DEF WaitExit
<1>2. CASE stage' = "drain" /\ UNCHANGED <<call, offset, match, result, broken>>
  <2>1. PICK c \in 0..QLen : Dialogue(c)
    BY DEF IInv
  <2>2. /\ stage = "exit" /\ stage' = "drain"
        /\ UNCHANGED <<child, asked, on, noise, asks, line, pipe, stdin, call, offset,
                       match, result, replies, broken>>
    BY <1>2 DEF WaitExit, childVars
  <2>3. Typed' /\ RoomEnough'
    BY <2>2 DEF IInv, Typed, TypeOK, RoomEnough
  <2>4. Calls' /\ Unbroken'
    BY <2>2 DEF IInv, Calls, Unbroken, Asked, Written, Ended
  <2>5. Dialogue(c)'
    BY <2>1, <2>2 DEF Dialogue, Content, Amount, Matched, Turns, Owed
  <2> QED
    BY <2>3, <2>4, <2>5 DEF IInv
<1> QED
  BY <1>1, <1>2 DEF WaitExit

(* wait reads stderr to its end; what it drops there nobody answers.        *)
LEMMA DrainInv == ASSUME IInv, Drain PROVE IInv'
<1> USE QAAssumption DEF childVars
<1>1. PICK c \in 0..QLen : Dialogue(c)
  BY DEF IInv
<1>2. /\ stage = "drain" /\ call' = "none" /\ stage' = "none" /\ result' = "error"
      /\ offset' = [p \in Outs |-> 0] /\ match' = [p \in Outs |-> 0] /\ broken' = broken
      /\ pipe' = [pipe EXCEPT !["stderr"] = <<>>]
      /\ UNCHANGED <<child, asked, on, noise, asks, line, stdin, replies>>
  BY DEF Drain, Return, IInv, Calls, Typed
<1>3. /\ on \in Outs /\ pipe \in [Outs -> Seq(Nat)] /\ c \in Nat
      /\ \A p \in Outs : /\ offset'[p] = 0 /\ offset[p] \in Nat /\ noise[p] \in Nat
                         /\ pipe[p] \in Seq(Nat) /\ Len(pipe[p]) <= PipeCap
                         /\ pipe'[p] = pipe[p] \/ pipe'[p] = <<>>
  BY <1>2 DEF IInv, Typed, TypeOK
<1>4. \A p \in Outs : Len(pipe'[p]) \in Nat /\ Len(pipe'[p]) <= Len(pipe[p]) /\ Len(pipe[p]) \in Nat
  <2> SUFFICES ASSUME NEW p \in Outs
               PROVE /\ Len(pipe'[p]) \in Nat /\ Len(pipe'[p]) <= Len(pipe[p])
                     /\ Len(pipe[p]) \in Nat
    OBVIOUS
  <2>1. pipe[p] \in Seq(Nat) /\ (pipe'[p] = pipe[p] \/ pipe'[p] = <<>>)
    BY <1>3
  <2> QED
    BY <2>1
<1>5. /\ on \in Outs /\ c \in Nat
      /\ \A p \in Outs : /\ offset'[p] = 0 /\ offset[p] \in Nat /\ noise[p] \in Nat
                         /\ Len(pipe[p]) \in Nat /\ Len(pipe'[p]) \in Nat
  <2>1. \A p \in Outs : offset[p] \in Nat /\ noise[p] \in Nat
    BY DEF IInv, Typed
  <2> QED
    BY <1>2, <1>3, <1>4, <2>1
<1>6. Typed' /\ RoomEnough'
  <2>1. TypeOK'
    BY <1>2, <1>3, <1>4 DEF IInv, Typed, TypeOK
  <2>2. pipe' \in [Outs -> Seq(Nat)]
    BY <1>2, <1>3 DEF Outs
  <2> QED
    BY <1>2, <2>1, <2>2 DEF IInv, Typed, RoomEnough
<1>7. Calls' /\ Unbroken'
  BY <1>2 DEF IInv, Calls, Unbroken, Asked, Written, Ended
<1>8. Content(c)'
  <2> SUFFICES ASSUME NEW p \in Outs, NEW i \in 1..Len(pipe'[p])
               PROVE pipe'[p][i] = IF p = on' THEN Above(c - Len(pipe'[p]) + i) ELSE 0
    BY DEF Content
  <2>1. pipe'[p] = pipe[p]
    BY <1>3
  <2> QED
    BY <1>1, <1>2, <2>1 DEF Dialogue, Content
<1>9. Amount(c)' /\ Matched(c)'
  <2>1. \A p \in Outs : Len(pipe[p]) <= noise[p] + (IF p = on THEN c ELSE 0)
    <3> SUFFICES ASSUME NEW p \in Outs
                 PROVE Len(pipe[p]) <= noise[p] + (IF p = on THEN c ELSE 0)
      OBVIOUS
    <3>1. offset[p] + Len(pipe[p]) <= noise[p] + (IF p = on THEN c ELSE 0)
      BY <1>1 DEF Dialogue, Amount
    <3>2. offset[p] \in Nat /\ Len(pipe[p]) \in Nat /\ noise[p] + (IF p = on THEN c ELSE 0) \in Nat
      BY <1>5
    <3> QED
      BY <3>1, <3>2
  <2>2. \A p \in Outs : Len(pipe'[p]) <= noise[p] + (IF p = on THEN c ELSE 0)
    <3> SUFFICES ASSUME NEW p \in Outs
                 PROVE Len(pipe'[p]) <= noise[p] + (IF p = on THEN c ELSE 0)
      OBVIOUS
    <3>1. noise[p] + (IF p = on THEN c ELSE 0) \in Nat
      BY <1>5
    <3> QED
      BY <1>4, <2>1, <3>1
  <2>3. Amount(c)'
    BY <1>2, <1>3, <1>4, <2>2 DEF Amount
  <2>4. Matched(c)'
    <3>1. offset'[on] = 0 /\ noise[on] \in Nat /\ Len(pipe'[on]) \in Nat
      BY <1>5
    <3>2. c > Len(pipe'[on]) => offset'[on] + Len(pipe'[on]) < noise[on] + c
      BY <1>3, <3>1
    <3> QED
      BY <1>2, <3>2 DEF Matched
  <2> QED
    BY <2>3, <2>4
<1>10. Turns(c)'
  BY <1>1, <1>2 DEF Dialogue, Turns
<1>11. Owed(c)'
  <2>1. pipe'[on] # <<>> => pipe[on] # <<>>
    BY <1>3
  <2> QED
    BY <1>1, <1>2, <2>1 DEF Dialogue, Owed
<1> QED
  BY <1>6, <1>7, <1>8, <1>9, <1>10, <1>11 DEF IInv, Dialogue

LEMMA NextInv == IInv /\ [Next]_vars => IInv'
<1> SUFFICES ASSUME IInv, [Next]_vars PROVE IInv'
  OBVIOUS
<1>1. CASE Works
  BY <1>1, BeginInv, NoiseInv, AskInv, ReadStdinInv, DiesInv DEF Works
<1>2. CASE Killed \/ Answer \/ Wait
  BY <1>2, DiesInv, AnswerInv, WaitInv
<1>3. CASE Goes
  <2>1. CASE Overflow \/ WriteAnswer \/ WriteNewline \/ WaitExit \/ Drain
    BY <2>1, OverflowInv, WriteAnswerInv, WriteNewlineInv, WaitExitInv, DrainInv
  <2>2. CASE SeeExit
    BY <2>2, ReturnInv DEF SeeExit, Selecting
  <2>3. CASE WriteFails
    BY <2>3, ReturnInv DEF WriteFails
  <2>4. ASSUME NEW p \in Outs, ReadByte(p) PROVE IInv'
    BY <2>4, ReadByteInv
  <2>5. ASSUME NEW p \in Outs, ReadEof(p) PROVE IInv'
    BY <2>5, ReturnInv DEF ReadEof
  <2> QED
    BY <1>3, <2>1, <2>2, <2>3, <2>4, <2>5 DEF Goes
<1>4. CASE Cancel
  BY <1>4, ReturnInv DEF Cancel
<1>5. CASE UNCHANGED vars
  <2>1. PICK c \in 0..QLen : Dialogue(c)
    BY DEF IInv
  <2>2. Dialogue(c)'
    BY <1>5, <2>1 DEF vars, Dialogue, Content, Amount, Matched, Turns, Owed
  <2>3. Typed' /\ RoomEnough'
    BY <1>5 DEF vars, IInv, Typed, TypeOK, RoomEnough
  <2>4. Calls' /\ Unbroken'
    BY <1>5 DEF vars, IInv, Calls, Unbroken, Asked, Written, Ended
  <2> QED
    BY <2>2, <2>3, <2>4 DEF IInv
<1> QED
  BY <1>1, <1>2, <1>3, <1>4, <1>5 DEF Next

LEMMA Invariance == Spec => []IInv
BY InitInv, NextInv, PTL DEF Spec
-----------------------------------------------------------------------------
(* OneToOne: the child gets no answer it has not asked for, and while no call
   is dropped one answer to a line, all but the last question answered.     *)
THEOREM AnswersAreAsked == Spec => []OneToOne
<1>1. IInv => OneToOne
  BY DEF IInv, Dialogue, Owed, Unbroken, OneToOne
<1> QED
  BY <1>1, Invariance, PTL

(* RoomEnough: the buffer is reported full only when other output has taken
   the room of the question, and nothing is written past its end.           *)
THEOREM OverflowIsReal == Spec => []RoomEnough
<1>1. IInv => RoomEnough
  BY DEF IInv
<1> QED
  BY <1>1, Invariance, PTL
=============================================================================
