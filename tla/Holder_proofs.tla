--------------------------- MODULE Holder_proofs ---------------------------
(* Proofs about WriteHolder, for buffers, slices and streams of every size,
   and about ReadHolder, for buffers and data of every size.                *)
EXTENDS ReadHolder, WriteHolder, SequenceTheorems, TLAPS

(* The bytes after the first k of the caller's stream.                      *)
After(k, n) == [i \in 1..n |-> k + i]

(* Bytes a job has written that the caller has not been told of.            *)
Unreported == IF busy = "write" /\ job = "done" THEN wrote ELSE 0

(* The Buf of a write job holds the bytes that follow the accepted ones.    *)
Owned ==
  /\ busy # "write" => buf = <<>>
  /\ busy = "write" => buf = After(accepted, Len(buf)) /\ accepted + Len(buf) <= Length
  /\ call = "write" => accepted + offer <= Length

(* What the object has received is what was accepted or will be reported, and
   whatever else torn jobs have left there.                                 *)
Balance ==
  /\ accepted + Unreported <= Len(sink)
  /\ ~torn => Len(sink) = accepted + Unreported
  /\ \A i \in 1..accepted + Unreported : \E j \in 1..Len(sink) : sink[j] = i

(* Which jobs there are.                                                    *)
Jobs ==
  /\ busy = "none" <=> job = "none"
  /\ wrote # 0 => job \in Ends
  /\ kind = "async" => /\ job \in {"none", "running", "spent"}
                       /\ busy # "none" /\ ~poisoned => job = "running"

(* An answer stands only until the next call begins, and a flush that has
   ended well has flushed all there is.                                     *)
Flushed ==
  /\ call # "none" => answer = Nobody
  /\ busy = "flush" /\ job = "done" => flushed = Len(sink)
  /\ answer = [op |-> "flush", result |-> "ok"] => busy = "none"
  /\ FlushCovers

IInv ==
  /\ TypeOK /\ buf \in Seq(Nat) /\ sink \in Seq(Nat)
  /\ ~torn => sink = After(0, Len(sink))
  /\ Owned /\ Balance /\ Jobs /\ Flushed
-----------------------------------------------------------------------------
Reported(end, n) == IF busy = "write" /\ end = "done" THEN n ELSE 0

(* What a job that ends may have done to the object.                        *)
Effect(end, n) ==
  /\ sink' \in Seq(Nat) /\ flushed' \in 0..Len(sink') /\ torn' \in BOOLEAN
  /\ ~torn' => sink' = After(0, Len(sink'))
  /\ accepted + Reported(end, n) <= Len(sink')
  /\ ~torn' => Len(sink') = accepted + Reported(end, n)
  /\ \A i \in 1..accepted + Reported(end, n) : \E j \in 1..Len(sink') : sink'[j] = i
  /\ busy = "flush" /\ end = "done" => flushed' = Len(sink')

LEMMA Numbers ==
  ASSUME IInv
  PROVE  /\ Len(buf) \in Nat /\ Len(sink) \in Nat /\ wrote \in Nat /\ wrote <= Len(buf)
         /\ accepted \in Nat /\ accepted <= Length /\ Length \in Nat
         /\ flushed \in Nat /\ flushed <= Len(sink) /\ offer \in 0..MaxOffer
BY WriteHolderAssumption, HolderAssumption DEF IInv, TypeOK, HolderTypeOK

LEMMA AfterSeq ==
  ASSUME NEW k \in Nat, NEW n \in Nat
  PROVE  After(k, n) \in Seq(Nat) /\ Len(After(k, n)) = n
BY DEF After

(* The first m of the bytes after k continue the first k.                   *)
LEMMA AfterContinues ==
  ASSUME NEW k \in Nat, NEW n \in Nat, NEW m \in 0..n
  PROVE  After(0, k) \o SubSeq(After(k, n), 1, m) = After(0, k + m)
<1> DEFINE old == After(0, k)
           new == SubSeq(After(k, n), 1, m)
           all == After(0, k + m)
<1>1. old \in Seq(Nat) /\ Len(old) = k /\ all \in Seq(Nat) /\ Len(all) = k + m
  BY AfterSeq
<1>2. /\ new \in Seq(Nat) /\ Len(new) = m
      /\ \A i \in 1..m : new[i] = k + i
  BY DEF After
<1>3. \A i \in 1..k : old[i] = i
  BY DEF After
<1>4. \A i \in 1..k + m : all[i] = i
  BY DEF After
<1> HIDE DEF old, new, all
<1>5. /\ old \o new \in Seq(Nat) /\ Len(old \o new) = Len(old) + Len(new)
      /\ \A i \in 1..Len(old) + Len(new) :
           (old \o new)[i] = IF i <= Len(old) THEN old[i] ELSE new[i - Len(old)]
  BY <1>1, <1>2, ConcatProperties
<1>6. \A i \in 1..k + m : (old \o new)[i] = all[i]
  BY <1>1, <1>2, <1>3, <1>4, <1>5
<1>7. old \o new = all
  BY <1>1, <1>2, <1>5, <1>6, SeqEqual
<1> QED
  BY <1>7 DEF old, new, all

(* Appending keeps what is there and adds the Buf's bytes.                  *)
LEMMA Appended ==
  ASSUME NEW s \in Seq(Nat), NEW b \in Seq(Nat), NEW n \in 0..Len(b)
  PROVE  /\ s \o SubSeq(b, 1, n) \in Seq(Nat)
         /\ Len(s \o SubSeq(b, 1, n)) = Len(s) + n
         /\ \A j \in 1..Len(s) : (s \o SubSeq(b, 1, n))[j] = s[j]
         /\ \A j \in 1..n : (s \o SubSeq(b, 1, n))[Len(s) + j] = b[j]
         /\ n = 0 => s \o SubSeq(b, 1, n) = s
<1> DEFINE front == SubSeq(b, 1, n)
<1>1. /\ front \in Seq(Nat) /\ Len(front) = n
      /\ \A j \in 1..n : front[j] = b[j]
      /\ n = 0 => front = <<>>
  OBVIOUS
<1> HIDE DEF front
<1>2. /\ s \o front \in Seq(Nat) /\ Len(s \o front) = Len(s) + Len(front)
      /\ \A i \in 1..Len(s) + Len(front) :
           (s \o front)[i] = IF i <= Len(s) THEN s[i] ELSE front[i - Len(s)]
  BY <1>1, ConcatProperties
<1>3. n = 0 => s \o front = s
  BY <1>1, ConcatEmptySeq
<1>4. Len(s) \in Nat /\ n \in Nat
  OBVIOUS
<1>5. \A j \in 1..Len(s) : (s \o front)[j] = s[j]
  BY <1>1, <1>2, <1>4
<1>6. \A j \in 1..n : (s \o front)[Len(s) + j] = front[j]
  <2> TAKE j \in 1..n
  <2>1. Len(s) + j \in 1..Len(s) + Len(front) /\ ~(Len(s) + j <= Len(s)) /\ Len(s) + j - Len(s) = j
    BY <1>1, <1>4
  <2> QED
    BY <1>2, <2>1
<1>7. /\ s \o front \in Seq(Nat) /\ Len(s \o front) = Len(s) + n
      /\ \A j \in 1..n : (s \o front)[Len(s) + j] = b[j]
  BY <1>1, <1>2, <1>6
<1> QED
  BY <1>3, <1>5, <1>7 DEF front
-----------------------------------------------------------------------------
(* A write job that ends: what the object gets continues what it has, unless
   the job is torn.                                                         *)
LEMMA WriteEffect ==
  ASSUME IInv, busy = "write", job = "running", NEW end \in Ends,
         NEW n \in 0..Len(buf), JobWrites(end, n)
  PROVE  Effect(end, n)
<1>1. /\ sink' = sink \o SubSeq(buf, 1, n) /\ torn' = (torn \/ (end # "done" /\ n > 0))
      /\ flushed' = flushed /\ n \in Nat
  BY DEF JobWrites
<1>2. /\ sink' \in Seq(Nat) /\ Len(sink') = Len(sink) + n
      /\ \A j \in 1..Len(sink) : sink'[j] = sink[j]
      /\ \A j \in 1..n : sink'[Len(sink) + j] = buf[j]
      /\ n = 0 => sink' = sink
  <2>1. sink \in Seq(Nat) /\ buf \in Seq(Nat)
    BY DEF IInv
  <2> QED
    BY <1>1, <2>1, Appended
<1>3. Unreported = 0 /\ accepted <= Len(sink) /\ (~torn => Len(sink) = accepted)
  BY Numbers DEF IInv, Balance, Unreported
<1>4. /\ \A i \in 1..accepted : \E j \in 1..Len(sink) : sink[j] = i
      /\ \A j \in 1..n : buf[j] = accepted + j
  <2>1. \A j \in 1..Len(buf) : buf[j] = accepted + j
    <3>1. buf = After(accepted, Len(buf))
      BY DEF IInv, Owned
    <3> QED
      BY <3>1 DEF After
  <2>2. \A i \in 1..accepted + 0 : \E j \in 1..Len(sink) : sink[j] = i
    BY <1>3 DEF IInv, Balance
  <2> QED
    BY <1>1, <2>1, <2>2, Numbers
<1>5. /\ flushed' \in 0..Len(sink') /\ torn' \in BOOLEAN
  <2>1. flushed' \in 0..Len(sink')
    BY <1>1, <1>2, Numbers
  <2>2. torn \in BOOLEAN
    BY DEF IInv, TypeOK, HolderTypeOK
  <2> QED
    BY <1>1, <2>1, <2>2
<1>6. CASE end = "done"
  <2>1. Reported(end, n) = n
    BY <1>6 DEF Reported
  <2>2. accepted + n <= Len(sink') /\ (~torn' => Len(sink') = accepted + n)
    <3>1. ~torn' => ~torn
      BY <1>1, Zenon
    <3> QED
      <4>1. n \in Nat /\ Len(sink) \in Nat /\ accepted \in Nat
        BY <1>1, Numbers
      <4>2. Len(sink) = accepted => Len(sink') = accepted + n
        BY <1>2
      <4>3. accepted + n <= Len(sink')
        BY <1>2, <1>3, <4>1
      <4> QED
        BY <1>3, <3>1, <4>2, <4>3, Zenon
  <2>3. ASSUME NEW i \in 1..accepted + n PROVE \E j \in 1..Len(sink') : sink'[j] = i
    <3>1. CASE i <= accepted
      <4>1. i \in 1..accepted
        BY <3>1, Numbers
      <4>2. PICK j \in 1..Len(sink) : sink[j] = i
        BY <1>4, <4>1
      <4>3. j \in 1..Len(sink') /\ sink'[j] = i
        BY <1>1, <1>2, <4>2, Numbers
      <4> QED
        BY <4>3
    <3>2. CASE ~(i <= accepted)
      <4>1. i - accepted \in 1..n /\ Len(sink) + (i - accepted) \in 1..Len(sink')
        <5>1. n \in Nat /\ accepted \in Nat /\ Len(sink) \in Nat
          BY <1>1, Numbers
        <5>2. Len(sink') = Len(sink) + n
          BY <1>2
        <5> QED
          BY <3>2, <5>1, <5>2
      <4> QED
        BY <1>2, <1>4, <4>1, Numbers
    <3> QED
      BY <3>1, <3>2
  <2>4. ASSUME ~torn' PROVE sink' = After(0, Len(sink'))
    <3>1. ~torn /\ Len(sink) = accepted /\ sink = After(0, accepted) /\ Len(sink') = accepted + n
      BY <1>1, <1>2, <1>3, <2>4 DEF IInv
    <3>2. buf = After(accepted, Len(buf))
      BY DEF IInv, Owned
    <3>3. After(0, accepted) \o SubSeq(After(accepted, Len(buf)), 1, n) = After(0, accepted + n)
      BY AfterContinues, Numbers
    <3> QED
      BY <1>1, <3>1, <3>2, <3>3
  <2> QED
    BY <1>2, <1>5, <2>1, <2>2, <2>3, <2>4 DEF Effect
<1>7. CASE end # "done"
  <2>1. Reported(end, n) = 0 /\ accepted + 0 = accepted
    BY <1>7, Numbers DEF Reported
  <2>2. ~torn' => n = 0 /\ ~torn
    <3>1. n > 0 \/ n = 0
      BY <1>1
    <3> QED
      BY <1>1, <1>7, <3>1, Zenon
  <2>3. accepted <= Len(sink') /\ (~torn' => Len(sink') = accepted)
    BY <1>1, <1>2, <1>3, <2>2, Numbers
  <2>4. \A i \in 1..accepted : \E j \in 1..Len(sink') : sink'[j] = i
    BY <1>1, <1>2, <1>4, Numbers
  <2>5. ~torn' => sink' = After(0, Len(sink'))
    BY <1>2, <2>2 DEF IInv
  <2> QED
    BY <1>2, <1>5, <2>1, <2>3, <2>4, <2>5 DEF Effect
<1> QED
  BY <1>6, <1>7

LEMMA JobEffect ==
  ASSUME IInv, busy # "none", job = "running", NEW end \in Ends,
         NEW n \in 0..Len(buf), JobEnds(end, n)
  PROVE  Effect(end, n)
<1>1. CASE busy = "write" /\ JobWrites(end, n)
  BY <1>1, WriteEffect
<1>2. CASE busy # "write" /\ UNCHANGED <<sink, torn>> /\ flushed' \in {flushed, Len(sink)}
           /\ (busy = "flush" /\ end = "done" => flushed' = Len(sink))
  <2>1. Reported(end, n) = 0 /\ Unreported = 0
    BY <1>2 DEF Reported, Unreported
  <2>2. flushed' \in 0..Len(sink')
    BY <1>2, Numbers
  <2> QED
    BY <1>2, <2>1, <2>2 DEF Effect, IInv, Balance, TypeOK, HolderTypeOK
<1> QED
  BY <1>1, <1>2 DEF JobEnds, JobFlushes, sinkVars
-----------------------------------------------------------------------------
LEMMA InitInv == Init => IInv
<1> SUFFICES ASSUME Init PROVE IInv
  OBVIOUS
<1>1. <<>> \in Seq(Nat) /\ Len(<<>>) = 0 /\ After(0, 0) = <<>>
  BY DEF After
<1>2. TypeOK
  <2>1. /\ 0 \in 0..MaxOffer /\ 0 \in 0..Length /\ 0 \in 0..0 /\ 0 <= MaxBuf
        /\ answer.op = "none" /\ answer.result = "none"
    BY WriteHolderAssumption, HolderAssumption DEF Init, Nobody
  <2> QED
    BY <1>1, <2>1 DEF Init, TypeOK, HolderTypeOK, HolderInit, Kinds, Ends
<1>3. Owned /\ Jobs /\ Flushed
  BY <1>2 DEF Init, HolderInit, Owned, Jobs, Flushed, FlushCovers, Nobody
<1>4. Balance
  BY <1>1 DEF Init, Balance, Unreported
<1> QED
  BY <1>1, <1>2, <1>3, <1>4 DEF Init, HolderInit, IInv

(* The Busy arms when the job has ended with this effect.                   *)
LEMMA BackInv ==
  ASSUME IInv, call # "none", busy = call, NEW end \in Ends,
         NEW n \in 0..Len(buf), Back(end, n), Effect(end, n),
         kind' = kind, offer' = offer, wrote' = 0
  PROVE  IInv'
<1> USE WriteHolderAssumption, HolderAssumption DEF HolderTypeOK, Kinds, Ends
<1> DEFINE m == Reported(end, n)
<1>1. m \in Nat /\ m <= Len(buf) /\ n \in Nat
  BY Numbers DEF Reported
<1>2. /\ sink' \in Seq(Nat) /\ flushed' \in 0..Len(sink') /\ torn' \in BOOLEAN
      /\ ~torn' => sink' = After(0, Len(sink'))
      /\ accepted + m <= Len(sink') /\ (~torn' => Len(sink') = accepted + m)
      /\ \A i \in 1..accepted + m : \E j \in 1..Len(sink') : sink'[j] = i
      /\ busy = "flush" /\ end = "done" => flushed' = Len(sink')
  BY DEF Effect
<1>3. m # 0 => end = "done" /\ call = "write" /\ m = n
  BY DEF Reported
<1> HIDE DEF m
<1>4. call' = "none" /\ answer'.op = call /\ call \in Operations
  BY DEF Back, Answers, IInv, TypeOK, HolderTypeOK
<1>5. CASE end \in {"done", "failed"}
  <2>1. /\ busy' = "none" /\ job' = "none" /\ buf' = <<>> /\ cell' \in BOOLEAN
        /\ poisoned' = poisoned /\ answer'.result \in {"ok", "error"}
        /\ answer' = [op |-> call, result |-> IF end = "done" THEN "ok" ELSE "error"]
        /\ accepted' = accepted + m
    <3>1. accepted' = accepted + m
      <4>1. ~(end = "done" /\ call = "write") => m = 0
        BY <1>3
      <4>2. end = "done" /\ call = "write" => m = n
        BY DEF m, Reported
      <4> QED
        BY <1>5, <4>1, <4>2, Numbers DEF Back, Report
    <3> QED
      BY <1>5, <3>1 DEF Back, Answers, IInv, TypeOK, HolderTypeOK
  <2>2. accepted' \in 0..Length
    <3>1. m = 0 \/ accepted + Len(buf) <= Length
      BY <1>3 DEF IInv, Owned
    <3> QED
      BY <1>1, <2>1, <3>1, Numbers
  <2>3. <<>> \in Seq(Nat) /\ Len(<<>>) = 0
    OBVIOUS
  <2>4. TypeOK'
    BY <1>2, <1>4, <2>1, <2>2, <2>3 DEF IInv, TypeOK, HolderTypeOK
  <2>5. Owned'
    BY <1>4, <2>1 DEF Owned
  <2>6. Balance'
    <3>1. Unreported' = 0 /\ accepted' + 0 = accepted + m
      BY <1>1, <2>1, Numbers DEF Unreported
    <3> QED
      BY <1>2, <3>1 DEF Balance
  <2>7. Jobs'
    BY <2>1 DEF Jobs
  <2>8. Flushed'
    <3>1. answer' = [op |-> "flush", result |-> "ok"] => call = "flush" /\ end = "done"
      BY <2>1
    <3>2. call = "flush" => m = 0
      BY <1>3
    <3>3. call = "flush" /\ end = "done" => accepted' <= flushed' /\ flushed' = Len(sink')
      BY <1>1, <1>2, <2>1, <3>2, Numbers
    <3> QED
      BY <1>4, <2>1, <3>1, <3>3 DEF Flushed, FlushCovers
  <2> QED
    BY <1>2, <2>1, <2>3, <2>4, <2>5, <2>6, <2>7, <2>8 DEF IInv
<1>6. CASE end = "panicked"
  <2>1. /\ job' = "spent" /\ poisoned' = (kind = "async")
        /\ UNCHANGED <<busy, cell, buf, accepted>>
        /\ answer'.result \in {"panic", "error"}
    BY <1>6 DEF Back, Answers
  <2>2. m = 0 /\ accepted + m = accepted /\ Unreported' = 0
    BY <1>3, <1>6, <2>1, Numbers DEF Unreported
  <2>3. TypeOK'
    BY <1>2, <1>4, <2>1, Numbers DEF IInv, TypeOK, HolderTypeOK
  <2>4. Owned'
    BY <1>4, <2>1 DEF IInv, Owned
  <2>5. Balance'
    BY <1>2, <2>1, <2>2 DEF Balance
  <2>6. Jobs'
    BY <1>4, <2>1 DEF IInv, Jobs
  <2>7. Flushed'
    BY <1>4, <2>1 DEF Flushed, FlushCovers
  <2> QED
    BY <1>2, <2>1, <2>3, <2>4, <2>5, <2>6, <2>7 DEF IInv
<1> QED
  BY <1>5, <1>6

LEMMA NextInv == IInv /\ [Next]_vars => IInv'
<1> SUFFICES ASSUME IInv, [Next]_vars PROVE IInv'
  OBVIOUS
<1> USE WriteHolderAssumption, HolderAssumption DEF HolderTypeOK, Kinds, Ends
<1>1. ASSUME NEW op \in Operations, NEW n \in 0..MaxOffer, Begin(op, n) PROVE IInv'
  <2>1. /\ call = "none" /\ call' = op /\ answer' = Nobody /\ offer' \in 0..MaxOffer
        /\ op = "write" => accepted + offer' <= Length
        /\ UNCHANGED <<kind, busy, cell, buf, job, wrote, poisoned, accepted,
                       sink, flushed, torn>>
    BY <1>1 DEF Begin, jobVars, sinkVars, IInv, TypeOK, HolderTypeOK
  <2>2. Nobody # [op |-> "flush", result |-> "ok"] /\ Nobody.op = "none" /\ Nobody.result = "none"
    BY DEF Nobody
  <2>3. TypeOK'
    BY <2>1, <2>2 DEF IInv, TypeOK, HolderTypeOK
  <2>4. Owned' /\ Balance' /\ Jobs'
    BY <2>1 DEF IInv, Owned, Balance, Jobs, Unreported
  <2>5. Flushed'
    BY <2>1, <2>2 DEF IInv, Flushed, FlushCovers
  <2> QED
    BY <2>1, <2>3, <2>4, <2>5 DEF IInv
<1>2. CASE GiveUp
  <2>1. /\ call' = "none" /\ UNCHANGED <<kind, busy, cell, buf, job, wrote, poisoned, offer,
                                        accepted, sink, flushed, torn, answer>>
    BY <1>2 DEF GiveUp, jobVars, sinkVars
  <2>2. TypeOK' /\ Owned' /\ Balance'
    BY <2>1 DEF IInv, TypeOK, HolderTypeOK, Owned, Balance, Unreported
  <2>3. Jobs' /\ Flushed'
    BY <2>1 DEF IInv, Jobs, Flushed, FlushCovers
  <2> QED
    BY <2>1, <2>2, <2>3 DEF IInv
<1>3. CASE Start
  <2>1. /\ call # "none" /\ busy = "none" /\ job = "none" /\ busy' = call /\ job' = "running"
        /\ ~Locked /\ cell' \in BOOLEAN
        /\ UNCHANGED <<kind, wrote, poisoned, call, offer, accepted, sink, flushed, torn, answer>>
    BY <1>3 DEF Start, sinkVars, IInv, Jobs, TypeOK, HolderTypeOK
  <2>2. /\ buf' \in Seq(Nat) /\ Len(buf') <= MaxBuf /\ (call # "write" => buf' = <<>>)
        /\ call = "write" => buf' = After(accepted, Len(buf')) /\ accepted + Len(buf') <= Length
    <3>1. CASE call = "write"
      <4>1. buf' = After(accepted, Copied(offer)) /\ accepted + offer <= Length
        BY <1>3, <3>1 DEF Start, After, IInv, Owned
      <4>2. Copied(offer) \in Nat /\ Copied(offer) <= MaxBuf /\ Copied(offer) <= offer
        BY Numbers DEF Copied, Least
      <4>3. buf' \in Seq(Nat) /\ Len(buf') = Copied(offer)
        BY <4>1, <4>2, AfterSeq, Numbers
      <4>4. accepted + Copied(offer) <= Length
        BY <4>1, <4>2, Numbers
      <4> QED
        BY <3>1, <4>1, <4>2, <4>3, <4>4
    <3>2. CASE call # "write"
      BY <1>3, <2>1, <3>2 DEF Start, IInv, Owned, TypeOK, HolderTypeOK
    <3> QED
      BY <3>1, <3>2
  <2>3. wrote = 0 /\ Unreported = 0 /\ Unreported' = 0
    BY <2>1 DEF IInv, Jobs, Unreported
  <2>4. TypeOK'
    BY <2>1, <2>2, <2>3 DEF IInv, TypeOK, HolderTypeOK
  <2>5. Owned' /\ Jobs'
    BY <2>1, <2>2, <2>3 DEF IInv, Owned, Jobs, Locked
  <2>6. Balance' /\ Flushed'
    BY <2>1, <2>3 DEF IInv, Balance, Flushed, FlushCovers, Nobody
  <2> QED
    BY <2>1, <2>2, <2>4, <2>5, <2>6 DEF IInv
<1>4. CASE Panic \/ ShutDownTrivially
  <2>1. /\ call # "none" /\ call' = "none" /\ answer'.op = call
        /\ answer'.result \in {"ok", "panic"}
        /\ answer' # [op |-> "flush", result |-> "ok"]
        /\ cell' \in BOOLEAN /\ poisoned' \in BOOLEAN /\ (poisoned => poisoned')
        /\ UNCHANGED <<kind, busy, buf, job, wrote, offer, accepted, sink, flushed, torn>>
    <3>1. CASE Panic
      <4>1. /\ call # "none" /\ call' = "none" /\ answer' = [op |-> call, result |-> "panic"]
            /\ UNCHANGED <<kind, busy, buf, job, wrote, offer, accepted, sink, flushed, torn>>
        BY <3>1 DEF Panic, Answers, sinkVars
      <4>2. cell' \in BOOLEAN /\ poisoned' \in BOOLEAN /\ (poisoned => poisoned')
        BY <3>1 DEF Panic, IInv, TypeOK, HolderTypeOK
      <4> QED
        BY <4>1, <4>2
    <3>2. CASE ShutDownTrivially
      BY <3>2 DEF ShutDownTrivially, Trivial, Answers, jobVars, sinkVars, IInv, TypeOK, HolderTypeOK
    <3> QED
      BY <1>4, <3>1, <3>2
  <2>2. TypeOK' /\ Owned' /\ Balance'
    BY <2>1 DEF IInv, TypeOK, HolderTypeOK, Owned, Balance, Unreported
  <2>3. Jobs' /\ Flushed'
    BY <2>1 DEF IInv, Jobs, Flushed, FlushCovers
  <2> QED
    BY <2>1, <2>2, <2>3 DEF IInv
<1>5. CASE Run
  <2>1. PICK end \in Ends, n \in 0..Len(buf) :
          JobEnds(end, n) /\ job' = end /\ wrote' = n
    BY <1>5 DEF Run
  <2>2. /\ kind = "blocking" /\ job = "running" /\ busy # "none"
        /\ UNCHANGED <<kind, busy, cell, buf, poisoned, call, offer, accepted, answer>>
    BY <1>5 DEF Run, IInv, Jobs
  <2>3. Effect(end, n)
    BY <2>1, <2>2, JobEffect
  <2>4. Unreported' = Reported(end, n)
    BY <2>1, <2>2 DEF Unreported, Reported
  <2>5. TypeOK'
    BY <2>1, <2>2, <2>3 DEF Effect, IInv, TypeOK, HolderTypeOK
  <2>6. Owned' /\ Jobs'
    BY <2>1, <2>2 DEF IInv, Owned, Jobs
  <2>7. Balance'
    BY <2>2, <2>3, <2>4 DEF Effect, Balance
  <2>8. Flushed'
    BY <2>1, <2>2, <2>3 DEF Effect, IInv, Flushed, FlushCovers
  <2> QED
    BY <2>2, <2>3, <2>5, <2>6, <2>7, <2>8 DEF Effect, IInv
<1>6. CASE FinishAsync
  <2>1. PICK end \in Ends, n \in 0..Len(buf) :
          JobEnds(end, n) /\ Back(end, n)
    BY <1>6 DEF FinishAsync
  <2>2. /\ call # "none" /\ busy = call /\ job = "running"
        /\ UNCHANGED <<kind, wrote, offer>>
    BY <1>6 DEF FinishAsync, Locked, IInv, Jobs
  <2>3. wrote' = 0
    BY <2>2 DEF IInv, Jobs
  <2> QED
    BY <2>1, <2>2, <2>3, JobEffect, BackInv
<1>7. CASE FinishBlocking
  <2>1. /\ call # "none" /\ busy = call /\ job \in Ends
        /\ Back(job, wrote) /\ wrote' = 0 /\ wrote \in 0..Len(buf)
        /\ UNCHANGED <<kind, offer, sink, flushed, torn>>
    BY <1>7 DEF FinishBlocking, sinkVars, IInv, TypeOK, HolderTypeOK
  <2>2. Reported(job, wrote) = Unreported
    BY DEF Reported, Unreported
  <2>3. Effect(job, wrote)
    BY <2>1, <2>2 DEF Effect, IInv, TypeOK, HolderTypeOK, Balance, Flushed
  <2> QED
    BY <2>1, <2>3, BackInv
<1>8. CASE UNCHANGED vars
  <2>1. TypeOK' /\ Owned' /\ Balance'
    BY <1>8 DEF vars, IInv, TypeOK, HolderTypeOK, Owned, Balance, Unreported
  <2>2. Jobs' /\ Flushed'
    BY <1>8 DEF vars, IInv, Jobs, Flushed, FlushCovers
  <2> QED
    BY <1>8, <2>1, <2>2 DEF vars, IInv
<1> QED
  BY <1>1, <1>2, <1>3, <1>4, <1>5, <1>6, <1>7, <1>8 DEF Next, Poll

LEMMA Invariance == Spec => []IInv
BY InitInv, NextInv, PTL DEF Spec
-----------------------------------------------------------------------------
(* SinkInOrder: the object receives the bytes of the stream in order and
   once, whatever calls are given up, as long as no job is torn.            *)
THEOREM WritesInOrder == Spec => []SinkInOrder
<1>1. IInv => SinkInOrder
  BY DEF IInv, SinkInOrder, After
<1> QED
  BY <1>1, Invariance, PTL

(* AcceptedReceived: what is reported as written has been received.         *)
THEOREM ReportsAreTrue == Spec => []AcceptedReceived
<1>1. IInv => AcceptedReceived
  <2> SUFFICES ASSUME IInv PROVE AcceptedReceived
    OBVIOUS
  <2>1. Unreported \in Nat
    BY Numbers DEF Unreported
  <2>2. 1..accepted \subseteq 1..accepted + Unreported
    BY <2>1, Numbers
  <2> QED
    BY <2>2 DEF IInv, Balance, AcceptedReceived
<1> QED
  BY <1>1, Invariance, PTL

(* FlushCovers: a flush that succeeds covers everything accepted.           *)
THEOREM FlushesCover == Spec => []FlushCovers
<1>1. IInv => FlushCovers
  BY DEF IInv, Flushed
<1> QED
  BY <1>1, Invariance, PTL
-----------------------------------------------------------------------------
(***************************************************************************)
(* ReadHolder.                                                             *)
(***************************************************************************)
Numbered(n) == [i \in 1..n |-> i]

(* A job that was asked for nothing answers nobody else: unless the call that
   asked was given up, it is still there, with no room.                     *)
Asker ==
  job \in {"running", "done", "failed", "panicked"} /\ max = 0 /\ ~hollow
    => calling /\ room = 0

ReadInv ==
  /\ ReadTypeOK
  /\ buf \in Seq(Nat) /\ received \in Seq(Nat)
  /\ received \o buf = Numbered(taken)
  /\ job \in {"running", "failed", "panicked"} => buf = <<>>
  /\ job = "done" /\ buf = <<>> => ended \/ max = 0
  /\ job \in Ends => kind = "blocking"
  /\ calling => reply = "none"
  /\ poisoned => job = "spent"
  /\ Asker
  /\ EndIsReal
-----------------------------------------------------------------------------
LEMMA NumberedSeq ==
  ASSUME NEW n \in Nat
  PROVE  Numbered(n) \in Seq(Nat) /\ Len(Numbered(n)) = n
BY DEF Numbered

(* What the object gives continues what it gave before.                     *)
LEMMA FreshContinues ==
  ASSUME taken \in Nat, NEW n \in Nat
  PROVE  /\ Fresh(n) \in Seq(Nat) /\ Len(Fresh(n)) = n
         /\ Numbered(taken) \o Fresh(n) = Numbered(taken + n)
<1>1. Fresh(n) \in Seq(Nat) /\ Len(Fresh(n)) = n
  BY DEF Fresh
<1>2. Numbered(taken) \in Seq(Nat) /\ Len(Numbered(taken)) = taken
  BY NumberedSeq
<1>3. Numbered(taken + n) \in Seq(Nat) /\ Len(Numbered(taken + n)) = taken + n
  BY NumberedSeq
<1> DEFINE both == Numbered(taken) \o Fresh(n)
<1>4. /\ both \in Seq(Nat) /\ Len(both) = taken + n
      /\ \A i \in 1..taken + n :
           both[i] = IF i <= taken THEN Numbered(taken)[i] ELSE Fresh(n)[i - taken]
  <2> DEFINE old == Numbered(taken)
             new == Fresh(n)
  <2>1. old \in Seq(Nat) /\ new \in Seq(Nat) /\ Len(old) = taken /\ Len(new) = n
    BY <1>1, <1>2
  <2> HIDE DEF old, new
  <2>2. /\ old \o new \in Seq(Nat) /\ Len(old \o new) = Len(old) + Len(new)
        /\ \A i \in 1..Len(old) + Len(new) :
             (old \o new)[i] = IF i <= Len(old) THEN old[i] ELSE new[i - Len(old)]
    BY <2>1, ConcatProperties
  <2> QED
    BY <2>1, <2>2 DEF old, new
<1>5. \A i \in 1..taken + n : both[i] = Numbered(taken + n)[i]
  BY <1>4 DEF Numbered, Fresh
<1> HIDE DEF both
<1>6. both = Numbered(taken + n)
  BY <1>3, <1>4, <1>5, SeqEqual
<1> QED
  BY <1>1, <1>6 DEF both

(* Buf::copy_to splits what is there: nothing is lost, whatever the room.   *)
LEMMA CopySplits ==
  ASSUME received \in Seq(Nat), room \in Nat, NEW bytes \in Seq(Nat), CopyTo(bytes)
  PROVE  /\ received' \in Seq(Nat) /\ buf' \in Seq(Nat)
         /\ received' \o buf' = received \o bytes
         /\ Len(buf') <= Len(bytes)
         /\ reply' = "end" => bytes = <<>> /\ room > 0
         /\ reply' \in {"end", "data"} /\ room' = 0 /\ calling' = FALSE
<1> DEFINE n == Least(Len(bytes), room)
           front == SubSeq(bytes, 1, n)
           back == SubSeq(bytes, n + 1, Len(bytes))
<1>1. Len(bytes) \in Nat /\ n \in 0..Len(bytes) /\ (n = 0 /\ room > 0 => bytes = <<>>)
  <2>1. Len(bytes) \in Nat /\ (Len(bytes) = 0 => bytes = <<>>)
    OBVIOUS
  <2> QED
    BY <2>1 DEF Least
<1>2. /\ received' = received \o front /\ buf' = back
      /\ Replies(IF n = 0 /\ room > 0 THEN "end" ELSE "data")
  BY DEF CopyTo
<1> HIDE DEF n
<1>3. front \in Seq(Nat) /\ back \in Seq(Nat) /\ Len(back) = Len(bytes) - n
  BY <1>1, SubSeqProperties
<1>4. front \o back = bytes
  <2>1. 1 \in 1..Len(bytes) + 1 /\ n \in 1 - 1..Len(bytes) /\ Len(bytes) \in n..Len(bytes)
    BY <1>1
  <2> QED
    BY <2>1, ConcatAdjacentSubSeq, SubSeqFull
<1> HIDE DEF front, back
<1>5. (received \o front) \o back = received \o (front \o back)
  BY <1>3, ConcatAssociative
<1>6. received \o front \in Seq(Nat)
  BY <1>3, ConcatProperties
<1> QED
  BY <1>1, <1>2, <1>3, <1>4, <1>5, <1>6 DEF Replies
-----------------------------------------------------------------------------
LEMMA Fits ==
  ASSUME NEW got \in Seq(Nat), NEW held \in Seq(Nat), NEW n \in Nat,
         got \o held = Numbered(n)
  PROVE  Len(got) <= n
<1>1. Len(got \o held) = Len(got) + Len(held)
  BY ConcatProperties
<1> QED
  BY <1>1, NumberedSeq

LEMMA ReadInitInv == ReadInit => ReadInv
<1> SUFFICES ASSUME ReadInit PROVE ReadInv
  OBVIOUS
<1>1. <<>> \in Seq(Nat) /\ Len(<<>>) = 0 /\ <<>> \o <<>> = <<>> /\ Numbered(0) = <<>>
  BY DEF Numbered
<1>2. 0 \in 0..MaxBuf /\ 0 \in 0..Length /\ 0 <= MaxBuf
  BY ReadHolderAssumption, HolderAssumption DEF HolderTypeOK, Kinds, Ends
<1>3. {poisoned, calling, ended, hollow} \subseteq BOOLEAN
  BY DEF ReadInit, HolderInit
<1>4. ReadTypeOK
  BY <1>1, <1>2, <1>3 DEF ReadInit, ReadTypeOK, HolderTypeOK, HolderInit
<1> QED
  BY <1>1, <1>4 DEF ReadInit, HolderInit, ReadInv, Asker, EndIsReal, Ends

(* The Busy arm: what the job has read goes to whoever polls now.  Told of the
   end is only a caller with room, of a job that was asked for something or
   whose asker has left.                                                    *)
LEMMA ReadBackInv ==
  ASSUME ReadInv,
         NEW end \in Ends, NEW bytes \in Seq(Nat),
         BackRead(end, bytes), calling, job \in {"running", "done", "failed", "panicked"},
         kind' = kind, hollow' = hollow,
         taken' \in 0..Length, ended' \in BOOLEAN, ended => ended',
         received \o bytes = Numbered(taken'), Len(bytes) <= MaxBuf,
         end # "done" => bytes = <<>> /\ buf = <<>>,
         end = "done" /\ bytes = <<>> => ended' \/ max = 0
  PROVE  ReadInv'
<1> USE ReadHolderAssumption, HolderAssumption DEF HolderTypeOK, Kinds, Ends
<1>1. max' = 0 /\ 0 \in 0..MaxBuf /\ 0 \in Rooms \cup {0} /\ room \in Nat
  BY DEF BackRead, ReadInv, ReadTypeOK, HolderTypeOK
<1>2. taken' \in Nat /\ kind' \in {"async", "blocking"} /\ hollow' \in BOOLEAN
  BY DEF ReadInv, ReadTypeOK, HolderTypeOK
<1>3. CASE end = "done"
  <2>1. job' = "none" /\ CopyTo(bytes) /\ poisoned' = poisoned
    BY <1>3 DEF BackRead
  <2>2. /\ received' \in Seq(Nat) /\ buf' \in Seq(Nat)
        /\ received' \o buf' = Numbered(taken') /\ Len(buf') <= Len(bytes)
        /\ reply' = "end" => bytes = <<>> /\ room > 0
        /\ reply' \in {"end", "data"} /\ room' = 0 /\ calling' = FALSE
    BY <1>1, <2>1, CopySplits DEF ReadInv
  <2>3. Len(received') <= taken'
    BY <1>2, <2>2, Fits
  <2>4. Len(buf') <= MaxBuf
    BY <2>2
  <2>5. ReadTypeOK'
    BY <1>1, <1>2, <2>1, <2>2, <2>3, <2>4 DEF ReadInv, ReadTypeOK, HolderTypeOK
  <2>6. EndIsReal'
    BY <1>3, <2>2 DEF EndIsReal, ReadInv, Asker
  <2>7. ~poisoned
    BY DEF ReadInv
  <2> QED
    BY <2>1, <2>2, <2>5, <2>6, <2>7 DEF ReadInv, Asker
<1>4. CASE end # "done"
  <2>1. /\ buf' = buf /\ received' = received /\ buf = <<>> /\ bytes = <<>>
        /\ calling' = FALSE /\ room' = 0 /\ reply' \in {"error", "panic"}
        /\ job' \in {"none", "spent"} /\ poisoned' \in BOOLEAN
        /\ poisoned' => job' = "spent"
    BY <1>4 DEF BackRead, Replies, ReadInv, ReadTypeOK, HolderTypeOK
  <2>2. received' \o buf' = Numbered(taken') /\ Len(buf') <= MaxBuf
    BY <2>1
  <2>3. Len(received') <= taken'
    BY <1>2, <2>1, <2>2, Fits DEF ReadInv
  <2>4. ReadTypeOK'
    BY <1>1, <1>2, <2>1, <2>2, <2>3 DEF ReadInv, ReadTypeOK, HolderTypeOK
  <2> QED
    BY <2>1, <2>2, <2>4 DEF ReadInv, Asker, EndIsReal
<1> QED
  BY <1>3, <1>4

(* A job gives the object's next bytes to an empty Buf.                     *)
LEMMA ReadsOn ==
  ASSUME ReadInv, job = "running",
         NEW end \in Ends,
         NEW n \in 0..max, Reads(end, n)
  PROVE  /\ n \in Nat /\ taken' \in 0..Length /\ ended' \in BOOLEAN /\ (ended => ended')
         /\ Fresh(n) \in Seq(Nat) /\ Len(Fresh(n)) = n /\ n <= MaxBuf
         /\ received \o Fresh(n) = Numbered(taken')
         /\ end # "done" => Fresh(n) = <<>>
         /\ end = "done" /\ Fresh(n) = <<>> => ended' \/ max = 0
<1> USE ReadHolderAssumption, HolderAssumption DEF HolderTypeOK, Kinds, Ends
<1>1. /\ n \in Nat /\ taken \in Nat /\ max \in 0..MaxBuf /\ n <= max
      /\ taken' = taken + n /\ taken' \in 0..Length /\ (end # "done" => n = 0)
  BY DEF ReadInv, ReadTypeOK, HolderTypeOK, Reads
<1>2. /\ Fresh(n) \in Seq(Nat) /\ Len(Fresh(n)) = n
      /\ Numbered(taken) \o Fresh(n) = Numbered(taken')
  BY <1>1, FreshContinues
<1>3. received = Numbered(taken)
  <2>1. received \in Seq(Nat) /\ buf = <<>> /\ received \o buf = Numbered(taken)
    BY DEF ReadInv
  <2> QED
    BY <2>1, ConcatEmptySeq
<1>4. ended' \in BOOLEAN /\ (ended => ended') /\ (end = "done" /\ n = 0 => ended' \/ max = 0)
  <2>1. ended' = (ended \/ (end = "done" /\ n = 0 /\ max > 0)) /\ ended \in BOOLEAN
    BY DEF Reads, ReadInv, ReadTypeOK, HolderTypeOK
  <2>2. max > 0 \/ max = 0
    BY <1>1
  <2> QED
    BY <2>1, <2>2, Zenon
<1>5. Fresh(n) = <<>> <=> n = 0
  BY <1>1, <1>2
<1> QED
  BY <1>1, <1>2, <1>3, <1>4, <1>5

LEMMA ReadNextInv == ReadInv /\ [ReadNext]_readVars => ReadInv'
<1> SUFFICES ASSUME ReadInv, [ReadNext]_readVars PROVE ReadInv'
  OBVIOUS
<1> USE ReadHolderAssumption, HolderAssumption DEF HolderTypeOK, Kinds, Ends
<1>1. ASSUME NEW n \in Rooms, BeginRead(n) PROVE ReadInv'
  BY <1>1 DEF BeginRead, ReadInv, ReadTypeOK, HolderTypeOK, Asker, EndIsReal
<1>2. CASE GiveUpRead
  BY <1>2 DEF GiveUpRead, ReadInv, ReadTypeOK, HolderTypeOK, Asker, EndIsReal
<1>3. CASE PanicRead
  <2>1. job = "spent"
    BY <1>3 DEF PanicRead, ReadUnwraps, ReadInv
  <2> QED
    BY <1>3, <2>1 DEF PanicRead, Replies, ReadInv, ReadTypeOK, HolderTypeOK, Asker, EndIsReal
<1>4. CASE Drain
  <2>1. /\ received' \in Seq(Nat) /\ buf' \in Seq(Nat)
        /\ received' \o buf' = received \o buf /\ Len(buf') <= Len(buf)
        /\ reply' \in {"end", "data"} /\ reply' # "end"
        /\ room' = 0 /\ calling' = FALSE
    <3>1. received \in Seq(Nat) /\ buf \in Seq(Nat) /\ buf # <<>> /\ room \in Nat /\ CopyTo(buf)
      BY <1>4 DEF Drain, ReadInv, ReadTypeOK, HolderTypeOK
    <3> QED
      BY <3>1, CopySplits
  <2>2. /\ job' = "none" /\ job = "none"
        /\ UNCHANGED <<kind, max, poisoned, taken, ended, hollow>>
    BY <1>4 DEF Drain
  <2>3. received' \o buf' = Numbered(taken') /\ Len(buf') <= MaxBuf /\ taken' \in Nat
    BY <2>1, <2>2 DEF ReadInv, ReadTypeOK, HolderTypeOK
  <2>4. Len(received') <= taken'
    BY <2>1, <2>3, Fits
  <2>5. ReadTypeOK'
    BY <2>1, <2>2, <2>3, <2>4 DEF ReadInv, ReadTypeOK, HolderTypeOK
  <2> QED
    BY <2>1, <2>2, <2>3, <2>5 DEF ReadInv, Asker, EndIsReal
<1>5. CASE StartRead
  <2>1. room \in Nat /\ Asked(room) \in 0..MaxBuf /\ (Asked(room) = 0 => room = 0)
    BY DEF ReadInv, ReadTypeOK, HolderTypeOK, Asked, Least
  <2> QED
    BY <1>5, <2>1 DEF StartRead, callVars, ReadInv, ReadTypeOK, HolderTypeOK, Asker, EndIsReal
<1>6. CASE RunRead
  <2>1. PICK end \in Ends, n \in 0..max :
          Reads(end, n) /\ job' = end /\ buf' = Fresh(n)
    BY <1>6 DEF RunRead
  <2>2. /\ job = "running" /\ kind = "blocking"
        /\ UNCHANGED <<kind, max, poisoned, hollow, calling, room, received, reply>>
    BY <1>6 DEF RunRead, callVars
  <2>3. /\ n \in Nat /\ taken' \in 0..Length /\ ended' \in BOOLEAN /\ (ended => ended')
        /\ buf' \in Seq(Nat) /\ Len(buf') <= MaxBuf
        /\ received \o buf' = Numbered(taken')
        /\ end # "done" => buf' = <<>>
        /\ end = "done" /\ buf' = <<>> => ended' \/ max = 0
    BY <2>1, <2>2, ReadsOn
  <2>4. Len(received') <= taken'
    <3>1. /\ received' = received /\ received \in Seq(Nat) /\ buf' \in Seq(Nat)
          /\ taken' \in Nat /\ received \o buf' = Numbered(taken')
      BY <2>2, <2>3 DEF ReadInv
    <3> QED
      BY <3>1, Fits
  <2>5. ReadTypeOK'
    BY <2>1, <2>2, <2>3, <2>4 DEF ReadInv, ReadTypeOK, HolderTypeOK
  <2> QED
    BY <2>1, <2>2, <2>3, <2>5 DEF ReadInv, Asker, EndIsReal
<1>7. CASE FinishAsyncRead
  <2>1. PICK end \in Ends, n \in 0..max :
          Reads(end, n) /\ BackRead(end, Fresh(n))
    BY <1>7 DEF FinishAsyncRead
  <2>2. calling /\ job = "running" /\ UNCHANGED <<kind, hollow>> /\ buf = <<>>
    BY <1>7 DEF FinishAsyncRead, ReadInv
  <2> QED
    BY <2>1, <2>2, ReadsOn, ReadBackInv
<1>8. CASE FinishBlockingRead
  <2>1. /\ calling /\ job \in Ends /\ BackRead(job, buf)
        /\ UNCHANGED <<kind, taken, ended, hollow>>
    BY <1>8 DEF FinishBlockingRead
  <2>2. /\ taken' \in 0..Length /\ ended' \in BOOLEAN /\ buf \in Seq(Nat)
        /\ Len(buf) <= MaxBuf /\ received \o buf = Numbered(taken')
        /\ job # "done" => buf = <<>>
        /\ job = "done" /\ buf = <<>> => ended' \/ max = 0
    BY <2>1 DEF ReadInv, ReadTypeOK, HolderTypeOK
  <2> QED
    BY <2>1, <2>2, ReadBackInv
<1>9. CASE UNCHANGED readVars
  BY <1>9 DEF readVars, ReadInv, ReadTypeOK, HolderTypeOK, Asker, EndIsReal
<1> QED
  BY <1>1, <1>2, <1>3, <1>4, <1>5, <1>6, <1>7, <1>8, <1>9 DEF ReadNext

LEMMA ReadInvariance == ReadSpec => []ReadInv
BY ReadInitInv, ReadNextInv, PTL DEF ReadSpec
-----------------------------------------------------------------------------
(* CancelSafe: however calls are given up and repeated, every byte the object
   gave is with a caller or in the Buf, in order.                           *)
THEOREM ReadsAreCancelSafe == ReadSpec => []CancelSafe
<1>1. ReadInv => CancelSafe
  BY DEF ReadInv, CancelSafe, Numbered
<1> QED
  BY <1>1, ReadInvariance, PTL

(* EndIsReal: no caller with room is told of an end that is none, but by the
   answer to a read without room that was given up.                         *)
THEOREM EndsAreReal == ReadSpec => []EndIsReal
<1>1. ReadInv => EndIsReal
  BY DEF ReadInv
<1> QED
  BY <1>1, ReadInvariance, PTL
=============================================================================
