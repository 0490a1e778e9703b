---------------------------- MODULE WriteHolder ----------------------------
(***************************************************************************)
(* SimpleAsyncWriteHolder (src/src/simple_async_io.rs) and WriteBlocking   *)
(* (src/src/blocking.rs): an AsyncWrite made of an object whose operations *)
(* are async functions, or block a thread; see Holder.                     *)
(*                                                                         *)
(* The caller numbers the bytes of its stream.  It offers the bytes after  *)
(* those reported as accepted and, asked to try again, no fewer of them,   *)
(* as CopyBuffer does; it may give any call up and make another.  A poll   *)
(* that starts a job is one step; when the job ends at once, the poll that *)
(* finds it ended is the next step.                                        *)
(***************************************************************************)
EXTENDS Holder

CONSTANT
  MaxOffer    (* bound: bytes in the caller's slice                        *)

ASSUME WriteHolderAssumption == MaxOffer \in Nat

VARIABLES
  busy,       (* the operation whose state is Busy, and has the object     *)
  cell,       (* the Buf is in its cell when the write state is Idle       *)
  wrote,      (* the bytes a write job reports in its Ok                   *)
  call,       (* the operation the caller polls, or "none"                 *)
  offer,      (* bytes in the caller's slice                               *)
  accepted,   (* bytes reported to the caller as written                   *)
  sink,       (* the bytes the object has received                         *)
  flushed,    (* how many of them it has flushed                           *)
  torn,       (* history: a job failed with some of its bytes written      *)
  answer      (* history: the answer to the last call, and what it was     *)

jobVars  == <<busy, cell, buf, job, wrote>>
sinkVars == <<sink, flushed, torn>>
vars == <<kind, busy, cell, buf, job, wrote, poisoned, call, offer, accepted, sink,
          flushed, torn, answer>>

Operations == {"write", "flush", "shutdown"}
Nobody == [op |-> "none", result |-> "none"]

TypeOK ==
  /\ HolderTypeOK
  /\ busy \in Operations \cup {"none"}
  /\ cell \in BOOLEAN /\ torn \in BOOLEAN
  /\ call \in Operations \cup {"none"}
  /\ offer \in 0..MaxOffer
  /\ wrote \in 0..Len(buf)
  /\ accepted \in 0..Length
  /\ flushed \in 0..Len(sink)
  /\ answer.op \in Operations \cup {"none"}
  /\ answer.result \in {"none", "ok", "error", "panic"}

Init ==
  /\ HolderInit
  /\ busy = "none" /\ cell = TRUE /\ wrote = 0
  /\ call = "none" /\ offer = 0 /\ accepted = 0
  /\ sink = <<>> /\ flushed = 0 /\ torn = FALSE /\ answer = Nobody
-----------------------------------------------------------------------------
(* The caller.                                                              *)
Begin(op, n) ==
  /\ call = "none" /\ call' = op /\ answer' = Nobody
  /\ IF op = "write"
     THEN /\ n > 0 /\ accepted + n <= Length
          /\ IF busy = "write" THEN n >= offer ELSE Len(sink) + n <= Length
          /\ offer' = n
     ELSE n = 0 /\ UNCHANGED offer
  /\ UNCHANGED <<kind, jobVars, poisoned, accepted, sinkVars>>

GiveUp ==
  /\ call # "none" /\ call' = "none"
  /\ UNCHANGED <<kind, jobVars, poisoned, offer, accepted, sinkVars, answer>>

Answers(r) == call' = "none" /\ answer' = [op |-> call, result |-> r]
-----------------------------------------------------------------------------
(* lock().unwrap() on a poisoned Mutex.                                     *)
Locked  == kind = "async" /\ poisoned

(* Mutant: the operation is a trivial one for a flush as well.              *)
TrivialFlush == kind = "blocking" /\ call # "write"

(* WriteBlocking::poll_shutdown has nothing to do.                          *)
Trivial == kind = "blocking" /\ call = "shutdown"

(* Buf::copy_from.                                                          *)
Copied(n) == Least(n, MaxBuf)

(* Mutant: every poll starts a job, the running one is forgotten.           *)
StartAgain ==
  /\ call # "none" /\ ~Locked /\ ~Trivial
  /\ busy \in {"none", call} /\ (call = "write" => cell \/ busy = "write")
  /\ busy' = call /\ job' = "running"
  /\ IF call = "write"
     THEN /\ buf' = [i \in 1..Copied(offer) |-> accepted + i]
          /\ cell' = FALSE
     ELSE UNCHANGED <<buf, cell>>
  /\ UNCHANGED <<kind, wrote, poisoned, call, offer, accepted, sinkVars, answer>>

(* The Idle arms: the operation takes the object and becomes a job.  A write
   copies the caller's bytes, at most MaxBuf of them.                       *)
Start ==
  /\ call # "none" /\ ~Locked /\ ~Trivial
  /\ busy = "none" /\ (call = "write" => cell)
  /\ busy' = call /\ job' = "running"
  /\ IF call = "write"
     THEN /\ buf' = [i \in 1..Copied(offer) |-> accepted + i]
          /\ cell' = FALSE
     ELSE UNCHANGED <<buf, cell>>
  /\ UNCHANGED <<kind, wrote, poisoned, call, offer, accepted, sinkVars, answer>>

(* take().unwrap() where there is no object, or no Buf; lock().unwrap() and
   a JoinHandle polled after its end.  A write that panics on the object has
   already taken the Buf.                                                   *)
Unwraps ==
  \/ Locked
  \/ busy \notin {"none", call}
  \/ busy = "none" /\ call = "write" /\ ~cell
  \/ kind = "blocking" /\ busy = call /\ job = "spent"

Panic ==
  /\ call # "none" /\ ~Trivial /\ Unwraps
  /\ Answers("panic")
  /\ cell' = (cell /\ (Locked \/ call # "write"))
  /\ poisoned' = (poisoned \/ kind = "async")
  /\ UNCHANGED <<kind, busy, buf, job, wrote, offer, accepted, sinkVars>>

(* WriteBlocking::poll_shutdown.                                            *)
ShutDownTrivially ==
  /\ Trivial /\ Answers("ok")
  /\ UNCHANGED <<kind, jobVars, poisoned, offer, accepted, sinkVars>>
-----------------------------------------------------------------------------
(* What the object does in the job, and how the job ends.  A SimpleAsyncWrite
   writes a part and fails with nothing written; write_all writes it all, or
   fails anywhere before.                                                   *)
JobWrites(end, n) ==
  /\ end = "done" /\ kind = "blocking" => n = Len(buf)
  /\ end = "failed" => n < (IF kind = "async" THEN 1 ELSE Len(buf))
  /\ sink' = sink \o SubSeq(buf, 1, n)
  /\ torn' = (torn \/ (end # "done" /\ n > 0))
  /\ UNCHANGED flushed

JobFlushes(end) ==
  /\ flushed' = IF end = "done" THEN Len(sink) ELSE flushed
  /\ UNCHANGED <<sink, torn>>

JobEnds(end, n) ==
  \/ busy = "write" /\ JobWrites(end, n)
  \/ busy = "flush" /\ JobFlushes(end)
  \/ busy = "shutdown" /\ UNCHANGED sinkVars

(* A blocking job ends on its thread.                                       *)
Run ==
  /\ kind = "blocking" /\ job = "running"
  /\ \E end \in Ends, n \in 0..Len(buf) :
       JobEnds(end, n) /\ job' = end /\ wrote' = n
  /\ UNCHANGED <<kind, busy, cell, buf, poisoned, call, offer, accepted, answer>>

(* Mutant: the result of a write is the length of the caller's slice.       *)
ReportOffer(n) == accepted' = accepted + offer

(* The caller learns how many bytes the job has written.                    *)
Report(n) == accepted' = accepted + n

(* The Busy arms when the job has ended: the object and the Buf come back.  A
   panic comes through the poll; a JoinError returns with the state Busy.   *)
Back(end, n) ==
  IF end \in {"done", "failed"}
  THEN /\ busy' = "none" /\ job' = "none" /\ buf' = <<>>
       /\ cell' = (cell \/ call = "write")
       /\ Answers(IF end = "done" THEN "ok" ELSE "error")
       /\ IF end = "done" /\ call = "write" THEN Report(n) ELSE UNCHANGED accepted
       /\ UNCHANGED poisoned
  ELSE /\ job' = "spent" /\ poisoned' = (kind = "async")
       /\ Answers(IF kind = "async" THEN "panic" ELSE "error")
       /\ UNCHANGED <<busy, cell, buf, accepted>>

(* A future of the holder ends while it is polled ...                       *)
FinishAsync ==
  /\ kind = "async" /\ call # "none" /\ busy = call /\ ~Locked
  /\ \E end \in Ends, n \in 0..Len(buf) :
       JobEnds(end, n) /\ Back(end, n)
  /\ UNCHANGED <<kind, wrote, offer>>

(* ... a thread before.                                                     *)
FinishBlocking ==
  /\ kind = "blocking" /\ call # "none" /\ busy = call
  /\ job \in Ends
  /\ Back(job, wrote) /\ wrote' = 0
  /\ UNCHANGED <<kind, offer, sinkVars>>

Poll == Start \/ Panic \/ ShutDownTrivially \/ FinishAsync \/ FinishBlocking

Next ==
  \/ \E op \in Operations, n \in 0..MaxOffer : Begin(op, n)
  \/ GiveUp \/ Poll \/ Run

Spec == Init /\ [][Next]_vars
-----------------------------------------------------------------------------
(* Whatever calls are given up and repeated, the object receives the bytes of
   the stream in order and once: a job outlives the call that started it,
   and its result answers the call that repeats it.  Only a job that fails
   half-way, on a blocking writer or by a panic, leaves that to the caller.
   With TypeOK, which bounds the Buf.                                       *)
SinkInOrder == TypeOK /\ (~torn => sink = [i \in 1..Len(sink) |-> i])

(* Bytes reported to the caller are bytes the object has received, also when
   the answer comes from a job that an abandoned call had started.          *)
AcceptedReceived == \A i \in 1..accepted : \E j \in 1..Len(sink) : sink[j] = i

(* A flush that succeeds covers all that was accepted, also when it was
   started by a call that was given up.                                     *)
FlushCovers ==
  answer = [op |-> "flush", result |-> "ok"] => accepted <= flushed /\ flushed = Len(sink)

(* The unwraps assume that no operation begins while another has the object:
   a call panics only when the object itself has panicked.                  *)
ObjectPresent == answer.result = "panic" => job = "spent"
=============================================================================
