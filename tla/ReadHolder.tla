----------------------------- MODULE ReadHolder -----------------------------
(***************************************************************************)
(* SimpleAsyncReadHolder (src/src/simple_async_io.rs), ReadBlocking        *)
(* (src/src/blocking.rs) and their Buf (src/src/buf.rs): an AsyncRead made *)
(* of an object whose read is an async function, or blocks a thread.  The  *)
(* object leaves the holder for the time of a read; what it has read waits *)
(* in the Buf until a caller has room for it.                              *)
(*                                                                         *)
(* The caller offers room for some bytes, and may give a call up and make  *)
(* another with a different room.  The names carry "Read" where WriteHolder*)
(* has its own.                                                            *)
(***************************************************************************)
EXTENDS Holder

CONSTANT
  Rooms       (* the sizes of the callers' buffers                         *)

ASSUME ReadHolderAssumption == Rooms \subseteq Nat

VARIABLES
  max,        (* max_buf_size of the job                                   *)
  calling,    (* a poll_read is outstanding                                *)
  room,       (* bytes that fit into its buffer                            *)
  taken,      (* bytes the object has given                                *)
  received,   (* the bytes the callers have got                            *)
  ended,      (* history: the object has reported the end of its data      *)
  reply,      (* history: how the last call was answered                   *)
  hollow      (* history: the job was asked for nothing, by a call with no
                 room, and that call was given up                          *)

callVars == <<calling, room, received, reply>>
readVars == <<kind, job, max, buf, poisoned, calling, room, taken, received,
          ended, reply, hollow>>

ReadTypeOK ==
  /\ HolderTypeOK /\ max \in 0..MaxBuf
  /\ {calling, ended, hollow} \subseteq BOOLEAN
  /\ room \in Rooms \cup {0}
  /\ taken \in 0..Length /\ Len(received) <= taken
  /\ reply \in {"none", "data", "end", "error", "panic"}

ReadInit ==
  /\ HolderInit /\ max = 0
  /\ calling = FALSE /\ room = 0 /\ taken = 0 /\ received = <<>>
  /\ ended = FALSE /\ reply = "none" /\ hollow = FALSE
-----------------------------------------------------------------------------
(* The caller.                                                              *)
BeginRead(n) ==
  /\ ~calling /\ calling' = TRUE /\ room' = n /\ reply' = "none"
  /\ UNCHANGED <<kind, job, max, buf, poisoned, taken, received, ended, hollow>>

GiveUpRead ==
  /\ calling /\ calling' = FALSE /\ room' = 0
  /\ hollow' = (hollow \/ (job # "none" /\ max = 0))
  /\ UNCHANGED <<kind, job, max, buf, poisoned, taken, received, ended, reply>>

Replies(r) == calling' = FALSE /\ room' = 0 /\ reply' = r

(* Mutant: what does not fit into the caller's buffer is dropped.           *)
CopyToTruncates(bytes) ==
  LET n == Least(Len(bytes), room)
  IN /\ received' = received \o SubSeq(bytes, 1, n)
     /\ buf' = <<>>
     /\ Replies(IF n = 0 /\ room > 0 THEN "end" ELSE "data")

(* Buf::copy_to: what fits goes to the caller, the rest stays.              *)
CopyTo(bytes) ==
  LET n == Least(Len(bytes), room)
  IN /\ received' = received \o SubSeq(bytes, 1, n)
     /\ buf' = SubSeq(bytes, n + 1, Len(bytes))
     /\ Replies(IF n = 0 /\ room > 0 THEN "end" ELSE "data")
-----------------------------------------------------------------------------
(* lock().unwrap() on a poisoned Mutex, a JoinHandle polled after its end.  *)
ReadUnwraps ==
  \/ kind = "async" /\ poisoned
  \/ kind = "blocking" /\ job = "spent"

PanicRead ==
  /\ calling /\ ReadUnwraps /\ Replies("panic")
  /\ UNCHANGED <<kind, job, max, buf, poisoned, taken, received, ended, hollow>>

(* The Idle arm with bytes left from an earlier read ...                    *)
Drain ==
  /\ calling /\ ~ReadUnwraps /\ job = "none" /\ buf # <<>>
  /\ CopyTo(buf)
  /\ UNCHANGED <<kind, job, max, poisoned, taken, ended, hollow>>

(* Mutant: a read is asked for less than the caller has room for.           *)
AskedShort(n) == Least(n - 1, MaxBuf)

Asked(n) == Least(n, MaxBuf)

(* ... and without: a job reads up to what this call has room for.          *)
StartRead ==
  /\ calling /\ ~ReadUnwraps /\ job = "none" /\ buf = <<>>
  /\ job' = "running" /\ max' = Asked(room) /\ hollow' = FALSE
  /\ UNCHANGED <<kind, buf, poisoned, taken, ended, callVars>>

Fresh(n) == [i \in 1..n |-> taken + i]

(* What the object does in the job: at its end, or asked for nothing, it
   gives no bytes.                                                          *)
Reads(end, n) ==
  /\ n <= max /\ taken + n <= Length /\ taken' = taken + n
  /\ end # "done" => n = 0
  /\ ended' = (ended \/ (end = "done" /\ n = 0 /\ max > 0))

RunRead ==
  /\ kind = "blocking" /\ job = "running"
  /\ \E end \in Ends, n \in 0..max :
       Reads(end, n) /\ job' = end /\ buf' = Fresh(n)
  /\ UNCHANGED <<kind, max, poisoned, hollow, callVars>>

(* The Busy arm when the job has ended with these bytes in the Buf.         *)
BackRead(end, bytes) ==
  /\ max' = 0
  /\ IF end = "done" THEN job' = "none" /\ CopyTo(bytes) /\ UNCHANGED poisoned
     ELSE /\ UNCHANGED <<buf, received>>
          /\ IF end = "failed"
             THEN job' = "none" /\ Replies("error") /\ UNCHANGED poisoned
             ELSE /\ job' = "spent" /\ poisoned' = (kind = "async")
                  /\ Replies(IF kind = "async" THEN "panic" ELSE "error")

FinishAsyncRead ==
  /\ kind = "async" /\ calling /\ ~ReadUnwraps /\ job = "running"
  /\ \E end \in Ends, n \in 0..max :
       Reads(end, n) /\ BackRead(end, Fresh(n))
  /\ UNCHANGED <<kind, hollow>>

FinishBlockingRead ==
  /\ kind = "blocking" /\ calling /\ job \in Ends
  /\ BackRead(job, buf)
  /\ UNCHANGED <<kind, taken, ended, hollow>>

ReadNext ==
  \/ \E n \in Rooms : BeginRead(n)
  \/ GiveUpRead \/ PanicRead \/ Drain \/ StartRead \/ RunRead \/ FinishAsyncRead \/ FinishBlockingRead

ReadSpec == ReadInit /\ [][ReadNext]_readVars
-----------------------------------------------------------------------------
(* Reads can be given up at any time: every byte the object gave is with a
   caller or in the Buf, in order, whatever room the next caller has; the
   Buf never holds more than MaxBuf (part of ReadTypeOK).                       *)
CancelSafe == ReadTypeOK /\ received \o buf = [i \in 1..taken |-> i]

(* A caller with room is told of the end of the data only when the object has
   reached it, also by the answer to a read that somebody else had started:
   unless that somebody had no room at all, whose read asks for nothing.    *)
EndIsReal == reply = "end" => ended \/ hollow
=============================================================================
