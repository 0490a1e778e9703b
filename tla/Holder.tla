------------------------------- MODULE Holder -------------------------------
(***************************************************************************)
(* What SimpleAsyncReadHolder and SimpleAsyncWriteHolder                   *)
(* (src/src/simple_async_io.rs), ReadBlocking and WriteBlocking            *)
(* (src/src/blocking.rs) have in common: an object whose operations are    *)
(* async functions, or block a thread, behind a poll.  An operation takes  *)
(* the object out of the holder, runs as a job, and gives it back with its *)
(* result when it is polled at its end.                                    *)
(*                                                                         *)
(* They differ in who runs the job.  An "async" job is a future inside the *)
(* holder and runs only while the holder is polled, under its Mutex, which *)
(* a panic poisons; a "blocking" job runs on another thread at any time.   *)
(* ReadHolder and WriteHolder are the two machines.                        *)
(***************************************************************************)
EXTENDS Integers, Sequences

CONSTANTS
  MaxBuf,     (* DEFAULT_MAX_BUF_SIZE                                      *)
  Length      (* bound: bytes the object gives, or the caller writes       *)

ASSUME HolderAssumption == MaxBuf \in Nat \ {0} /\ Length \in Nat

VARIABLES
  kind,       (* the holder: "async" or "blocking"                         *)
  job,        (* the job: "none", "running", how it ended, or "spent": its
                 JoinHandle or its future is not to be polled any more     *)
  buf,        (* the bytes in the Buf                                      *)
  poisoned    (* the Mutex is poisoned                                     *)

Kinds == {"async", "blocking"}
Ends  == {"done", "failed", "panicked"}

(* What the two have of their own comes with their TypeOK.                  *)
HolderTypeOK ==
  /\ kind \in Kinds
  /\ job \in {"none", "running", "spent"} \cup Ends
  /\ Len(buf) <= MaxBuf /\ poisoned \in BOOLEAN

HolderInit == kind \in Kinds /\ job = "none" /\ buf = <<>> /\ poisoned = FALSE

Least(m, n) == IF m < n THEN m ELSE n
=============================================================================
