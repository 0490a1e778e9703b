------------------------- MODULE CopyBidirectional -------------------------
(***************************************************************************)
(* copy_bidirectional_with_timeout_and_sizes                               *)
(* (src/src/copy_bidirectional.rs): one task that copies both directions   *)
(* between two streams, with an idle timer and a budget of operations per  *)
(* poll.  Direction 1 goes from a to b, direction 2 from b to a.           *)
(*                                                                         *)
(* A poll of the task runs as a sequence of steps, one per call of an inner*)
(* stream, so that the streams and the clock may change while it runs.     *)
(* Between polls the task sleeps until the timer fires, until a stream it  *)
(* has registered with becomes ready, or until the wakeup it gave itself.  *)
(* The streams are external: each call is answered, in part, with the end  *)
(* or a failure, or it pends until the stream wakes the task.              *)
(***************************************************************************)
EXTENDS Integers, Sequences

CONSTANTS
  BufSize,     (* BufSize[d]: length of the buffer of direction d          *)
  MaxOps,      (* MAX_COPY_OPS_PER_POLL                                    *)
  Timeout,     (* ticks of the idle timer                                  *)
  Supply       (* bound: bytes the source of direction d has at most       *)

Dirs == {1, 2}

ASSUME CopyAssumption ==
  /\ BufSize \in [Dirs -> Nat \ {0}]
  /\ MaxOps \in Nat \ {0}
  /\ Timeout \in Nat \ {0}
  /\ Supply \in [Dirs -> Nat]

VARIABLES
  phase,       (* phase[d]: TransferState                                  *)
  readDone, needFlush, pos, amt,
  buf,         (* buf[d]: the first cap bytes of the buffer, cap = Len     *)
  turn,        (* 0 between polls, the direction being polled, 3 at the end*)
  step,        (* the next call of the direction being polled              *)
  ops,         (* ops_remaining of the direction being polled              *)
  made,        (* made_progress                                            *)
  left,        (* ticks until the idle timer fires                         *)
  woken,       (* the task has been woken since its last poll began        *)
  result,      (* what the copy returned                                   *)
  interest,    (* interest[d]: operations that pend and will wake the task *)
  got, eof, delivered, dirty, shut,  (* history of the streams: see Relay  *)
  quiet        (* history: ticks since bytes last moved, at most Timeout   *)

bufferVars == <<readDone, needFlush, pos, amt, buf>>
pollVars   == <<turn, step, ops, made>>
sinkVars   == <<delivered, dirty, shut>>
streamVars == <<interest, got, eof, delivered, dirty, shut, quiet>>
vars == <<phase, readDone, needFlush, pos, amt, buf, turn, step, ops, made,
          left, woken, result, interest, got, eof, delivered, dirty,
          shut, quiet>>

Operations == {"read", "write", "flush", "shutdown"}

Least(m, n) == IF m < n THEN m ELSE n

TypeOK ==
  /\ phase \in [Dirs -> {"Running", "ShuttingDown", "Done"}]
  /\ readDone \in [Dirs -> BOOLEAN] /\ needFlush \in [Dirs -> BOOLEAN]
  /\ \A d \in Dirs : amt[d] = Len(delivered[d])
  /\ \A d \in Dirs : buf[d] \in Seq(Nat) /\ Len(buf[d]) <= BufSize[d]
                     /\ pos[d] \in 0..Len(buf[d])
  /\ turn \in 0..3
  /\ step \in {"enter", "top", "write", "refill", "idleflush", "eofflush", "shutdown"}
  /\ ops \in 1..MaxOps
  /\ made \in BOOLEAN /\ woken \in BOOLEAN
  /\ left \in 0..Timeout /\ quiet \in 0..Timeout
  /\ result \in {"none", "ok", "timeout", "error"}
  /\ interest \in [Dirs -> SUBSET Operations]

Init ==
  /\ phase = [d \in Dirs |-> "Running"]
  /\ readDone = [d \in Dirs |-> FALSE] /\ needFlush = [d \in Dirs |-> FALSE]
  /\ pos = [d \in Dirs |-> 0] /\ amt = [d \in Dirs |-> 0]
  /\ buf = [d \in Dirs |-> <<>>]
  /\ turn = 0 /\ step = "enter" /\ ops = MaxOps /\ made = FALSE
  /\ left = Timeout /\ woken = TRUE /\ result = "none"
  /\ interest = [d \in Dirs |-> {}]
  /\ got = [d \in Dirs |-> 0] /\ eof = [d \in Dirs |-> FALSE]
  /\ delivered = [d \in Dirs |-> <<>>] /\ dirty = [d \in Dirs |-> FALSE]
  /\ shut = [d \in Dirs |-> FALSE] /\ quiet = 0
-----------------------------------------------------------------------------
(* The streams.  A call is answered, or it pends and registers the task; one
   that pends goes on pending until the stream has woken the task.          *)
Answered(d, op) == op \notin interest[d] /\ UNCHANGED interest

Pends(d, op) ==
  /\ interest' = [interest EXCEPT ![d] = @ \cup {op}]
  /\ UNCHANGED <<got, eof, delivered, dirty, shut, quiet>>

BecomesReady(d, op) ==
  /\ op \in interest[d]
  /\ interest' = [interest EXCEPT ![d] = @ \ {op}]
  /\ woken' = TRUE
  /\ UNCHANGED <<phase, bufferVars, pollVars, left, result,
                 got, eof, delivered, dirty, shut, quiet>>

Tick ==
  /\ left > 0
  /\ left' = left - 1
  /\ quiet' = Least(quiet + 1, Timeout)
  /\ woken' = (woken \/ left = 1)
  /\ UNCHANGED <<phase, bufferVars, pollVars, result, interest,
                 got, eof, delivered, dirty, shut>>
-----------------------------------------------------------------------------
(* The transfer of a direction in this poll goes on with the call s, or is
   over: poll_copy and transfer_one_direction returned Pending.             *)
GoTo(s) == step' = s /\ UNCHANGED <<turn, ops>>
Leave   == turn' = turn + 1 /\ step' = "enter" /\ ops' = MaxOps

(* Mutant: the task that has used up its budget does not wake itself.       *)
ConsumeSilently(s) ==
  /\ UNCHANGED woken
  /\ IF ops = 1 THEN Leave
     ELSE IF s = "pending" THEN Leave
     ELSE step' = s /\ ops' = ops - 1 /\ UNCHANGED turn

(* consume_copy_budget: one operation less; with the last one the task wakes
   itself and returns Pending.                                              *)
Consume(s) ==
  IF ops = 1 THEN woken' = TRUE /\ Leave
  ELSE /\ UNCHANGED woken
       /\ IF s = "pending" THEN Leave
          ELSE step' = s /\ ops' = ops - 1 /\ UNCHANGED turn

Polling(d, s) == result = "none" /\ turn = d /\ step = s

(* The `?' on every inner call: the copy returns the error at once.         *)
Fails(d, op) ==
  /\ op \notin interest[d]
  /\ result' = "error"
  /\ UNCHANGED <<phase, bufferVars, pollVars, left, woken, streamVars>>

(* transfer_one_direction: where the transfer of this direction goes on.    *)
Enter(d) ==
  /\ Polling(d, "enter")
  /\ CASE phase[d] = "Running"      -> GoTo("top")
       [] phase[d] = "ShuttingDown" -> GoTo("shutdown")
       [] phase[d] = "Done"         -> Leave
  /\ UNCHANGED <<phase, bufferVars, made, left, woken, result, streamVars>>

(* Mutant: the buffer is filled whenever it has room.                       *)
CanFillAlways(d) == Len(buf[d]) < BufSize[d]

CanFill(d) == Len(buf[d]) < BufSize[d] /\ ~readDone[d]

(* poll_fill_buf, answered: some bytes, or none at the end of the source.   *)
Fill(d) ==
  /\ Answered(d, "read")
  /\ \/ /\ \E n \in 1..Least(BufSize[d] - Len(buf[d]), Supply[d] - got[d]) :
             /\ buf' = [buf EXCEPT ![d] = @ \o [i \in 1..n |-> got[d] + i]]
             /\ got' = [got EXCEPT ![d] = @ + n]
        /\ readDone' = [readDone EXCEPT ![d] = FALSE]
        /\ made' = TRUE /\ quiet' = 0
        /\ UNCHANGED eof
     \/ /\ readDone' = [readDone EXCEPT ![d] = TRUE]
        /\ eof' = [eof EXCEPT ![d] = TRUE]
        /\ UNCHANGED <<buf, got, made, quiet>>
  /\ UNCHANGED <<phase, needFlush, pos, amt, left, result, sinkVars>>

(* Mutant: a reader with nothing to give ends the turn at once.             *)
FillPendsUnflushed(d) ==
  /\ Pends(d, "read")
  /\ IF pos[d] < Len(buf[d]) THEN GoTo("write") ELSE Leave
  /\ UNCHANGED <<phase, bufferVars, made, left, woken, result>>

(* A reader that has nothing to give: write what is there, else flush what
   was written before going to sleep.                                       *)
FillPends(d) ==
  /\ Pends(d, "read")
  /\ IF pos[d] < Len(buf[d]) THEN GoTo("write")
     ELSE IF needFlush[d] THEN GoTo("idleflush")
     ELSE Leave
  /\ UNCHANGED <<phase, bufferVars, made, left, woken, result>>

(* The head of poll_copy's loop.                                            *)
Top(d) ==
  /\ Polling(d, "top")
  /\ \/ CanFill(d) /\ \/ Fill(d) /\ Consume("write")
                      \/ FillPends(d)
                      \/ Fails(d, "read")
     \/ /\ ~CanFill(d) /\ GoTo("write")
        /\ UNCHANGED <<phase, bufferVars, made, left, woken, result, streamVars>>

IdleFlush(d) ==
  /\ Polling(d, "idleflush")
  /\ \/ /\ Answered(d, "flush")
        /\ needFlush' = [needFlush EXCEPT ![d] = FALSE]
        /\ dirty' = [dirty EXCEPT ![d] = FALSE]
        /\ made' = TRUE /\ quiet' = 0
        /\ Consume("pending")
        /\ UNCHANGED <<phase, readDone, pos, amt, buf, left, result, got, eof,
                       delivered, shut>>
     \/ /\ Pends(d, "flush") /\ Leave
        /\ UNCHANGED <<phase, bufferVars, made, left, woken, result>>
     \/ Fails(d, "flush")

(* Mutant: written bytes do not count as progress.                          *)
WriteUncounted(d, n) ==
  /\ pos' = [pos EXCEPT ![d] = @ + n]
  /\ amt' = [amt EXCEPT ![d] = @ + n]
  /\ needFlush' = [needFlush EXCEPT ![d] = TRUE]
  /\ UNCHANGED made

(* The bookkeeping of n > 0 bytes accepted by the writer.                   *)
Write(d, n) ==
  /\ pos' = [pos EXCEPT ![d] = @ + n]
  /\ amt' = [amt EXCEPT ![d] = @ + n]
  /\ needFlush' = [needFlush EXCEPT ![d] = TRUE]
  /\ made' = TRUE

(* poll_write_buf: a writer that pends gives the reader a turn.  A writer
   that accepts nothing is an error.                                        *)
WriteBuffer(d) ==
  /\ Polling(d, "write") /\ pos[d] < Len(buf[d])
  /\ \/ /\ Answered(d, "write")
        /\ \E n \in 1..Len(buf[d]) - pos[d] :
             /\ Write(d, n)
             /\ delivered' = [delivered EXCEPT ![d] =
                                @ \o SubSeq(buf[d], pos[d] + 1, pos[d] + n)]
        /\ dirty' = [dirty EXCEPT ![d] = TRUE]
        /\ quiet' = 0
        /\ Consume("write")
        /\ UNCHANGED <<phase, readDone, buf, left, result, got, eof, shut>>
     \/ /\ Pends(d, "write")
        /\ IF CanFill(d) THEN GoTo("refill") ELSE Leave
        /\ UNCHANGED <<phase, bufferVars, made, left, woken, result>>
     \/ Fails(d, "write")

Refill(d) ==
  /\ Polling(d, "refill")
  /\ \/ Fill(d) /\ Consume("pending")
     \/ /\ Pends(d, "read") /\ Leave
        /\ UNCHANGED <<phase, bufferVars, made, left, woken, result>>
     \/ Fails(d, "read")

(* The buffer is empty: start over, or flush for the last time.             *)
Wrap(d) ==
  /\ Polling(d, "write") /\ pos[d] = Len(buf[d])
  /\ pos' = [pos EXCEPT ![d] = 0]
  /\ buf' = [buf EXCEPT ![d] = <<>>]
  /\ GoTo(IF readDone[d] THEN "eofflush" ELSE "top")
  /\ UNCHANGED <<phase, readDone, needFlush, amt, made, left, woken, result, streamVars>>

EofFlush(d) ==
  /\ Polling(d, "eofflush")
  /\ \/ /\ Answered(d, "flush")
        /\ dirty' = [dirty EXCEPT ![d] = FALSE]
        /\ made' = TRUE /\ quiet' = 0
        /\ phase' = [phase EXCEPT ![d] = "ShuttingDown"]
        /\ GoTo("shutdown")
        /\ UNCHANGED <<bufferVars, left, woken, result, got, eof, delivered, shut>>
     \/ /\ Pends(d, "flush") /\ Leave
        /\ UNCHANGED <<phase, bufferVars, made, left, woken, result>>
     \/ Fails(d, "flush")

ShutDown(d) ==
  /\ Polling(d, "shutdown")
  /\ \/ /\ Answered(d, "shutdown")
        /\ shut' = [shut EXCEPT ![d] = TRUE]
        /\ made' = TRUE /\ quiet' = 0
        /\ phase' = [phase EXCEPT ![d] = "Done"]
        /\ Leave
        /\ UNCHANGED <<bufferVars, left, woken, result, got, eof, delivered, dirty>>
     \/ /\ Pends(d, "shutdown") /\ Leave
        /\ UNCHANGED <<phase, bufferVars, made, left, woken, result>>
     \/ Fails(d, "shutdown")
-----------------------------------------------------------------------------
(* Mutant: the timer is not looked at.                                      *)
StartPollUntimed ==
  /\ result = "none" /\ turn = 0 /\ woken
  /\ turn' = 1 /\ made' = FALSE /\ woken' = FALSE
  /\ UNCHANGED <<phase, bufferVars, step, ops, left, result, streamVars>>

(* The poll_fn closure: the timer first, then both directions ...           *)
StartPoll ==
  /\ result = "none" /\ turn = 0 /\ woken
  /\ IF left = 0
     THEN result' = "timeout" /\ UNCHANGED <<turn, made, woken>>
     ELSE turn' = 1 /\ made' = FALSE /\ woken' = FALSE /\ UNCHANGED result
  /\ UNCHANGED <<phase, bufferVars, step, ops, left, streamVars>>

(* ... then the timer is put back if anything moved.                        *)
EndPoll ==
  /\ result = "none" /\ turn = 3
  /\ left' = IF made THEN Timeout ELSE left
  /\ IF \A d \in Dirs : phase[d] = "Done" THEN result' = "ok" ELSE UNCHANGED result
  /\ turn' = 0
  /\ UNCHANGED <<phase, bufferVars, step, ops, made, woken, streamVars>>

Transfer(d) ==
  \/ Enter(d) \/ Top(d) \/ IdleFlush(d) \/ WriteBuffer(d) \/ Refill(d)
  \/ Wrap(d) \/ EofFlush(d) \/ ShutDown(d)

Task == StartPoll \/ EndPoll \/ \E d \in Dirs : Transfer(d)

Streams == result = "none" /\ \E d \in Dirs, op \in Operations : BecomesReady(d, op)

Clock == result = "none" /\ Tick

Next == Task \/ Streams \/ Clock

Spec == Init /\ [][Next]_vars

(* The executor polls a woken task, and a poll runs to its end.  Nothing is
   assumed of the streams, and of the clock only where a property says so.  *)
FairSpec == Spec /\ WF_vars(Task)
-----------------------------------------------------------------------------
Asleep == result = "none" /\ turn = 0 /\ ~woken

(* The task sleeps only when whatever it could do next will wake it: writing
   what it holds, reading when it holds nothing, and the last flush or the
   shutdown of a direction that has ended.  No poll, however it was cut
   short, ends with a direction nobody watches.  And a direction that waits
   for its source has passed on all it has: bytes are flushed, or being
   flushed, before the task sleeps, so that a peer which answers what it
   receives is never kept waiting for its own answer.  With TypeOK, which
   bounds the positions in the buffers.                                     *)
SleepsSafely ==
  /\ TypeOK
  /\ Asleep => \A d \in Dirs :
       /\ pos[d] < Len(buf[d]) => "write" \in interest[d]
       /\ phase[d] = "Running" /\ pos[d] = Len(buf[d]) =>
            (IF readDone[d] THEN "flush" ELSE "read") \in interest[d]
       /\ phase[d] = "ShuttingDown" => "shutdown" \in interest[d]
       /\ phase[d] = "Running" /\ pos[d] = Len(buf[d]) /\ dirty[d] =>
            "flush" \in interest[d]

(* The idle timeout is reported only after a full timeout in which no byte
   moved in either direction (doc comment of copy_bidirectional).           *)
TimeoutMeansIdle == result = "timeout" => quiet = Timeout

(* Both directions are pipes: nothing is lost, repeated or reordered by the
   buffer; no read follows the end of a source, and no write a shutdown; a
   sink is shut down only flushed and complete; Ok only when both are.      *)
Pipes == INSTANCE Relay
ImplementsRelay == Pipes!RelaySpec

(* As time goes on the copy ends whatever the streams do, hung ones included.*)
Terminates == WF_vars(Clock) => <>(result # "none")

(* It also ends when the timer never fires and the streams do not leave the
   task pending for good: no wakeup is lost that the timeout would only hide. *)
Completes ==
  [](left > 0) /\ <>[](\A d \in Dirs : interest[d] = {})
    => <>(result \in {"ok", "error"})
=============================================================================
