----------------------------- MODULE QAProcess -----------------------------
(***************************************************************************)
(* QAProcess (src/src/qa_process.rs): a dialogue with a child process.     *)
(* answer reads the child's stdout and stderr byte by byte until one of    *)
(* them ends with the question, then writes the answer and a newline to    *)
(* its stdin.  wait waits for its exit.  Both may be dropped at any await. *)
(*                                                                         *)
(* The child is external: it writes to pipes of limited room, asks one     *)
(* question at a time, the bytes 1..QLen, and waits for a line.  Other     *)
(* output is the byte 0.  Only how far the end of a call's buffer matches  *)
(* the question is kept of it.                                             *)
(***************************************************************************)
EXTENDS Integers, Sequences

CONSTANTS
  QLen,       (* bytes in the question                                     *)
  BufSize,    (* buf.len() and error_buf.len(), 4096                       *)
  PipeCap,    (* bytes a pipe holds                                        *)
  MaxNoise,   (* bound: other output of the child, on each pipe            *)
  MaxAsks     (* bound: how often the child asks                           *)

ASSUME QAAssumption ==
  /\ {QLen, BufSize, PipeCap} \subseteq Nat \ {0}
  /\ MaxNoise \in Nat /\ MaxAsks \in Nat

Outs == {"stdout", "stderr"}

VARIABLES
  child,      (* "busy", "printing" other output, "asking", "waiting" for a
                 line, or gone: "exited" or "failed"                       *)
  asked,      (* bytes of the question written so far                      *)
  on,         (* the pipe it prints or asks on                             *)
  pipe,       (* pipe[p]: bytes written and not yet read                   *)
  stdin,      (* what is written to stdin and not yet read: "a", "nl"      *)
  call,       (* "none", "answer" or "wait"                                *)
  stage,      (* in answer: "select", "answer" or "newline" to be written;
                 in wait: "exit" or "drain"                                *)
  offset,     (* offset and error_offset                                   *)
  match,      (* how many bytes of the question end the buffer             *)
  result,     (* how the last call ended                                   *)
  noise,      (* history: bytes 0 written on each pipe                     *)
  asks,       (* history: questions completed                              *)
  replies,    (* history: answers written                                  *)
  line,       (* history: answers in the line the child reads              *)
  broken      (* history: an answer call was dropped or failed             *)

childVars == <<child, asked, on, noise, asks, line>>
callVars  == <<call, stage, offset, match, result, replies, broken>>
vars == <<child, asked, on, pipe, stdin, call, stage, offset, match,
          result, noise, asks, replies, line, broken>>

Alive == child \notin {"exited", "failed"}

TypeOK ==
  /\ child \in {"busy", "printing", "asking", "waiting", "exited", "failed"}
  /\ asked \in 0..QLen /\ on \in Outs
  /\ \A p \in Outs : /\ Len(pipe[p]) <= PipeCap
                     /\ offset[p] \in 0..BufSize /\ match[p] \in 0..QLen
  /\ Len(stdin) <= PipeCap
  /\ call \in {"none", "answer", "wait"}
  /\ stage \in {"none", "select", "answer", "newline", "exit", "drain"}
  /\ result \in {"none", "ok", "eof", "overflow", "error"}

Init ==
  /\ child = "busy" /\ asked = 0 /\ on = "stdout"
  /\ pipe = [p \in Outs |-> <<>>] /\ stdin = <<>>
  /\ call = "none" /\ stage = "none" /\ result = "none"
  /\ offset = [p \in Outs |-> 0] /\ match = [p \in Outs |-> 0]
  /\ noise = [p \in Outs |-> 0] /\ asks = 0 /\ replies = 0 /\ line = 0
  /\ broken = FALSE
-----------------------------------------------------------------------------
(* The child.                                                               *)
Put(p, byte) ==
  /\ Len(pipe[p]) < PipeCap
  /\ pipe' = [pipe EXCEPT ![p] = Append(@, byte)]

BeginNoise(p) ==
  /\ child = "busy" /\ noise[p] < MaxNoise
  /\ child' = "printing" /\ on' = p
  /\ UNCHANGED <<asked, noise, asks, line, pipe, stdin, callVars>>

Noise ==
  /\ child = "printing" /\ Put(on, 0) /\ child' = "busy"
  /\ noise' = [noise EXCEPT ![on] = @ + 1]
  /\ UNCHANGED <<asked, on, asks, line, stdin, callVars>>

BeginAsk(p) ==
  /\ child = "busy" /\ asks < MaxAsks
  /\ child' = "asking" /\ on' = p
  /\ UNCHANGED <<asked, noise, asks, line, pipe, stdin, callVars>>

Ask ==
  /\ child = "asking" /\ Put(on, asked + 1)
  /\ IF asked + 1 = QLen
     THEN child' = "waiting" /\ asked' = 0 /\ asks' = asks + 1
     ELSE asked' = asked + 1 /\ UNCHANGED <<child, asks>>
  /\ UNCHANGED <<on, noise, line, stdin, callVars>>

ReadStdin ==
  /\ child = "waiting" /\ stdin # <<>> /\ stdin' = Tail(stdin)
  /\ IF Head(stdin) = "nl" THEN child' = "busy" /\ line' = 0
     ELSE line' = line + 1 /\ UNCHANGED child
  /\ UNCHANGED <<asked, on, noise, asks, pipe, callVars>>

Exit(how) ==
  /\ child = "busy" /\ child' = how
  /\ UNCHANGED <<asked, on, noise, asks, line, pipe, stdin, callVars>>

Killed ==
  /\ Alive /\ child' = "failed"
  /\ UNCHANGED <<asked, on, noise, asks, line, pipe, stdin, callVars>>
-----------------------------------------------------------------------------
Answer ==
  /\ call = "none" /\ call' = "answer" /\ stage' = "select"
  /\ offset' = [p \in Outs |-> 0] /\ match' = [p \in Outs |-> 0]
  /\ result' = "none"
  /\ UNCHANGED <<childVars, pipe, stdin, replies, broken>>

Wait ==
  /\ call = "none" /\ call' = "wait" /\ stage' = "exit" /\ result' = "none"
  /\ UNCHANGED <<childVars, pipe, stdin, offset, match, replies, broken>>

Return(r) ==
  /\ call' = "none" /\ stage' = "none" /\ result' = r
  /\ offset' = [p \in Outs |-> 0] /\ match' = [p \in Outs |-> 0]
  /\ broken' = (broken \/ (call = "answer" /\ r # "ok"))

(* Mutant: the buffer counts as full one byte too early.                    *)
FullEarly(p) == offset[p] = BufSize - 1

Full(p) == offset[p] = BufSize

Overflow ==
  /\ stage = "select" /\ \E p \in Outs : Full(p)
  /\ Return("overflow")
  /\ UNCHANGED <<childVars, pipe, stdin, replies>>

Selecting == stage = "select" /\ \A p \in Outs : ~Full(p)

(* Mutant: the question is recognised by its beginning.                     *)
EndsWithBegun(p, byte) == byte = 1

(* current.ends_with(question), this byte being the last.                   *)
EndsWith(p, byte) == byte = match[p] + 1 /\ byte = QLen

(* Mutant: all there is in the pipe is read at once.                        *)
ReadAll(p) ==
  /\ Selecting /\ pipe[p] # <<>>
  /\ pipe' = [pipe EXCEPT ![p] = <<>>]
  /\ offset' = [offset EXCEPT ![p] = @ + 1]
  /\ match' = [match EXCEPT ![p] = Head(pipe[p])]
  /\ stage' = IF Head(pipe[p]) = QLen THEN "answer" ELSE "select"
  /\ UNCHANGED <<childVars, stdin, call, result, replies, broken>>

(* The branches of select!: whichever is ready, in no order.                *)
ReadByte(p) ==
  LET byte == Head(pipe[p])
  IN /\ Selecting /\ pipe[p] # <<>>
     /\ pipe' = [pipe EXCEPT ![p] = Tail(@)]
     /\ offset' = [offset EXCEPT ![p] = @ + 1]
     /\ match' = [match EXCEPT ![p] =
                    IF byte = @ + 1 THEN byte ELSE IF byte = 1 THEN 1 ELSE 0]
     /\ stage' = IF EndsWith(p, byte) THEN "answer" ELSE "select"
     /\ UNCHANGED <<childVars, stdin, call, result, replies, broken>>

ReadEof(p) ==
  /\ Selecting /\ pipe[p] = <<>> /\ ~Alive /\ Return("eof")
  /\ UNCHANGED <<childVars, pipe, stdin, replies>>

SeeExit ==
  /\ Selecting /\ ~Alive /\ Return("ok")
  /\ UNCHANGED <<childVars, pipe, stdin, replies>>

(* stdin.write_all, twice.                                                  *)
WriteAnswer ==
  /\ stage = "answer" /\ Alive /\ Len(stdin) < PipeCap
  /\ stdin' = Append(stdin, "a") /\ stage' = "newline"
  /\ replies' = replies + 1
  /\ UNCHANGED <<childVars, pipe, call, offset, match, result, broken>>

WriteNewline ==
  /\ stage = "newline" /\ Alive /\ Len(stdin) < PipeCap
  /\ stdin' = Append(stdin, "nl") /\ Return("ok")
  /\ UNCHANGED <<childVars, pipe, replies>>

(* Nobody reads stdin any more.                                             *)
WriteFails ==
  /\ stage \in {"answer", "newline"} /\ ~Alive /\ Return("error")
  /\ UNCHANGED <<childVars, pipe, stdin, replies>>

(* Mutant: only the exit of a child that succeeded ends the wait.           *)
WaitSuccess ==
  /\ stage = "exit" /\ child = "exited" /\ Return("ok")
  /\ UNCHANGED <<childVars, pipe, stdin, replies>>

(* child.wait(); after a failure stderr is read to its end.                 *)
WaitExit ==
  /\ stage = "exit" /\ ~Alive
  /\ \/ child = "exited" /\ Return("ok")
     \/ /\ child = "failed" /\ stage' = "drain"
        /\ UNCHANGED <<call, offset, match, result, broken>>
  /\ UNCHANGED <<childVars, pipe, stdin, replies>>

Drain ==
  /\ stage = "drain" /\ Return("error")
  /\ pipe' = [pipe EXCEPT !["stderr"] = <<>>]
  /\ UNCHANGED <<childVars, stdin, replies>>

(* The future is dropped at an await: what it has read is gone.             *)
Cancel ==
  /\ call # "none" /\ Return("none") /\ UNCHANGED replies
  /\ UNCHANGED <<childVars, pipe, stdin>>

Works ==
  \/ \E p \in Outs : BeginNoise(p) \/ BeginAsk(p)
  \/ Noise \/ Ask \/ ReadStdin \/ Exit("exited") \/ Exit("failed")

Goes ==
  \/ Overflow \/ SeeExit \/ WriteAnswer \/ WriteNewline \/ WriteFails
  \/ \E p \in Outs : ReadByte(p) \/ ReadEof(p)
  \/ WaitExit \/ Drain

Next == Works \/ Killed \/ Answer \/ Wait \/ Goes \/ Cancel

Spec == Init /\ [][Next]_vars

(* A call that can go on does, and so does a child.                         *)
FairSpec == Spec /\ WF_vars(Works) /\ WF_vars(Goes)
-----------------------------------------------------------------------------
(* The child gets no answer it has not asked for, whatever is dropped; and as
   long as no call is, one answer to a line and none missing but the last.  *)
OneToOne ==
  /\ replies <= asks
  /\ ~broken => line <= 1 /\ asks <= replies + 1

(* A question that ends with the last byte of the buffer is still found: the
   overflow is only reported when other output has left no room for it; and
   never is a byte written past it (part of TypeOK).                        *)
RoomEnough == TypeOK /\ (result = "overflow" => \E p \in Outs : noise[p] > BufSize - QLen)

(* A question is answered if it is waited for, although the calls before took
   some of the output, from two pipes, in any order: unless one of them was
   dropped or failed, and what it had read with it.                         *)
Served ==
  child = "waiting" /\ stage = "select" /\ ~broken
    ~> child # "waiting" \/ broken

(* wait closes no pipe and drains none: it waits forever for a child that
   waits for a line or for room in a pipe, and only for such a child.       *)
Stuck ==
  \/ child = "waiting" /\ stdin = <<>>
  \/ child \in {"printing", "asking"} /\ Len(pipe[on]) = PipeCap

WaitReturns == call = "wait" ~> call # "wait" \/ Stuck
=============================================================================
