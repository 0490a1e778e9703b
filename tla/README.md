# Verification of sfo-io

TLA+ models of `src/src/`, a Rust library of rate-limited, measured and
adapted asynchronous I/O: the models, the TLC runs that check them on small
instances and the TLAPS proofs of what holds for every instance. `PROJECT.json`
lists the components, the runs, the source lines of every definition, the
hazards and the theorems; this file says how they belong together.

## 1. Inventory

| Component | Source | State | Operations | Correct when |
|---|---|---|---|---|
| Speed limiter and sessions | `speed_limiter.rs` | a tree of limiters, each a pair (weight, governor) behind a RwLock; a session is a chain of nodes with two remainders each | `new`, `set_limit`, `new_limit_session`, `until_ready` (async, cancellable) | every byte returned was admitted by every limiter above; nothing admitted is lost by a cancelled call; `set_limit` strands nobody |
| Rate-limited stream | `limit_stream.rs`, `limit_stream_local.rs` | per direction `Idle / Waiting(future) / Reading(permit)` | `poll_read`, `poll_write`, delegated flush and shutdown | no byte without permit; no false end of stream; every call answered |
| Rate-limited datagrams | `limit_datagram.rs`, `limit_datagram_local.rs` | per direction `Idle / Moving(permit, moved)` | `send_to`, `recv_from` (async, cancellable) | a permit is overrun by at most one datagram |
| Bidirectional copy | `copy_bidirectional.rs` | two `TransferState`s with their `CopyBuffer`, an idle timer, a budget per poll | one future | two pipes; timeout only when idle; no lost wakeup |
| Async trait adapters | `simple_async_io.rs` | the object or the job that has it, a `Buf`, a Mutex | `poll_read`, `poll_write`, `poll_flush`, `poll_shutdown` | bytes in order and once, also when calls are given up |
| Blocking adapters | `blocking.rs` | the same, jobs on a thread pool | the same | the same |
| Adapter buffer | `buf.rs` | bytes and a position | copy in, copy out, read, write | as the adapters need it |
| Transfer statistics | `stat_stream.rs` | bytes per second over a window | `add_data`, `get_speed`; wrappers that feed them | the speed is that of the window's seconds |
| Process dialogue | `qa_process.rs` | a child process and its pipes | `answer`, `wait`, `execute`, `spawn` | a question that is waited for is answered, once; `wait` ends with the child |
| Errors, exports | `error.rs`, `lib.rs` | none | none | - |

How they interact. A stream half and a datagram socket each own sessions and call
`until_ready`; a stream half keeps the future of that call across polls. Sessions
of different owners meet in the limiters they share, by reference counting and
the lock. `copy_bidirectional` drives any two streams by polls; limited,
measured and adapted streams are such streams. The adapters turn objects with async or
blocking operations into streams. The statistics are fed by wrappers around streams.

What is hard. Futures are dropped at their await points (limiter, datagrams) or
abandoned between polls (stream halves, adapters); configuration changes under
waiting calls; one task must never sleep on something that will not wake it;
inner streams answer in part, fail or panic between two assignments of the state;
blocking jobs outlive the calls that started them; amounts are rounded, and the clock jumps.
The list with lines is under `hazards` in `PROJECT.json`.

## 2. Modules

| Module | Stands for | Notes |
|---|---|---|
| `SpeedLimiter` | `speed_limiter.rs` | refines `Shaper` |
| `Shaper` | abstract: accounts paid by weight, received when every level covers it | |
| `SpeedLimiter_proofs` | | theorems, any tree, sessions, weights |
| `LimitHalf` | one direction of `limit_stream.rs` and `limit_stream_local.rs` | a poll is one step |
| `LimitHalf_proofs` | | theorems |
| `Datagram` | `ReadState` and `WriteState` of `limit_datagram.rs` and `limit_datagram_local.rs` | the ends of the arms, and what they promise |
| `LimitDatagram` | both directions of `limit_datagram.rs` and `limit_datagram_local.rs` | extends `Datagram` |
| `PolledSession` | sessions of a `SpeedLimiter` whose futures tasks poll | instantiates `SpeedLimiter` |
| `LimitStream` | both halves of a limited stream over `PolledSession` | each half refines `LimitHalf` |
| `LimitStream_proofs` | | theorems, carried over from `SpeedLimiter_proofs` |
| `LimitSocket` | both operations of a limited socket over `PolledSession` | extends `Datagram`; each operation refines `LimitDatagram` |
| `LimitSocket_proofs` | | theorems about `LimitDatagram` and `LimitSocket`, carried over from `SpeedLimiter_proofs` |
| `CopyBidirectional` | `copy_bidirectional.rs` | refines `Relay` |
| `CopyBidirectional_proofs` | | theorems, among them the refinement |
| `Relay` | abstract: two pipes | |
| `Holder` | what the adapters of `simple_async_io.rs` and `blocking.rs` share | |
| `WriteHolder`, `ReadHolder` | `simple_async_io.rs`, `blocking.rs`, `buf.rs` | extend `Holder`; one machine for both kinds of adapter |
| `Holder_proofs` | | theorems about both |
| `SpeedStat` | `SpeedState` of `stat_stream.rs` | state and operations |
| `StatStream` | the streams of `stat_stream.rs` that feed it | extends `SpeedStat` |
| `StatStream_proofs` | | theorems about both |
| `QAProcess` | `qa_process.rs` and the child it talks to | |
| `QAProcess_proofs` | | theorems |
| `MC...` | | values of function-valued constants and symmetry for TLC |

Operators commented "Mutant" are plausible bugs of the operator that follows them.
No behaviour of the specifications uses them; exchanging one for the operator
it imitates makes the property named for it in `PROJECT.json` fail. Every machine
has a `TypeOK`: a property of its own in the runs of `SpeedLimiter` and `StatStream`, proved
for `LimitHalf` and `LimitDatagram`, elsewhere a conjunct of another invariant and proved with it.

**SpeedLimiter.** `limiter[l]` is the pair under the lock, `bucket[c]` a
governor's token bucket, `path[s]` the chain of limiters that
`new_limit_session` walks (level 1 is the limiter the session was opened on),
`upRem` and `locRem` the two remainders of every node. `until_ready` is split
where it can be interleaved: reading the pair under the lock (`Wait` or
`Unlimited`), the token (`Admit`), and the arithmetic after it (`Grant`), which runs without
an await in between. `Cancel` drops the future at its only suspension, the wait
for a token. `set_limit` stores a whole pair with a full bucket. A governor lives while a
limiter or a waiting call refers to it (`Collect` is the last `Arc`), which is also
what lets a finite set of cells stand for governors without end. The governor
crate is external: a bucket that refills one token at a time. The history
variable `due` counts, per level, what the limiter has admitted and the caller
not received.

**LimitHalf.** A poll holds the half exclusively, so it is one step; between
polls the permit arrives (`Admit`), the inner stream gets ready, or the caller
gives its call up and comes back with a different buffer. `WaitingNone` and
`MovingNone` are the states `take()` leaves behind when the inner stream
panics. `parked` says what wakes the caller's task.

**Datagram, LimitDatagram.** `Datagram` has the two states and how a datagram changes them
(`Open` ends the `Idle` arm, `Continue` the other), which `LimitDatagram` and `LimitSocket`
share. In `LimitDatagram` both operations take `&mut self`, so one runs at a time; it
may fail at the inner socket or be dropped at either await.

**PolledSession.** `SpeedLimiter` lets a waiting session take its token as soon as
there is one. A future does that only while a task polls it: `Advance` is a step inside
a poll, `Pending` its end without a token, and a future that sleeps has no claim
on the next token. `Refill` fires the timers of all futures that sleep on that governor; by
the time their tasks poll, another session may have taken the token.

**LimitStream.** The composition of the above: `Start` begins a poll, `Climb` runs
`until_ready` inside it against the other half, `set_limit` and time, `Suspend`
stores the future, `Move` is the inner poll with the end of each arm. `GiveUp` leaves the future
in the half, asleep. The history variable `backed` counts per level what was
admitted for the half and not moved. Panics of the inner stream are left to `LimitHalf`.
The refinement maps the session's answer to `LimitHalf`'s permit and what the first level's limiter
has admitted, less what the session still holds, to its `credit`.

**LimitSocket.** The same for datagrams; here the operation owns its future, so
that dropping the call cancels it (`CancelWait`). `paid` is the history like `backed`.

**CopyBidirectional.** One step per call of an inner stream, so that streams
and clock change while a poll runs. A call is answered, fails or pends; a
pending call registers its operation in `interest`, and `BecomesReady` wakes the task for
it. `woken` is the task's wakeup. Buffers
hold the numbers of bytes, so that loss, repetition and reordering show.
`Consume` is `consume_copy_budget`: with the last operation of its budget the
task wakes itself and leaves the direction for this poll.

**Holder, WriteHolder, ReadHolder.** An operation takes the object, becomes a job and
gives the object back when it is polled at its end. `kind` chooses who runs the job: the
poll itself under the Mutex ("async") or another thread ("blocking"). Panics
unwind through the poll and poison the Mutex, or come as a JoinError. The
caller of `WriteHolder` repeats at least the bytes it offered before, as
`CopyBuffer` does; a caller that offers something else after giving up a
pending write breaks `AsyncWrite`'s own protocol and is not modelled. The two machines have
`kind`, `job`, `buf` and `poisoned` from `Holder`, and names of their own for the rest. In `ReadHolder`, `hollow`
remembers a read with an empty buffer that was given up: its answer of no bytes
goes to the next call.

**SpeedStat, StatStream.** `SpeedStat` has the state under one Mutex and its
operations. The loop of `add_data` is given by what it computes: each second
between the last call and this one gets its share of the bytes, rounded down.
`Second` stands for the 1000 milliseconds. `Retain` is `clear_invalid_item`. `StatStream` makes the steps: several streams
of one direction move bytes first (`Inner`) and count them then, under the lock
(`Count`), while other threads read the statistics and the system clock
is set, possibly to before the epoch, where reading it panics and poisons the Mutex.

**QAProcess.** `answer` reads a byte from whichever pipe has one, in no order, until the
end of one buffer is the question; then it writes the answer and the newline, in two steps. The
child prints on both pipes, asks, reads lines, exits or is killed; pipes hold
`PipeCap` bytes. Every call can be dropped at every await (`Cancel`). Of a buffer only its length and how
much of the question ends it are kept.

## 3. Runs

| Run | Module | Question | Bounds |
|---|---|---|---|
| `limiter` | `MCSpeedLimiter` | ledger, budget, positive grants, no hoarding, pairs, no stranded waiter, refinement of `Shaper` | 2 sessions, a limiter under another, 3 governors, weights 1 and 2 |
| `limit_half` | `LimitHalf` | metering, no false end, panics, liveness | permits 1-3, buffers 0, 1, 2, 4: empty, smaller, equal and larger; 2 panics |
| `limit_stream` | `MCLimitStream` | from inner stream to root limiter: bytes moved and admitted, one borrow, no lost wakeup, refinement of `LimitHalf` | 2 halves, a limiter under another, 2 governors, tokens of 2 bytes, buffers of 1 and 3 |
| `datagram` | `LimitDatagram` | accounts and overrun | permits 1-3, datagrams of 0-4 bytes |
| `datagram_completed` | `LimitDatagram` | violated: see Findings | same |
| `limit_socket` | `MCLimitSocket` | from datagrams to root limiter: bytes paid, retries, refinement of `LimitDatagram` | 2 operations, a limiter under another, 1 governor and unlimited, tokens of 2 bytes, datagrams of 0-3 |
| `copy` | `MCCopyBidirectional` | pipes, watched sleeps and flushes, idle timer, completion | buffers of 2 and 1 bytes, 2 bytes each way, budget 2, timeout 2 |
| `write_holder` | `WriteHolder` | accepted is received, once, in order, flushed | stream of 4 bytes, slices to 3, `MaxBuf` 2 |
| `write_holder_panics` | `WriteHolder` | violated: see Findings | same |
| `read_holder` | `ReadHolder` | cancel safety, no false end | 4 bytes, rooms 0, 1 and 3, `MaxBuf` 2 |
| `stat_stream` | `MCStatStream` | the sum lies between told and moved; the speed is that of the window | 2 streams, 7 ticks of which 2 are a second, and the time before the epoch; window 2; at most 3 amounts of 0, 1 or 4 bytes |
| `qa_process` | `QAProcess` | one answer per question, room in the buffer, served questions, ends of `wait` | question of 2 bytes, buffers of 4, pipes of 2, 3 bytes of other output a pipe, 2 questions |

Why the bounds are enough. The arithmetic of sessions only compares
remainders, and the proofs cover every other weight, every depth and every number of sessions; the runs
add liveness and the composition. A governor matters beyond its limiter only while somebody
waits on it, so one cell more than limiters gives every kind of
sharing in `limiter`; `limit_stream` has as many as limiters and `limit_socket` one, which move
between the limiters and may be waited on when none has them. Tokens of 2 bytes against buffers of 1 and 3 leave every kind
of rest. The budget of 128 operations is 2 in the
model so that it runs out at every place of the loop; two bytes
against buffers of one and two bytes make partial fills, partial
writes and a full buffer. The statistics need gaps shorter and longer than the window, both
on and off the boundaries of seconds, and two amounts counted by different streams in either order. In the dialogue, output of 3 bytes
fills the buffer of 4 with room for half a question, and pipes are smaller than
the buffers so that the child blocks. Bounds appear as constants marked "bound"
in each module (`Cells`, `MaxPanics`, `MaxSize`, `Supply`, `Length`, `MaxOffer`,
`MaxTime`, `MaxMoved`, `MaxAdds`, `MaxNoise`, `MaxAsks`).

`copy` says `CHECK_DEADLOCK FALSE`: a future that has returned really is at its end.

Fairness. `SpeedLimiter`: a polled future runs on to its next await point, the
clock refills buckets, and a governor with a token admits a waiter; it does
not promise which one, so `NotStranded` allows being overtaken. `LimitHalf`: a
task that is awake is polled, and limiter and inner stream answer at some time.
`LimitStream` and `LimitSocket` drop the governor's part of that: only tasks that are awake are
polled, a poll that has begun runs to its end, time passes, and (for the stream) the inner stream gets
ready. Tokens are then taken by polls alone, so that a wakeup that is missing shows.
`RetriesSucceed` assumes of the caller that it keeps trying, not that it waits.
`CopyBidirectional`: the executor polls a woken task and a poll runs to its
end. The rest is in the properties: `Terminates` assumes in addition that time passes, and
nothing of the streams; `Completes` assumes that there is no end to the time left and that every
pending operation becomes ready at some time, so that
the timer cannot hide a lost wakeup. `QAProcess`: a child that can go on does, and so does a
call; nobody is obliged to kill, to call or to drop a call. The other modules state safety only.

## 4. Proofs

Every theorem is for all values of the constants, under the module's named
assumption (weights, bursts and permits are positive as `NonZeroU32` makes them; limiters
form chains of bounded length; a stream has two halves and its caller some buffer, a socket its
two operations; finitely many streams share statistics). Each inductive
invariant was checked by TLC on the bounds of its run before it was proved.

* `SpeedLimiter_proofs`. The inductive invariant adds to `TypeOK` and `Ledger`
  where a call stands (`Placed`: its level is on its path, it waits only for a real
  governor, with a positive weight) and what it holds (`Holds`: below the level a call is
  at, nothing is left from above, which is why it climbed; a grant that arrives at a
  level is positive; nothing is in the caller's hands before the call is over).
  Without `Holds` the minimum of both remainders could be zero. One lemma does the
  arithmetic of `Grant`, which `UseLocal`, `Unlimited` and `Admit` share.
  `NeverOverspent` then follows from `Ledger` by going up the levels one at a
  time, `Implements` maps `path` and `due` to the accounts of `Shaper`.
  On top of that invariant, `HoardsNothing` needs `Frugal`: a
  call has passed on nothing of the levels it has climbed (they were empty, or it would
  have stopped), the root never keeps anything, and a call that waits has nothing left of its
  own at that level. A new token is then all there is in an account. `PairsAgree`
  needs `PairInv`: a governor belongs to at most one limiter, and whoever holds or awaits
  one keeps it alive, so that `set_limit` never installs one that somebody still waits on.
* `LimitHalf_proofs`. `CreditBacked` and `NoSpuriousEof` from one invariant that
  ties the state's fields to the ghost `credit`. `FreeRideBounded` from `RideInv`: what was
  moved without permits is covered by the panics so far, not counting one whose
  free transfer is still to come.
* `LimitStream_proofs`. Every step of a stream is a step of `SpeedLimiter` or leaves the limiters
  alone (`Simulates`), so the theorems of `SpeedLimiter_proofs` hold of the sessions inside the
  halves (`SessionsSound`): no invariant of sessions is proved twice. On top of it `HInv` says of each half that its stage tells where
  its session stands (`Stage`: in a call only while it is polled or sleeps on a permit), that what it
  sleeps on is not there (`Watch`), and that `backed` is the session's account plus what is left of the
  permit (`Credit`). `MovedAsAdmitted` then needs `NoHoarding` at the moment the permit is taken,
  and `SleepsWatched` needs `PairInv`: `set_limit` could otherwise fill a
  governor somebody sleeps on, without waking him. `HalvesImplement` maps each half to `LimitHalf`; by the ledger
  the `credit` of the mapping is exactly what is left of the permit, and a permit is never
  more than a token.
* `LimitSocket_proofs`, of `LimitDatagram` (instantiated as `D`): `Accounted` and `OverrunBounded` from an
  invariant that also says what a running operation has obtained (`Running`: in the `Idle` arm a fresh
  permit with nothing moved under it). `TypeOK` of both modules follows from the same invariants
  (`HalfTypeCorrect`, `DatagramTypes`).
  Of `LimitSocket`: the steps are again steps of `SpeedLimiter` (`SocketSessionsSound`), abandoned calls
  included, which here cancel theirs. `OInv` says of each operation where its session stands (`Stage`) and that
  `paid` is the session's account plus what is left of the permit (`Credit`), bounded by one token.
  `DatagramsPaid` follows (`PaidForByAll`); `OpsImplement` maps each operation to `LimitDatagram`, whose permits
  are then those some governor can have admitted at once; `SocketAccounts` has `Accounted` and `OverrunBounded`
  for the sockets over real limiters.
* `CopyBidirectional_proofs`. `Stream` (delivered bytes, then the buffer, are what was read, in order),
  `Ends` (what the flags and the phase say of the streams), `Before` (what holds at each place of the loop),
  `Watched` and `Registered` (a direction becomes watched while it is polled and stays so until the
  next poll, or the task is woken) and `Timed`. `Registered` is what makes `SleepsSafely` inductive:
  in the middle of a poll only the directions already done are watched. `CopyIsRelay` shows for every call
  of an inner stream which step of `Relay` it is, or none.
* `Holder_proofs`. Of `ReadHolder`, `CancelSafe` and `EndIsReal`; the step that is easily missed is `Asker`: a job that
  was asked for nothing finds its caller still there, with no room, unless a read without room was given up.
  Of `WriteHolder`, `Balance` counts the bytes a job has written that no caller has been told of;
  with `Owned` (the `Buf` of a write job holds the bytes that follow the accepted ones) and `Jobs` it gives
  `SinkInOrder` and `AcceptedReceived`; `Flushed` gives `FlushCovers`.
* `QAProcess_proofs`. The invariant says that there is a number of bytes `c` of a question that is not answered yet,
  written last of all and on one pipe: what the pipes still hold (`Content`), how much a call can have read
  (`Amount`), what it knows of the question (`Matched`) and where child and caller stand (`Turns`) all follow from `c`.
  `RoomEnough` is `Amount` and `Matched` at the end of the buffer; `OneToOne` adds the three places a
  line can be in while no call is dropped (`Unbroken`).

* `StatStream_proofs`, for any number of streams, amounts, ticks and seconds, in four parts.
  First the sums: the fold `MapThenSumSet` is unfolded to a recursive function on the subsets of a finite set
  (`Sums`), and what is needed of it (`Total` of a union, of an image, of a pointwise bound, the exchange of two sums)
  is shown by taking a smallest counterexample, among subsets or numbers, since an
  induction rule with an operator as parameter is out of reach; the well-foundedness
  of both orders is a library theorem.
  `Tally` then relates the sum, the bytes told, moved and under way, and gives `CountedOnce`.
  `Ledger` is the invariant of the list: it is in order of seconds, and for every second that may still be counted
  it holds exactly what all amounts added so far put there (`Expected`), although items are merged, dropped and
  appended. `NoLeak` and the rest of `TypeOK` are part of it or follow from it.
  `SpeedOfWindow` finally exchanges two sums, over the seconds of the window and over the amounts: the shares of
  one amount never exceed it, and all of them together miss less than one byte for each second, as the
  weights add up to the time in between (`SharesTotal`).

Every safety invariant, action property and refinement that a run checks is proved. Only
model-checked: all liveness (`NotStranded`, `Answered`, `OnlyOvertaken`, `RetriesSucceed`,
`Terminates`, `Completes`, `Served`, `WaitReturns`), as liveness under fairness and `ENABLED` are
out of the prover's reach, and the two violations of section 5.

## 5. Findings

* `datagram_completed`: a datagram exactly as large as its permit leaves the state
  `Writing` (or `Reading`) in the `Idle` arm, which compares with `>` where the other arm
  compares with `>=`. The next datagram goes out under a used-up permit.
  `OverrunBounded` holds all the same.
* `write_holder_panics`: an adapter panics when a call begins while another operation
  has its object. `copy_bidirectional` makes such calls when it writes while its
  flush is pending; so does any caller that gives up a write and shuts down.

## 6. Not modelled, and the plan

Not modelled: memory addresses (that a half of `limit_stream.rs` is not moved while its future holds
the session it borrowed by `transmute`; that there is only one such borrow is
`OneBorrow`), the governor's internal clock arithmetic (external), `error.rs`
and `lib.rs` (no behaviour), `execute` (one operating system call that keeps no state), a `QAProcess` made by
hand from a child without pipes (its first call panics or fails), the adapters' accessors
`with_lock_*` and `into_*`, and `discard_read` and `copy_from_bufs` of `buf.rs`, which nothing uses.

Left for later: `AdaptedCopy`, one direction of the copy over `WriteHolder`, to show which calls the
second finding needs and that the rest is sound.
