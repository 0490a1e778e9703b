----------------------------- MODULE SpeedStat -----------------------------
(***************************************************************************)
(* SpeedState (src/src/stat_stream.rs), the statistics of one direction of *)
(* a StatStream: how many bytes were moved in all, and how fast over the   *)
(* last seconds.  Every amount added is spread evenly over the time since  *)
(* the last one, in whole bytes per second; the second that is running is  *)
(* not counted.  SfoSpeedStat keeps two of them, each behind a Mutex: a    *)
(* call is one step.  The clock is the system's and may jump either way,   *)
(* even to before the epoch, where reading it panics and poisons the Mutex *)
(* of the call.  StatStream is the machine that makes these steps.         *)
(***************************************************************************)
EXTENDS Integers, Sequences, FiniteSetsExt

CONSTANTS
  Second,     (* ticks of the clock in a second                            *)
  Window,     (* speed_duration, in seconds                                *)
  MaxTime     (* bound: the last tick                                      *)

ASSUME SpeedStatAssumption ==
  /\ Second \in Nat \ {0} /\ Window \in Nat \ {0}
  /\ MaxTime \in Nat

VARIABLES
  sumSize,    (* sum_size                                                  *)
  lastTime,   (* last_time                                                 *)
  items,      (* data_items                                                *)
  poisoned,   (* its Mutex is poisoned                                     *)
  clock,      (* TimePicker::now(), or BeforeEpoch                         *)
  adds        (* history: what was added, and over which time              *)

statVars == <<sumSize, lastTime, items, poisoned, clock, adds>>

BeforeEpoch == -1

Larger(m, n)  == IF m > n THEN m ELSE n
Smaller(m, n) == IF m < n THEN m ELSE n

SecondOf(t) == t \div Second

(* The list has one item per second, in order, none later than the last
   amount added: what merging with the last item relies on.                 *)
StatTypeOK ==
  /\ sumSize \in Nat /\ poisoned \in BOOLEAN
  /\ lastTime \in 0..MaxTime /\ clock \in {BeforeEpoch} \cup 0..MaxTime
  /\ \A i \in 1..Len(items) :
       /\ items[i].size \in Nat
       /\ items[i].time \in 0..SecondOf(lastTime)
       /\ i > 1 => items[i - 1].time < items[i].time

(* It reads the clock, and panics before the epoch.                         *)
StatInit ==
  /\ sumSize = 0 /\ items = <<>> /\ adds = <<>> /\ poisoned = FALSE
  /\ clock \in 0..MaxTime /\ lastTime = clock
-----------------------------------------------------------------------------
(* Mutant: what has left the window is only skipped, never dropped.         *)
KeptForever(item, sec) == TRUE

(* clear_invalid_item; saturating_sub is 0 for an item of a later second.   *)
Kept(item, sec) == sec - item.time <= Window

Retain(list, sec) ==
  LET kept[i \in 0..Len(list)] ==
        IF i = 0 THEN <<>>
        ELSE IF Kept(list[i], sec) THEN Append(kept[i - 1], list[i])
        ELSE kept[i - 1]
  IN kept[Len(list)]

(* Mutant: a part of a second counts as a whole one.                        *)
WeightWhole(from, to, sec) == Second

(* The time that [from, to) and a second have in common.                    *)
Weight(from, to, sec) ==
  Smaller(to, (sec + 1) * Second) - Larger(from, sec * Second)

(* What an amount adds to each second: all of it to the running one if the
   last amount was added in the same second, else its share of bytes, rounded
   down, to every second of the time in between.                            *)
Shares(size, from, to) ==
  IF SecondOf(from) = SecondOf(to)
  THEN <<[size |-> size, time |-> SecondOf(to)]>>
  ELSE LET first == SecondOf(from)
           n     == SecondOf(to - 1) - first + 1
       IN [i \in 1..n |->
             [size |-> (size * Weight(from, to, first + i - 1)) \div (to - from),
              time |-> first + i - 1]]

(* Mutant: the last item is never added to.                                 *)
MergeNever(list, shares) == list \o shares

(* The first share goes into the last item when that is of the same second. *)
Merge(list, shares) ==
  IF list # <<>> /\ list[Len(list)].time = shares[1].time
  THEN [list EXCEPT ![Len(list)].size = @ + shares[1].size] \o Tail(shares)
  ELSE list \o shares

(* add_data: a clock that went back stands still.                           *)
AddData(size) ==
  LET now == Larger(clock, lastTime)
  IN /\ ~poisoned /\ clock # BeforeEpoch
     /\ sumSize' = sumSize + size
     /\ items' = Merge(Retain(items, SecondOf(now)), Shares(size, lastTime, now))
     /\ lastTime' = now
     /\ adds' = Append(adds, [size |-> size, from |-> lastTime, to |-> now])
     /\ UNCHANGED <<clock, poisoned>>

(* Mutant: the lock of a call that panicked is as good as new.              *)
AddDataPanicsCleanly(size) ==
  /\ clock = BeforeEpoch
  /\ sumSize' = sumSize + size
  /\ UNCHANGED <<lastTime, items, poisoned, clock, adds>>

(* The lock panics when poisoned; else the clock does, before the epoch, with
   the sum already changed.                                                 *)
AddDataPanics(size) ==
  /\ poisoned \/ clock = BeforeEpoch
  /\ sumSize' = IF poisoned THEN sumSize ELSE sumSize + size
  /\ poisoned' = TRUE
  /\ UNCHANGED <<lastTime, items, clock, adds>>

(* So does get_speed, on any thread: it poisons the lock of the streams.    *)
GetSpeedPanics ==
  /\ ~poisoned /\ clock = BeforeEpoch
  /\ poisoned' = TRUE
  /\ UNCHANGED <<sumSize, lastTime, items, clock, adds>>

(* The system clock goes on, or is set.                                     *)
SetClock(t) ==
  /\ clock' = t
  /\ UNCHANGED <<sumSize, lastTime, items, poisoned, adds>>
-----------------------------------------------------------------------------
Now == SecondOf(Larger(clock, lastTime))

InWindow(item) == item.time < Now /\ Now - item.time <= Window

Sum(set, seq) == MapThenSumSet(LAMBDA i : seq[i].size, set)

(* What get_speed divides by the window.                                    *)
Counted == Sum({i \in 1..Len(items) : InWindow(items[i])}, items)
-----------------------------------------------------------------------------
WindowStart == (Now - Window) * Second
WindowEnd   == Now * Second

Touching == {i \in 1..Len(adds) : adds[i].to >= WindowStart}
Inside   == {i \in 1..Len(adds) : /\ adds[i].from >= WindowStart
                                  /\ SecondOf(adds[i].to) < Now}

Rounded(i) == SecondOf(adds[i].to) - SecondOf(adds[i].from)

(* The speed is that of the window's seconds: it never counts an amount that
   was added before the window, and misses, of what was added inside it, at
   most the bytes lost by rounding: less than one for each second an amount is
   spread over.  In particular nothing is dropped from the list while it still
   counts, and nothing is lost when the clock goes back.                    *)
SpeedOfWindow ==
  /\ Counted <= Sum(Touching, adds)
  /\ Counted >= Sum(Inside, adds) - MapThenSumSet(Rounded, Inside)

(* The list does not grow with the life of the stream: it holds the seconds of
   the window and, after a pause, those of the pause until the next amount. *)
NoLeak ==
  \A i \in 1..Len(items) :
    \/ items[i].time >= SecondOf(lastTime) - Window
    \/ items[i].time >= SecondOf(adds[Len(adds)].from)
=============================================================================
