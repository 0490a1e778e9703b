---------------------------- MODULE SpeedLimiter ----------------------------
(***************************************************************************)
(* SpeedLimiter and SpeedLimitSession (src/src/speed_limiter.rs).          *)
(*                                                                         *)
(* A limiter holds, behind one RwLock, the pair (weight, governor limiter) *)
(* and a reference to the limiter above it.  A session is a chain of       *)
(* SpeedLimitSession nodes, level 1 at the limiter the session was opened  *)
(* on, the last level at the root.  One call of until_ready climbs the     *)
(* chain, takes a token where a node has nothing left over, and returns    *)
(* the number of bytes every level has admitted.                           *)
(*                                                                         *)
(* The governor limiter is a token bucket ("cell"): a token admits         *)
(* `weight' bytes; Refill stands for the passing of time.  A cell is held  *)
(* through an Arc, so set_limit replaces it while sessions still wait on   *)
(* the old one.                                                            *)
(***************************************************************************)
EXTENDS Integers, Sequences, FiniteSets

CONSTANTS
  Limiters,   (* the SpeedLimiter objects                                  *)
  NoLimiter,  (* `None' in SpeedLimiter::upper                             *)
  Upper,      (* the limiter above each limiter                            *)
  MaxDepth,   (* length of the longest chain of limiters                   *)
  Sessions,   (* handles on SpeedLimitSession objects                      *)
  Cells,      (* governor limiters that can be alive at the same time      *)
  NoCell,     (* `None' in the limiter pair: unlimited                     *)
  Weights,    (* bytes per token (NonZeroU32)                              *)
  Bursts      (* bucket sizes (NonZeroU32)                                 *)

ASSUME LimiterAssumption ==
  /\ NoLimiter \notin Limiters
  /\ Upper \in [Limiters -> Limiters \cup {NoLimiter}]
  /\ MaxDepth \in Nat \ {0}
  /\ NoCell \notin Cells
  /\ Weights \subseteq Nat \ {0}
  /\ Bursts \subseteq Nat \ {0}

VARIABLES
  limiter,    (* limiter[l]: the pair under the RwLock                     *)
  bucket,     (* bucket[c]: tokens and size of a governor limiter          *)
  path,       (* path[s]: the limiters of the chain, <<>> when not open    *)
  upRem,      (* upRem[s][k]: upper_remainder of level k                   *)
  locRem,     (* locRem[s][k]: local_remainder of level k                  *)
  pc,         (* where the until_ready future of the session stands        *)
  at,         (* the level it stands at                                    *)
  quote,      (* the pair it cloned out of the RwLock before waiting       *)
  out,        (* the value until_ready returned, until the caller takes it *)
  due         (* history: due[s][k] = bytes the limiter at level k admitted
                 to the session, less the bytes its caller received        *)

limiterVars == <<limiter, bucket>>
sessionVars == <<path, upRem, locRem, pc, at, quote, out, due>>
vars == <<limiter, bucket, path, upRem, locRem, pc, at, quote, out, due>>

Levels  == 1..MaxDepth
NoGov   == [tokens |-> 0, burst |-> 0]
NoQuote == [weight |-> 0, cell |-> NoCell]
Zeros   == [k \in Levels |-> 0]

Pairs == [weight : Weights, cell : Cells \cup {NoCell}]

Depth(s) == Len(path[s])
Least(m, n) == IF m < n THEN m ELSE n

(* The chains new_limit_session can build: each node's limiter, then the
   limiter above it, up to a limiter with none above.                      *)
IsChain(p) ==
  /\ \A i \in 1..Len(p) - 1 : Upper[p[i]] = p[i + 1]
  /\ Upper[p[Len(p)]] = NoLimiter

Chains == {p \in UNION {[1..n -> Limiters] : n \in Levels} : IsChain(p)}

(* Arc: a governor limiter lives while a limiter or a waiting session
   refers to it.                                                           *)
Referenced(c, lim, quo) ==
  \/ \E l \in Limiters : lim[l].cell = c
  \/ \E s \in Sessions : quo[s].cell = c

Collect(b, lim, quo) ==
  [c \in Cells |-> IF Referenced(c, lim, quo) THEN b[c] ELSE NoGov]
-----------------------------------------------------------------------------
TypeOK ==
  /\ limiter \in [Limiters -> Pairs]
  /\ bucket \in [Cells -> [tokens : Nat, burst : Nat]]
  /\ path \in [Sessions -> Chains \cup {<<>>}]
  /\ upRem \in [Sessions -> [Levels -> Nat]]
  /\ locRem \in [Sessions -> [Levels -> Nat]]
  /\ pc \in [Sessions -> {"closed", "idle", "enter", "local", "wait", "ready"}]
  /\ at \in [Sessions -> Levels]
  /\ quote \in [Sessions -> Pairs \cup {NoQuote}]
  /\ out \in [Sessions -> Nat]
  /\ due \in [Sessions -> [Levels -> Int]]

(* SpeedLimiter::new and new_with_burst: any weight, and either no governor
   (rate u32::MAX) or a governor of its own with a full bucket.             *)
Init ==
  /\ limiter \in [Limiters -> Pairs]
  /\ \A l, m \in Limiters :
       l # m /\ limiter[l].cell # NoCell => limiter[l].cell # limiter[m].cell
  /\ \E b \in [Cells -> Bursts] :
       bucket = [c \in Cells |->
                   IF \E l \in Limiters : limiter[l].cell = c
                   THEN [tokens |-> b[c], burst |-> b[c]] ELSE NoGov]
  /\ path = [s \in Sessions |-> <<>>]
  /\ upRem = [s \in Sessions |-> Zeros]
  /\ locRem = [s \in Sessions |-> Zeros]
  /\ pc = [s \in Sessions |-> "closed"]
  /\ at = [s \in Sessions |-> 1]
  /\ quote = [s \in Sessions |-> NoQuote]
  /\ out = [s \in Sessions |-> 0]
  /\ due = [s \in Sessions |-> Zeros]
-----------------------------------------------------------------------------
(* set_limit: a new weight and a governor of its own, or none, in one store
   under the write lock.  The new governor starts with a full bucket.       *)
SetUnlimited(l, w) ==
  /\ limiter' = [limiter EXCEPT ![l] = [weight |-> w, cell |-> NoCell]]
  /\ bucket' = Collect(bucket, limiter', quote)
  /\ UNCHANGED sessionVars

(* Mutant: only the weight is stored, the old governor stays.               *)
SetLimitKeepsGovernor(l, w, c, b) ==
  /\ bucket[c] = NoGov
  /\ limiter' = [limiter EXCEPT ![l].weight = w]
  /\ UNCHANGED <<bucket, sessionVars>>

SetLimit(l, w, c, b) ==
  /\ bucket[c] = NoGov
  /\ limiter' = [limiter EXCEPT ![l] = [weight |-> w, cell |-> c]]
  /\ bucket' = Collect([bucket EXCEPT ![c] = [tokens |-> b, burst |-> b]],
                       limiter', quote)
  /\ UNCHANGED sessionVars

(* The governor's clock: a token becomes available.                         *)
Refill(c) ==
  /\ bucket[c].tokens < bucket[c].burst
  /\ bucket' = [bucket EXCEPT ![c].tokens = @ + 1]
  /\ UNCHANGED <<limiter, sessionVars>>
-----------------------------------------------------------------------------
NewSession(s, p) ==
  /\ pc[s] = "closed"
  /\ path' = [path EXCEPT ![s] = p]
  /\ pc' = [pc EXCEPT ![s] = "idle"]
  /\ UNCHANGED <<limiterVars, upRem, locRem, at, quote, out, due>>

(* Dropping a session forgets what its nodes had left over.                 *)
DropSession(s) ==
  /\ pc[s] = "idle"
  /\ path' = [path EXCEPT ![s] = <<>>]
  /\ upRem' = [upRem EXCEPT ![s] = Zeros]
  /\ locRem' = [locRem EXCEPT ![s] = Zeros]
  /\ due' = [due EXCEPT ![s] = Zeros]
  /\ pc' = [pc EXCEPT ![s] = "closed"]
  /\ UNCHANGED <<limiterVars, at, quote, out>>

(* The caller polls a new until_ready future of the session.                *)
Call(s) ==
  /\ pc[s] = "idle"
  /\ pc' = [pc EXCEPT ![s] = "enter"]
  /\ UNCHANGED <<limiterVars, path, upRem, locRem, at, quote, out, due>>

(* until_ready_inner: a node with nothing left from above asks the node
   above it first.                                                          *)
Climb(s) ==
  /\ pc[s] = "enter"
  /\ at[s] < Depth(s)
  /\ upRem[s][at[s]] = 0
  /\ at' = [at EXCEPT ![s] = @ + 1]
  /\ UNCHANGED <<limiterVars, path, upRem, locRem, pc, quote, out, due>>

(* Mutant: the level above is asked only by a session that never asked.     *)
UseUpperUnchecked(s) ==
  /\ pc[s] = "enter"
  /\ at[s] < Depth(s)
  /\ pc' = [pc EXCEPT ![s] = "local"]
  /\ UNCHANGED <<limiterVars, path, upRem, locRem, at, quote, out, due>>

UseUpper(s) ==
  /\ pc[s] = "enter"
  /\ at[s] < Depth(s)
  /\ upRem[s][at[s]] > 0
  /\ pc' = [pc EXCEPT ![s] = "local"]
  /\ UNCHANGED <<limiterVars, path, upRem, locRem, at, quote, out, due>>

(* Mutant: a node returns what its own limiter gave.                        *)
ReturnedLocal(s, k, loc) == loc

(* What a node with loc bytes from its own limiter returns: the smaller of
   what it has from both sides, at the root what its limiter gave.          *)
Returned(s, k, loc) ==
  IF k = Depth(s) THEN loc ELSE Least(upRem[s][k], loc)

(* The node at the current level has w new bytes from its own limiter (none
   when it still had some): it returns to the node below it or, from level
   1, to the caller, and keeps the rest.                                    *)
Grant(s, w) ==
  LET k   == at[s]
      loc == locRem[s][k] + w
      r   == Returned(s, k, loc)
  IN /\ locRem' = [locRem EXCEPT ![s][k] = loc - r]
     /\ upRem' = [upRem EXCEPT ![s] =
                    [j \in Levels |->
                       IF j = k - 1 THEN r
                       ELSE IF j = k /\ k < Depth(s) THEN @[j] - r ELSE @[j]]]
     /\ due' = [due EXCEPT ![s][k] = @ + w]
     /\ IF k = 1
        THEN /\ pc' = [pc EXCEPT ![s] = "ready"]
             /\ out' = [out EXCEPT ![s] = r]
             /\ UNCHANGED at
        ELSE /\ pc' = [pc EXCEPT ![s] = "local"]
             /\ at' = [at EXCEPT ![s] = k - 1]
             /\ UNCHANGED out
     /\ UNCHANGED path

UseLocal(s) ==
  /\ pc[s] = "local"
  /\ locRem[s][at[s]] > 0
  /\ Grant(s, 0)
  /\ UNCHANGED <<limiterVars, quote>>

(* Mutant: a token is awaited although some bytes are left.                 *)
NeedsTokenAlways(s) ==
  \/ pc[s] = "enter" /\ at[s] = Depth(s)
  \/ pc[s] = "local"

(* SpeedLimiter::until_ready clones the pair under the read lock ...        *)
NeedsToken(s) ==
  \/ pc[s] = "enter" /\ at[s] = Depth(s)
  \/ pc[s] = "local" /\ locRem[s][at[s]] = 0

Pair(s) == limiter[path[s][at[s]]]

(* ... without a governor it returns the weight at once ...                 *)
Unlimited(s) ==
  /\ NeedsToken(s)
  /\ Pair(s).cell = NoCell
  /\ Grant(s, Pair(s).weight)
  /\ UNCHANGED <<limiterVars, quote>>

(* ... else it awaits the governor it cloned, whatever set_limit does.      *)
Wait(s) ==
  /\ NeedsToken(s)
  /\ Pair(s).cell # NoCell
  /\ quote' = [quote EXCEPT ![s] = Pair(s)]
  /\ pc' = [pc EXCEPT ![s] = "wait"]
  /\ UNCHANGED <<limiterVars, path, upRem, locRem, at, out, due>>

(* Mutant: the governor in the limiter now is awaited, not the cloned one.  *)
AdmitCurrent(s) ==
  LET c == quote[s].cell
  IN /\ pc[s] = "wait"
     /\ Pair(s).cell = c
     /\ bucket[c].tokens > 0
     /\ Grant(s, quote[s].weight)
     /\ quote' = [quote EXCEPT ![s] = NoQuote]
     /\ bucket' = Collect([bucket EXCEPT ![c].tokens = @ - 1], limiter, quote')
     /\ UNCHANGED limiter

Admit(s) ==
  LET c == quote[s].cell
  IN /\ pc[s] = "wait"
     /\ bucket[c].tokens > 0
     /\ Grant(s, quote[s].weight)
     /\ quote' = [quote EXCEPT ![s] = NoQuote]
     /\ bucket' = Collect([bucket EXCEPT ![c].tokens = @ - 1], limiter, quote')
     /\ UNCHANGED limiter

(* Mutant: a cancelled call forgets what the level it waits at holds.       *)
CancelForgets(s) ==
  /\ pc[s] = "wait"
  /\ pc' = [pc EXCEPT ![s] = "idle"]
  /\ at' = [at EXCEPT ![s] = 1]
  /\ upRem' = [upRem EXCEPT ![s][at[s]] = 0]
  /\ quote' = [quote EXCEPT ![s] = NoQuote]
  /\ bucket' = Collect(bucket, limiter, quote')
  /\ UNCHANGED <<limiter, path, locRem, out, due>>

(* The future is dropped at its only suspension point, the wait for a token:
   the remainders live in the session and stay.                             *)
Cancel(s) ==
  /\ pc[s] = "wait"
  /\ pc' = [pc EXCEPT ![s] = "idle"]
  /\ at' = [at EXCEPT ![s] = 1]
  /\ quote' = [quote EXCEPT ![s] = NoQuote]
  /\ bucket' = Collect(bucket, limiter, quote')
  /\ UNCHANGED <<limiter, path, upRem, locRem, out, due>>

(* The caller receives the returned value.                                  *)
Take(s) ==
  /\ pc[s] = "ready"
  /\ pc' = [pc EXCEPT ![s] = "idle"]
  /\ out' = [out EXCEPT ![s] = 0]
  /\ due' = [due EXCEPT ![s] =
               [j \in Levels |-> IF j <= Depth(s) THEN @[j] - out[s] ELSE @[j]]]
  /\ UNCHANGED <<limiterVars, path, upRem, locRem, at, quote>>

Reconfigure ==
  \E l \in Limiters, w \in Weights :
    \/ SetUnlimited(l, w)
    \/ \E c \in Cells, b \in Bursts : SetLimit(l, w, c, b)

Step(s) ==
  \/ Climb(s) \/ UseUpper(s) \/ UseLocal(s) \/ Unlimited(s) \/ Wait(s)

Use(s) ==
  \/ \E p \in Chains : NewSession(s, p)
  \/ DropSession(s) \/ Call(s) \/ Cancel(s) \/ Take(s)

Next ==
  \/ Reconfigure
  \/ \E c \in Cells : Refill(c)
  \/ \E s \in Sessions : Step(s) \/ Admit(s) \/ Use(s)

Spec == Init /\ [][Next]_vars

(* A polled future runs to its next await point, the clock goes on, and the
   governor wakes a waiter when a token is there.                           *)
Fairness ==
  /\ \A c \in Cells : WF_vars(Refill(c))
  /\ \A s \in Sessions : WF_vars(Step(s)) /\ WF_vars(Admit(s))

FairSpec == Spec /\ Fairness

-----------------------------------------------------------------------------
InCall(s) == pc[s] \in {"enter", "local", "wait"}

(* The bytes of level k that are already below it: in the remainders of the
   levels below and in the caller's hands.                                  *)
Passed(s, k) == due[s][k] - locRem[s][k]

(* Every byte a limiter admits is in exactly one place: still with its own
   level (local_remainder), one level down (upper_remainder), or returned.
   Cancelling a call or replacing a limiter's rate loses and invents none
   (until_ready_inner keeps both remainders in the session).                *)
Ledger ==
  \A s \in Sessions :
    pc[s] # "closed" =>
      /\ Passed(s, 1) = out[s]
      /\ \A k \in 1..Depth(s) - 1 : Passed(s, k + 1) = Passed(s, k) + upRem[s][k]

(* A session never hands its caller more bytes than each limiter of its
   chain has admitted to it: the limits above hold, not only its own.       *)
NeverOverspent ==
  \A s \in Sessions : \A k \in 1..Depth(s) : due[s][k] >= out[s]

(* until_ready never returns 0: LimitRead would give its inner stream an
   empty buffer and report the end of the stream.                           *)
GrantPositive == \A s \in Sessions : pc[s] = "ready" => out[s] > 0

(* A level asks its limiter, or the level above, only for what it has used
   up: however often calls are cancelled and repeated, what a limiter of any
   level has admitted to a session and its caller has not received is never
   worth more than one token.                                               *)
NoHoarding ==
  \A s \in Sessions : \A k \in 1..Depth(s) :
    \E w \in Weights : due[s][k] <= w

(* set_limit and until_ready go through the pair as a whole: sessions that
   wait for one governor agree on what its tokens are worth, and with the
   limiter that still holds it, in whatever order they arrived.             *)
QuotesPaired ==
  \A s \in Sessions : pc[s] = "wait" =>
    /\ \A r \in Sessions :
         pc[r] = "wait" /\ quote[r].cell = quote[s].cell => quote[r] = quote[s]
    /\ \A l \in Limiters :
         limiter[l].cell = quote[s].cell => limiter[l] = quote[s]

(* A call that is never answered and never cancelled is overtaken forever:
   some other session keeps taking tokens.  In particular a waiter on a
   governor that set_limit has replaced is not stranded.                    *)
NotStranded ==
  \A s \in Sessions :
    <>[]InCall(s) => []<><<\E r \in Sessions \ {s} : Admit(r)>>_vars

(* The remainders, tokens and waits implement the accounts of Shaper: each
   step of a session is one payment, one receipt, or nothing to its caller. *)
Accounts == INSTANCE Shaper WITH chain <- path, account <- due

ImplementsShaper == Accounts!ShaperSpec
=============================================================================
