------------------------------- MODULE Shaper -------------------------------
(***************************************************************************)
(* What a hierarchy of speed limiters promises to the callers of its       *)
(* sessions, without remainders, tokens or waiting: every limiter of a     *)
(* session's chain keeps an account for the session, pays bytes into it    *)
(* one weight at a time, and the caller receives only what every account   *)
(* of the chain covers, and never nothing.                                 *)
(***************************************************************************)
EXTENDS Integers, Sequences

CONSTANTS
  Sessions,
  Chains,     (* the chains of limiters a session can be opened on         *)
  MaxDepth,
  Weights

VARIABLES
  chain,      (* chain[s]: the limiters the session goes through           *)
  account     (* account[s][k]: bytes paid in by level k, not yet received *)

shaperVars == <<chain, account>>

Empty == [k \in 1..MaxDepth |-> 0]

ShaperInit ==
  /\ chain = [s \in Sessions |-> <<>>]
  /\ account = [s \in Sessions |-> Empty]

Open(s, p) ==
  /\ chain[s] = <<>>
  /\ chain' = [chain EXCEPT ![s] = p]
  /\ UNCHANGED account

Close(s) ==
  /\ chain' = [chain EXCEPT ![s] = <<>>]
  /\ account' = [account EXCEPT ![s] = Empty]

Pay(s, k, w) ==
  /\ account' = [account EXCEPT ![s][k] = @ + w]
  /\ UNCHANGED chain

Receive(s, n) ==
  /\ chain[s] # <<>>
  /\ \A k \in 1..Len(chain[s]) : n <= account[s][k]
  /\ account' = [account EXCEPT ![s] =
                   [k \in 1..MaxDepth |->
                      IF k <= Len(chain[s]) THEN @[k] - n ELSE @[k]]]
  /\ UNCHANGED chain

(* The amounts worth receiving: positive and covered by the first account.  *)
Amounts(s) == 1..account[s][1]

ShaperNext ==
  \E s \in Sessions :
    \/ \E p \in Chains : Open(s, p)
    \/ Close(s)
    \/ \E k \in 1..Len(chain[s]), w \in Weights : Pay(s, k, w)
    \/ \E n \in Amounts(s) : Receive(s, n)

ShaperSpec == ShaperInit /\ [][ShaperNext]_shaperVars
=============================================================================
