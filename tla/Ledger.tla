------------------------------- MODULE Ledger -------------------------------
(***************************************************************************)
(* What a page of the preview promises about its actions: every sequence   *)
(* number is spent once, one action runs in the session at a time, and an  *)
(* outcome, once there, stays what it is until the next number is spent.   *)
(***************************************************************************)
EXTENDS Integers

CONSTANTS Accounts, Outcomes, Nobody

VARIABLES
  spent,    \* the numbers a page has spent
  outcome,  \* of the last one: none, pending, or one of Outcomes
  running   \* the page whose action runs

vars == <<spent, outcome, running>>

Init ==
  /\ spent = [p \in Accounts |-> 0]
  /\ outcome = [p \in Accounts |-> "none"]
  /\ running = Nobody

Admit(p) ==
  /\ running = Nobody
  /\ spent' = [spent EXCEPT ![p] = @ + 1]
  /\ \/ /\ running' = p
        /\ outcome' = [outcome EXCEPT ![p] = "pending"]
     \/ /\ running' = Nobody
        /\ \E o \in Outcomes : outcome' = [outcome EXCEPT ![p] = o]

Settle(p) ==
  /\ running = p
  /\ running' = Nobody
  /\ \E o \in Outcomes : outcome' = [outcome EXCEPT ![p] = o]
  /\ UNCHANGED spent

Next == \E p \in Accounts : Admit(p) \/ Settle(p)

Spec == Init /\ [][Next]_vars
=============================================================================
