---------------------------- MODULE DeadlineTable ----------------------------
(***************************************************************************)
(* What a table of deadlines promises, without heaps, revisions or lazily  *)
(* discarded entries: a map from keys to values, and a stack of passes     *)
(* that each hand out, in registration order, every key that is due and    *)
(* not yet passed over, re-reading the table before every key.             *)
(***************************************************************************)
EXTENDS DeadlineValues

CONSTANT MaxNesting   \* bound: passes open at once

VARIABLES
  value,    \* [Keys -> Values]
  depth,    \* passes open, innermost last
  passes,   \* [1..MaxNesting -> [now, admit, cursor]]
  answer    \* what the last call returned, raised or handed out

vars == <<value, depth, passes, answer>>

Idle == [now |-> 0, admit |-> {}, cursor |-> 0]

Init ==
  /\ value = [k \in Keys |-> Absent]
  /\ depth = 0
  /\ passes = [i \in 1..MaxNesting |-> Idle]
  /\ answer = <<"start">>

\* The keys the pass p still owes its caller.
Owed(p) ==
  {k \in p.admit : IsDue(value[k], p.now) /\ Order[k] > p.cursor}

Set(k, v) ==
  /\ answer' = <<"set">>
  /\ value' = [value EXCEPT ![k] = v]
  /\ UNCHANGED <<depth, passes>>

Lookup ==
  /\ \/ /\ LookupRaises(value)
        /\ answer' = <<"raised">>
     \/ /\ ~LookupRaises(value)
        /\ ~\E k \in Keys : IsDate(value[k])
        /\ answer' = <<"none">>
     \/ /\ ~LookupRaises(value)
        /\ \E k \in Keys :
             /\ IsDate(value[k])
             /\ \A l \in Keys : IsDate(value[l]) => value[k].at <= value[l].at
             /\ answer' = <<"next", value[k].at>>
  /\ UNCHANGED <<value, depth, passes>>

Open(now, admit) ==
  /\ depth < MaxNesting
  /\ answer' = <<"opened">>
  /\ depth' = depth + 1
  /\ passes' = [passes EXCEPT ![depth + 1] =
                  [now |-> now, admit |-> admit, cursor |-> 0]]
  /\ UNCHANGED value

\* The innermost pass hands out the first key it owes.
HandOut ==
  /\ depth > 0
  /\ \E k \in Owed(passes[depth]) :
       /\ answer' = <<"due", k>>
       /\ \A l \in Owed(passes[depth]) : Order[k] <= Order[l]
       /\ passes' = [passes EXCEPT ![depth].cursor = Order[k]]
  /\ UNCHANGED <<value, depth>>

Close(why) ==
  /\ answer' = <<why>>
  /\ depth' = depth - 1
  /\ passes' = [passes EXCEPT ![depth] = Idle]
  /\ UNCHANGED value

\* It ends by itself only when it owes nothing.
Exhaust == depth > 0 /\ Owed(passes[depth]) = {} /\ Close("exhausted")

\* An exception in its body may end it at any time.
Abort == depth > 0 /\ Close("aborted")

Next ==
  \/ \E k \in Keys, v \in Values : Set(k, v)
  \/ Lookup
  \/ \E now \in Times, admit \in SUBSET Keys : Open(now, admit)
  \/ HandOut
  \/ Exhaust
  \/ Abort

Spec == Init /\ [][Next]_vars
=============================================================================
