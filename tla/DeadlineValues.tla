--------------------------- MODULE DeadlineValues ---------------------------
(***************************************************************************)
(* What a deadline of the backend is: the value a key carries and the      *)
(* questions a table of deadlines asks of it (backend/_deadlines.py).      *)
(*                                                                         *)
(* A value is an aware or a naive date, or an error kept for the moment    *)
(* the deadline is looked up ("error") or processed ("process_error").     *)
(* Naive dates sort as if they were UTC, so a date is just a time here.    *)
(***************************************************************************)
EXTENDS Integers

CONSTANTS
  Keys,     \* identities of the resources that carry a deadline
  Order,    \* [Keys -> Nat \ {0}]: registration order, never reused
  Times     \* the instants deadlines and clocks take

ASSUME OrderAssumption ==
  /\ Order \in [Keys -> Nat \ {0}]
  /\ \A k, l \in Keys : Order[k] = Order[l] => k = l

ASSUME TimesAssumption == Times \subseteq Nat

Absent == [kind |-> "absent", at |-> 0]
Dates  == [kind : {"aware", "naive"}, at : Times]
Errors == [kind : {"error", "process_error"}, at : {0}]
Values == Dates \cup Errors \cup {Absent}

IsLive(v)  == v.kind # "absent"
IsDate(v)  == v.kind \in {"aware", "naive"}
IsError(v) == v.kind \in {"error", "process_error"}

\* Errors and naive dates are due in every pass: processing them raises.
IsDue(v, now) ==
  \/ IsError(v)
  \/ v.kind = "naive"
  \/ v.kind = "aware" /\ v.at <= now

\* Looking the next deadline up raises: a stored lookup error, or naive and
\* aware dates that cannot be compared.
LookupRaises(value) ==
  \/ \E k \in Keys : value[k].kind = "error"
  \/ \E k, l \in Keys : value[k].kind = "naive" /\ value[l].kind = "aware"
=============================================================================
