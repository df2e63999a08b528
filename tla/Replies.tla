-------------------------------- MODULE Replies --------------------------------
(***************************************************************************)
(* What the answer to an interaction promises, whoever edits, deletes or   *)
(* waits: it is given once and in time or never, the original it names     *)
(* keeps its identity, a "thinking" original is completed or lost for good,*)
(* and nothing is said for an interaction that lapsed, lost its pending    *)
(* original or outlived its token. Several interactions may move in a step.*)
(***************************************************************************)
CONSTANT Question  \* ids of interactions

VARIABLES
  state,     \* where the answer stands
  original,  \* the message the answer names, 0 for none
  spoken,    \* messages sent for the interaction beside the original
  tired      \* whether the token's life is over

Init ==
  /\ state = [i \in Question |-> "unasked"]
  /\ original = [i \in Question |-> 0]
  /\ spoken = [i \in Question |-> {}]
  /\ tired = [i \in Question |-> FALSE]

Moves ==
  {<<"unasked", "open">>, <<"open", "thinking">>, <<"open", "answered">>, <<"open", "lapsed">>,
   <<"thinking", "answered">>, <<"thinking", "gone">>}

Move(i) ==
  /\ state'[i] = state[i] \/ <<state[i], state'[i]>> \in Moves
  /\ original'[i] # original[i] => state[i] = "open" /\ state'[i] \in {"thinking", "answered"}
  /\ spoken[i] \subseteq spoken'[i]
  /\ spoken'[i] # spoken[i] => ~tired[i] /\ state[i] \in {"open", "answered"}
  /\ tired[i] => tired'[i]

Next == \A i \in Question : Move(i)
Spec == Init /\ [][Next]_<<state, original, spoken, tired>>
=============================================================================
