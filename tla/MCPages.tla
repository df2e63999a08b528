------------------------------ MODULE MCPages -------------------------------
(***************************************************************************)
(* One behaviour is about two tabs, about a tab and a screenshot, or about *)
(* a tab and a dialog: what a behaviour may use is chosen at its start.    *)
(***************************************************************************)
EXTENDS Pages

CONSTANTS t1, t2, d, ann, ben

VARIABLE budget

Budgets == {
  [tabs |-> {t1, t2}, shots |-> 0, dialogs |-> {},  sequences |-> 1, ages |-> {t2}, viewers |-> {ann}],
  [tabs |-> {t1},     shots |-> 1, dialogs |-> {},  sequences |-> 1, ages |-> {}, viewers |-> {ann, ben}],
  [tabs |-> {t1},     shots |-> 0, dialogs |-> {d}, sequences |-> 2, ages |-> {}, viewers |-> {ann, ben}] }

Within ==
  /\ {p \in Tabs : page'[p].viewer # None} \subseteq budget.tabs
  /\ shots' <= budget.shots
  /\ {x \in Dialogs : opener'[x] # None} \subseteq budget.dialogs
  /\ \A p \in Tabs : page'[p].last <= budget.sequences
  /\ aged' \subseteq budget.ages
  /\ {page'[p].viewer : p \in registry'} \cup (Viewers \ access') \subseteq budget.viewers

MCInit == Init /\ budget \in Budgets
MCNext == Next /\ Within /\ UNCHANGED budget
MCSpec == MCInit /\ [][MCNext]_<<vars, budget>> /\ Fairness
=============================================================================
