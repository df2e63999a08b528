----------------------------- MODULE MCProjections -----------------------------
(***************************************************************************)
(* What outlives the state it was taken from: the page the Preview last      *)
(* published of a channel, and the sleep of a task when no operation moves   *)
(* the clock.  A behaviour is about one of the two, which its initial state  *)
(* chooses.                                                                 *)
(***************************************************************************)
EXTENDS Projections

CONSTANTS m1, m2, m3, x, viewer, ann, eve, hook, home, other, thread, cmd,
          Tasks, MaxTime, Timeout, Batch

VARIABLES
  part,
  now, status, when, real, resources, pc, stage, target, left, stable, dirty, ahead,
  progress, notifying, poked, horizon, advancing, advanceTask, received

recovering == <<now, status, when, real, resources, pc, stage, target, left, stable, dirty,
                ahead, progress, notifying, poked, horizon, advancing, advanceTask, received>>

S == INSTANCE Settlement

McTurned == {<<home, "history">>, <<home, "manage">>, <<home, "use">>, <<other, "view">>}
McParent == [c \in Channels |-> IF c = thread THEN home ELSE c]
McPlace == [m \in Messages |-> IF m = x THEN other ELSE home]
McAuthor == [m \in Messages |-> CASE m = m1 -> viewer [] m = m2 -> ann [] m = m3 -> hook [] OTHER -> eve]
McNames == [m \in Messages |-> IF m = m1 THEN {ann, other, cmd} ELSE {}]
McReply == [m \in Messages |-> IF m = m2 THEN x ELSE Nil]
McRefers == [m \in Messages |-> IF m = m3 THEN x ELSE Nil]
McThread == [m \in Messages |-> IF m = m1 THEN thread ELSE Nil]

-----------------------------------------------------------------------------
ViewInit == part \in {"projection", "recovery"} /\ ProjectionInit /\ S!Init

ViewNext ==
  \/ part = "projection" /\ ProjectionNext /\ UNCHANGED <<part, recovering>>
  \/ part = "recovery" /\ S!Next /\ UNCHANGED <<part, projectionVars>>

Recovering(act) == part = "recovery" /\ act

\* The loop runs what is queued, and wall-clock time passes (Settlement).
ViewSpec ==
  /\ ViewInit /\ [][ViewNext]_<<part, projectionVars, recovering>>
  /\ \A p \in S!Settlers : WF_recovering(Recovering(S!Settle(p) \/ S!Advance(p)))
  /\ \A w \in Tasks : /\ WF_recovering(Recovering(S!RunTask(w)))
                      /\ WF_recovering(Recovering(S!Fallback(w)))
  /\ WF_recovering(Recovering(S!Notify)) /\ WF_recovering(Recovering(S!AutoStarts))
  /\ WF_recovering(Recovering(S!Tick))

\* The clock reaches the timers that sleep on it (_advance_real_time).
Recovers == S!RecoveryLive
=============================================================================
