------------------------------ MODULE Checkouts ------------------------------
(***************************************************************************)
(* The captures that need real subscriptions (monetization_reference_       *)
(* upgrade.py and _live_upgrade of monetization_reference_checkout.py): a    *)
(* person is told to start a subscription A, to upgrade it to B and to have  *)
(* it renew as A again, and must be told to cancel what he started.  The     *)
(* program may be killed at any await; Discord lists late.                   *)
(*                                                                         *)
(* A step ends where the stage is saved or a request is sent, so that the   *)
(* saved stage stands for the one in memory.  An entitlement stands for the  *)
(* subscription it is bound to.                                              *)
(***************************************************************************)
EXTENDS Naturals, FiniteSets

CONSTANTS
  Modes,    \* "upgrade" (capture_upgrade) and "live" (_live_upgrade)
  MaxRuns   \* bound: how often the program is started

ASSUME CheckoutsAssumption == Modes \subseteq {"upgrade", "live"} /\ MaxRuns \in Nat

VARIABLES
  mode,
  status,  \* entitlement -> how its subscription really stands
  listed,  \* those Discord's lists show
  renews,  \* b1 is to renew as A
  heard,   \* what the person was told to do and has not done
  told,    \* how often each instruction was shown
  stage,   \* ctx.state["checkout"]["live_upgrade"], as saved
  sent,    \* creates of the sandbox grant that reached Discord
  unsure,  \* a write without an answer is in the journal
  pc, view, runs

checkoutVars == <<mode, status, listed, renews, heard, told, stage, sent, unsure, pc, view, runs>>
world == <<status, listed, renews>>
person == <<heard, told>>

Ents == {"a0", "a1", "b0", "b1"}  \* there before, and started in the capture
Skus == {"a", "b"}
SkuOf(e) == IF e \in {"a0", "a1"} THEN "a" ELSE "b"
Instructions == {"prepare", "upgrade", "downgrade", "cancel"}
Blind == [rows |-> [e \in Ents |-> "none"], reports |-> {}]

CheckoutsInit ==
  /\ mode \in Modes
  /\ status \in [Ents -> {"none", "renewing", "canceled", "ended"}]
  /\ status["a1"] = "none" /\ status["b1"] = "none" /\ status["b0"] \in {"none", "renewing"}
  /\ listed = {e \in Ents : status[e] # "none"} /\ renews = FALSE
  /\ heard = {} /\ told = [i \in Instructions |-> 0]
  /\ stage = [base |-> [k \in Skus |-> {"unread"}], prompted |-> {}, confirmed |-> {},
              shown |-> {}, managed |-> {}, a |-> "none", b |-> "none",
              required |-> FALSE, started |-> FALSE, verified |-> FALSE, upgraded |-> FALSE,
              downgraded |-> FALSE, probe |-> "none", complete |-> FALSE, done |-> FALSE]
  /\ sent = 0 /\ unsure = FALSE /\ pc = "off" /\ view = Blind /\ runs = 0

(***************************************************************************)
(* Discord and the person at it.                                            *)
(***************************************************************************)
Obeys(i, e, new) ==
  /\ i \in heard /\ (i # "cancel" => "cancel" \notin heard)
  /\ status' = [status EXCEPT ![e] = new]
  /\ heard' = IF i = "cancel" THEN heard ELSE heard \ {i}
  /\ UNCHANGED <<mode, listed, told, stage, sent, unsure, pc, view, runs>>

Subscribes == /\ \/ status["a1"] = "none" /\ Obeys("prepare", "a1", "renewing")
                 \/ mode = "upgrade" /\ status["a0"] = "canceled" /\ Obeys("prepare", "a0", "renewing")
              /\ UNCHANGED renews

\* the upgraded subscription ends at once or goes on for the period
Upgrades(e) ==
  /\ "upgrade" \in heard /\ "cancel" \notin heard /\ heard' = heard \ {"upgrade"}
  /\ SkuOf(e) = "a" /\ status[e] \in {"renewing", "canceled"} /\ status["b1"] = "none"
  /\ \E left \in {"ended", status[e]} : status' = [status EXCEPT ![e] = left, !["b1"] = "renewing"]
  /\ UNCHANGED <<mode, listed, renews, told, stage, sent, unsure, pc, view, runs>>

Downgrades == status["b1"] = "renewing" /\ Obeys("downgrade", "b1", "renewing") /\ renews' = TRUE
Cancels(e) == status[e] = "renewing" /\ Obeys("cancel", e, "canceled") /\ UNCHANGED renews

\* the paid period of a cancelled subscription is over
PeriodEnds(e) ==
  /\ status[e] = "canceled" /\ status' = [status EXCEPT ![e] = "ended"]
  /\ UNCHANGED <<mode, listed, renews, person, stage, sent, unsure, pc, view, runs>>

IsListed(e) ==
  /\ status[e] # "none" /\ e \notin listed /\ listed' = listed \cup {e}
  /\ UNCHANGED <<mode, status, renews, person, stage, sent, unsure, pc, view, runs>>

(***************************************************************************)
(* What is read.  Reports of subscriptions may be missing; rows may not.    *)
(***************************************************************************)
Seen(reports) == [rows |-> [e \in Ents |-> IF e \in listed THEN status[e] ELSE "none"],
                  reports |-> reports]
Entitled(v, e) == v.rows[e] \in {"renewing", "canceled"}
ActiveOf(v, k) == {e \in Ents : SkuOf(e) = k /\ Entitled(v, e)}
Linked(v, e) == v.rows[e] # "none" /\ SkuOf(e) \in v.reports
CancellationVerified(v, e) == SkuOf(e) \in v.reports /\ v.rows[e] \in {"canceled", "ended"}
New(e) == e \notin stage.base[SkuOf(e)]

\* An instruction that was shown makes every new entitlement one to cancel.
Recover(v) == {e \in Ents : /\ v.rows[e] # "none" /\ New(e)
                            /\ (IF SkuOf(e) = "a" THEN "prepare" ELSE "upgrade") \in stage.prompted}

Manage(s, es) ==
  IF es = {} THEN s
  ELSE [s EXCEPT !.managed = @ \cup es, !.required = TRUE, !.verified = FALSE]

Unfound == "none"   \* nothing is found yet
Conflict == "conflict"

ReadyA(v) ==
  LET act == ActiveOf(v, "a")  ready == {e \in act : Linked(v, e) /\ v.rows[e] = "renewing"}
  IN  IF ActiveOf(v, "b") # {} THEN Conflict
      ELSE IF \E e \in act \ ready : ~CancellationVerified(v, e) THEN Unfound
      ELSE IF Cardinality(ready) > 1 THEN Conflict
      ELSE IF ready = {} THEN Unfound ELSE CHOOSE e \in ready : TRUE

Replacement(v) ==
  LET act == ActiveOf(v, "b")
  IN  IF Cardinality(act) > 1 THEN Conflict
      ELSE IF \E e \in act : New(e) /\ Linked(v, e) THEN CHOOSE e \in act : TRUE ELSE Unfound

Downgrade(v) ==
  IF stage.b # Unfound /\ Linked(v, stage.b) /\ v.rows[stage.b] = "renewing" /\ renews THEN stage.b ELSE Unfound

\* what a mutant does: one cancelled subscription is enough
CanceledAny(v, managed) == \E e \in managed : v.rows[e] = "ended" \/ CancellationVerified(v, e)

Canceled(v, managed) ==
  managed # {} /\ \A e \in managed : v.rows[e] = "ended" \/ CancellationVerified(v, e)

(***************************************************************************)
(* The program.  Proceed ends a step; an error of a capture blocks the case *)
(* and goes on to the cancellation, the end of the process goes nowhere.    *)
(***************************************************************************)
Proceed(to, s) ==
  /\ pc' = to /\ stage' = s
  /\ UNCHANGED <<mode, world, sent, unsure, runs>>
Unasked == UNCHANGED person
Forgets == view' = Blind
Fails(s) == Proceed(IF unsure THEN "off" ELSE "cancel", [s EXCEPT !.complete = @ \/ mode = "upgrade"])
Error == Fails(stage)

Killed ==
  /\ pc # "off" /\ Forgets /\ Unasked /\ Proceed("off", stage)

Start ==
  /\ pc = "off" /\ runs < MaxRuns /\ runs' = runs + 1 /\ ~unsure
  /\ ~(stage.done /\ stage.verified)
  /\ IF mode = "upgrade" THEN TRUE ELSE ~stage.verified
  /\ pc' = IF stage.started \/ stage.verified \/ stage.done THEN "cancel" ELSE "baseline"
  /\ UNCHANGED <<mode, world, person, stage, sent, unsure, view>>

\* _baseline: what is there is never counted as started here.
Baseline ==
  /\ pc = "baseline" /\ Forgets /\ Unasked
  /\ \/ \E k \in Skus :
          /\ stage.base[k] = {"unread"} /\ (k = "b" => stage.base["a"] # {"unread"})
          /\ \/ Proceed("baseline", [stage EXCEPT !.base[k] = {e \in listed : SkuOf(e) = k}])
             \/ Error
     \/ /\ \A k \in Skus : stage.base[k] # {"unread"}
        /\ Proceed("read", stage)

\* _manual: the obligation is saved before the instruction is shown, and the
\* instruction is marked shown before it is.
Told(i, s) == [s EXCEPT !.prompted = @ \cup {i}]

Instruct(i, to) ==
  \/ /\ heard' = heard \cup {i} /\ told' = [told EXCEPT ![i] = IF @ = 2 THEN 2 ELSE @ + 1]
     /\ Proceed(to, Told(i, stage))
  \/ Unasked /\ Proceed("off", Told(i, stage))   \* killed before it is shown

Obliged(s) == [s EXCEPT !.required = TRUE, !.verified = FALSE]

\* the person confirms a free checkout, or stops
Confirm(i, to) ==
  /\ Forgets /\ Unasked
  /\ \/ Proceed(to, [stage EXCEPT !.confirmed = @ \cup {i}])
     \/ Error

\* The command the person is to invoke; a capture of it that fails ends an
\* upgrade for this process and blocks the other capture.
Interact(i, to) ==
  /\ Forgets /\ Unasked
  /\ \/ Proceed(to, [stage EXCEPT !.shown = @ \cup {i}])
     \/ IF mode = "upgrade" THEN Proceed("off", stage) ELSE Error

(***************************************************************************)
(* capture_upgrade                                                          *)
(***************************************************************************)
Read ==
  /\ pc = "read" /\ mode = "upgrade" /\ Unasked
  /\ \/ /\ \E reports \in SUBSET Skus : view' = Seen(reports)
        /\ Proceed("interactions", Manage(stage, Recover(view')))
     \/ Forgets /\ Error

Interactions ==
  /\ pc = "interactions"
  /\ IF stage.prompted \subseteq stage.shown
     THEN UNCHANGED view /\ Unasked
          /\ Proceed(IF "upgrade" \in stage.prompted \/ stage.upgraded THEN "upgrade" ELSE "prepare", stage)
     ELSE \E i \in stage.prompted \ stage.shown :
            \/ UNCHANGED view /\ Unasked /\ Proceed("interactions", [stage EXCEPT !.shown = @ \cup {i}])
            \/ Forgets /\ Unasked /\ Proceed("off", stage)

\* the A that is there, as the view has it
Current == IF "prepare" \in stage.prompted
           THEN {e \in {stage.a} \cap Ents : view.rows[e] # "none"} ELSE ActiveOf(view, "a")

PrepareA ==
  /\ pc = "prepare" /\ Unasked /\ Forgets
  /\ IF \/ Cardinality(Current) > 1 \/ ActiveOf(view, "b") # {}
        \/ \E e \in Current : ~Linked(view, e)
     THEN Error
     ELSE LET kept == [Manage(stage, Current) EXCEPT !.a = IF Current = {} THEN @ ELSE CHOOSE e \in Current : TRUE]
              ready == ReadyA(view)
          IN  \/ IF ready = Conflict THEN Fails(kept)
                 ELSE IF ready \in Ents THEN Proceed("upgrade", [Manage(kept, {ready}) EXCEPT !.a = ready])
                 ELSE IF "prepare" \in stage.prompted THEN Proceed("settle A", kept)
                 ELSE Proceed("ask A", Obliged(kept))
              \/ Fails(kept)  \* the first command of the person is not captured

AskA == pc = "ask A" /\ Forgets /\ Instruct("prepare", "answer A")
AnswerA == pc = "answer A" /\ Confirm("prepare", IF mode = "upgrade" THEN "command A" ELSE "select A")
CommandA == pc = "command A" /\ Interact("prepare", "settle A")

\* A settle reads until something is found or its time is over.
SettleAt(at, find(_), found(_, _), missing(_)) ==
  /\ pc = at /\ Forgets /\ Unasked
  /\ \/ \E reports \in SUBSET Skus :
          LET v == Seen(reports)  s == Manage(stage, Recover(v))  what == find(v)
          IN  CASE what = Conflict -> Fails(s)
                [] what \in Ents -> found(s, what)
                [] OTHER -> missing(s) \/ (s # stage /\ Proceed(at, s))
     \/ Error

SettleA ==
  LET found(s, e) == Proceed("upgrade", [Manage(s, {e}) EXCEPT !.a = e])
  IN  SettleAt("settle A", ReadyA, found, Fails)

UpgradeToB ==
  /\ pc = "upgrade" /\ Forgets /\ Unasked
  /\ IF stage.upgraded THEN Proceed("cross tier", stage)
     ELSE IF "upgrade" \in stage.prompted THEN Proceed("settle B", stage)
     ELSE Proceed("ask B", Obliged(stage))

AskB == pc = "ask B" /\ Forgets /\ Instruct("upgrade", "answer B")
AnswerB == pc = "answer B" /\ Confirm("upgrade", IF mode = "upgrade" THEN "command B" ELSE "select B")
CommandB == pc = "command B" /\ Interact("upgrade", "settle B")

SettleB ==
  LET found(s, e) == Proceed("cross tier", [Manage(s, {e}) EXCEPT !.b = e, !.upgraded = TRUE])
  IN  SettleAt("settle B", Replacement, found, Fails)

\* _cross_tier: one sandbox grant beside the real subscription, once ever.
CrossTier ==
  /\ pc = "cross tier" /\ Forgets /\ Unasked
  /\ CASE stage.probe = "none" ->
            \/ \E reports \in SUBSET Skus :
                 IF Replacement(Seen(reports)) \in Ents THEN Proceed("create", [stage EXCEPT !.probe = "attempted"])
                 ELSE Error
            \/ Error
       [] stage.probe = "created" -> \/ Proceed("downgrade", [stage EXCEPT !.probe = "removed"])
                                     \/ Error
       [] OTHER -> Proceed("downgrade", stage)

Attempted(answer) == [stage EXCEPT !.probe = IF answer = "lost" THEN @ ELSE answer]

\* the journal keeps the answer; one that is lost stays to be looked into
SendCreate ==
  /\ pc = "create" /\ Forgets /\ Unasked /\ sent' = sent + 1
  /\ \E answer \in {"created", "rejected", "lost"} :
       /\ stage' = Attempted(answer) /\ unsure' = (answer = "lost")
       /\ pc' = IF answer = "lost" THEN "off" ELSE "cross tier"
  /\ UNCHANGED <<mode, world, runs>>

\* a person looks into it
LookedInto ==
  /\ unsure /\ pc = "off" /\ unsure' = FALSE
  /\ UNCHANGED <<mode, world, person, stage, sent, pc, view, runs>>

ScheduleDowngrade ==
  /\ pc = "downgrade" /\ Forgets /\ Unasked
  /\ IF stage.downgraded THEN Proceed("finish", stage)
     ELSE IF "downgrade" \in stage.prompted THEN Proceed("settle D", stage)
     ELSE \/ \E reports \in SUBSET Skus :
               IF Replacement(Seen(reports)) \in Ents THEN Proceed("ask D", stage) ELSE Error
          \/ Error

AskD == pc = "ask D" /\ Forgets /\ Instruct("downgrade", "command D")
CommandD == pc = "command D" /\ Interact("downgrade", "settle D")

SettleD ==
  LET found(s, e) == Proceed("finish", [s EXCEPT !.downgraded = TRUE])
      missing(s) == Proceed("finish", s)
  IN  SettleAt("settle D", Downgrade, found, missing)

Finish ==
  /\ pc = "finish" /\ Forgets /\ Unasked /\ Proceed("cancel", [stage EXCEPT !.complete = TRUE])

(***************************************************************************)
(* _live_upgrade: each new entitlement is selected, being the only one.     *)
(***************************************************************************)
LivePrepare ==
  /\ pc = "read" /\ mode = "live" /\ Forgets /\ Unasked
  /\ IF stage.b # Unfound THEN Proceed("classify", stage)
     ELSE IF "upgrade" \in stage.prompted
          THEN Proceed(IF "upgrade" \in stage.confirmed THEN "select B" ELSE "answer B", stage)
     ELSE IF stage.a # Unfound THEN Proceed("capture A", stage)
     ELSE IF "prepare" \in stage.prompted
          THEN Proceed(IF "prepare" \in stage.confirmed THEN "select A" ELSE "answer A", stage)
     ELSE IF \E e \in stage.base["a"] \cup stage.base["b"] : status[e] # "ended" THEN Error
     ELSE Proceed("ask A", Obliged(stage))

SelectNew(k, to) ==
  LET new == {e \in listed : SkuOf(e) = k /\ New(e)}
      kept(e) == IF k = "a" THEN [stage EXCEPT !.a = e] ELSE [stage EXCEPT !.b = e]
  IN  /\ Forgets /\ Unasked
      /\ \/ /\ Cardinality(new) = 1
            /\ \E e \in new : /\ status[e] \in {"renewing", "canceled"}
                              /\ Proceed(to, [kept(e) EXCEPT !.managed = @ \cup {e}])
         \/ Error

SelectA == pc = "select A" /\ SelectNew("a", "capture A")
SelectB == pc = "select B" /\ SelectNew("b", "classify")

CaptureA ==
  /\ pc = "capture A" /\ Forgets /\ Unasked
  /\ \/ status[stage.a] \in {"renewing", "canceled"} /\ Proceed("ask B", stage)
     \/ Error

\* classify_upgrade: A has ended and B is active
Classify ==
  /\ pc = "classify" /\ Forgets /\ Unasked
  /\ \/ /\ status[stage.a] = "ended" /\ status[stage.b] \in {"renewing", "canceled"}
        /\ Proceed("cancel", [stage EXCEPT !.done = TRUE])
     \/ Error

(***************************************************************************)
(* The cancellation, of both.                                               *)
(***************************************************************************)
Finished(s) == IF mode = "upgrade" THEN [s EXCEPT !.done = s.complete /\ s.verified] ELSE s

Cancel ==
  /\ pc = "cancel" /\ Forgets
  /\ IF ~stage.required \/ stage.verified
     THEN Unasked /\ Proceed("off", Finished(stage))
     ELSE \/ /\ heard' = heard \cup {"cancel"} /\ told' = [told EXCEPT !["cancel"] = 1]
             /\ Proceed("verify", [stage EXCEPT !.started = TRUE])
          \/ Unasked /\ Proceed("off", [stage EXCEPT !.started = TRUE])

VerifyCanceled ==
  /\ pc = "verify" /\ mode = "upgrade" /\ Forgets /\ Unasked
  /\ \E reports \in SUBSET Skus :
       LET v == Seen(reports)  s == Manage(stage, Recover(v))
       IN  Proceed("off", Finished([s EXCEPT !.verified = Canceled(v, s.managed)]))

\* What was not selected is looked for once more; one that is not found, or
\* not alone, keeps the obligation.
LiveVerify ==
  /\ pc = "verify" /\ mode = "live" /\ Forgets /\ Unasked
  /\ \E reports \in SUBSET Skus :
       LET v == Seen(reports)
           new(k) == {e \in Ents : SkuOf(e) = k /\ v.rows[e] # "none" /\ New(e)}
           found(k, was) == IF was = Unfound /\ Cardinality(new(k)) = 1 THEN CHOOSE e \in new(k) : TRUE ELSE was
           a == found("a", stage.a)  b == found("b", stage.b)
           managed == {a, b} \ {Unfound}
       IN  Proceed("off", [stage EXCEPT !.a = a, !.b = b, !.managed = @ \cup managed,
                        !.verified = /\ a # Unfound /\ ("upgrade" \in stage.prompted => b # Unfound)
                                     /\ Canceled(v, managed)])

CheckoutsNext ==
  \/ Subscribes \/ Downgrades
  \/ \E e \in Ents : Upgrades(e) \/ Cancels(e) \/ PeriodEnds(e) \/ IsListed(e)
  \/ Start \/ Killed \/ LookedInto \/ Baseline \/ Read \/ Interactions
  \/ PrepareA \/ AskA \/ AnswerA \/ CommandA \/ SettleA
  \/ UpgradeToB \/ AskB \/ AnswerB \/ CommandB \/ SettleB
  \/ CrossTier \/ SendCreate \/ ScheduleDowngrade \/ AskD \/ CommandD \/ SettleD \/ Finish
  \/ LivePrepare \/ SelectA \/ CaptureA \/ SelectB \/ Classify
  \/ Cancel \/ VerifyCanceled \/ LiveVerify

CheckoutsSpec == CheckoutsInit /\ [][CheckoutsNext]_checkoutVars

(***************************************************************************)
(* Properties                                                              *)
(***************************************************************************)
Started == {e \in {"a1", "b1"} : status[e] # "none"}

\* However often the program is killed, nobody is told twice to check out, to
\* upgrade or to downgrade, nobody is once he was told to cancel, the one
\* sandbox grant is asked for once, and whoever started a subscription because
\* he was told to finds its cancellation owed in the saved stage ("the
\* cancellation obligation is journaled before showing any checkout
\* instruction", "interrupted checkout must never be reissued").
NeverReissued ==
  /\ \A i \in {"prepare", "upgrade", "downgrade"} : told[i] <= 1
  /\ sent <= 1
  /\ stage.started => pc \in {"off", "cancel", "verify"}
  /\ Started # {} => stage.required
  /\ stage.done /\ mode = "upgrade" => stage.verified /\ stage.managed # {}

\* The cancellation is called verified only when neither what is managed nor
\* what the lists show of what was started still renews (_recover, _canceled).
VerifiesRightly ==
  ~stage.verified /\ stage'.verified =>
    \A e \in stage'.managed \cup (Started \cap listed) : status[e] # "renewing"

\* No instruction to buy and no grant is issued twice, however often the script
\* is killed, and what it started is owed a cancellation (_certain, _prepare_a).
\* A cancellation is called verified only when nothing managed or listed still
\* renews (_canceled).
EvidenceTrue == []NeverReissued /\ [][VerifiesRightly]_checkoutVars
=============================================================================
