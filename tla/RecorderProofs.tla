---------------------------- MODULE RecorderProofs ----------------------------
(***************************************************************************)
(* Proofs about the recorders: no grant and no command is lost, whatever   *)
(* is killed, lost or refused, and the journal keeps the promise of Writes. *)
(***************************************************************************)
EXTENDS Recorder, Checkouts, SequenceTheorems, FiniteSetTheorems, TLAPS

Owners == Ids \cup {None}
RowKinds == {"none", "sent", "lost", "ok", "odd", "gone", "refused", "limited"}
Answers == {"ok", "odd", "gone", "refused", "limited"}
Phases == {"off", "app", "reconcile", "recover", "prepare", "connect", "jobs", "close", "end",
           "over"}

Fields == {"held", "deleted", "command", "pending", "uncertain", "baseline", "manual", "kept",
           "authorized", "prompted", "done", "failed", "complete", "errors", "status"}
IsJournal(j) == j = [f \in Fields |-> j[f]]
IsIo(x) == x = [f \in {"path", "case", "at", "answer", "id", "tries"} |-> x[f]]

JournalRight(j) ==
  /\ IsJournal(j)
  /\ j.held \subseteq Grants /\ j.deleted \subseteq Grants
  /\ j.baseline \subseteq Ids /\ j.manual \subseteq {Purchase} /\ j.authorized \subseteq {History}
  /\ j.command \in {"no", "held", "deleted"} /\ j.prompted \in BOOLEAN /\ j.errors \in BOOLEAN
  /\ j.kept \in Owners /\ \A c \in DOMAIN j.complete : j.complete[c] \in Owners
  /\ \A i \in Unresolved(j) : i.path \in Path
  /\ \A i, k \in Unresolved(j) : i.path = k.path => i = k

World == [live : SUBSET Ids, removed : SUBSET Ids, command : BOOLEAN,
          done : SUBSET Path, late : SUBSET Path, told : Nat]
Process == [phase : Phases, only : BOOLEAN, resume : BOOLEAN, job : Nat, at : Nat \ {0},
            first : Owners, last : Owners, raised : {"no"} \cup Kinds, tried : SUBSET Path,
            errors : BOOLEAN, told : BOOLEAN]
IoRight(x) ==
  /\ IsIo(x) /\ x.at \in {"none", "begun", "sent", "answered", "received"}
  /\ x.at # "none" => x.path \in Path
  /\ x.at \in {"answered", "received"} => x.answer \in Answers
  /\ x.id \in Owners /\ x.tries \in Nat

TypeInv ==
  /\ jobs \in Sessions /\ run.job \in DOMAIN jobs
  /\ JournalRight(journal) /\ log \in [Path -> [is : RowKinds, id : Owners]]
  /\ discord \in World /\ run \in Process /\ IoRight(io)

\* What Discord carried out, or may still carry out, has its intent in the
\* journal, and the log knows of it; a write in flight is one of them.
LogInv ==
  /\ discord.done \cup discord.late \subseteq Open
  /\ discord.done \cap discord.late = {}
  /\ \A p \in Path \ Open : log[p].is = "none"
  /\ \A p \in Path : log[p].is \in {"none", "refused", "limited", "gone"} => p \notin discord.done
  /\ \A p \in discord.late : log[p].is \in {"sent", "lost"}
  /\ \A p \in Path : log[p].is = "odd" => p = Create_
FlightInv ==
  io.at # "none" =>
       /\ Intent(io.path, io.case) \in Unresolved(journal)
       /\ io.path \notin discord.late
       /\ io.at = "begun" => log[io.path].is \in {"none", "limited"}
       /\ io.at = "sent" => io.path \notin discord.done
       /\ io.at \in {"sent", "answered"} => log[io.path].is = "sent"
       /\ io.at = "answered" /\ io.answer \in {"refused", "limited", "gone"} =>
            io.path \notin discord.done
       /\ io.at = "received" => log[io.path] = Row(io.answer, io.id)
       /\ io.at \in {"answered", "received"} /\ io.answer = "odd" => io.path = Create_
WriteInv == LogInv /\ FlightInv

\* How a write was answered, as far as the journal or the process can know.
AnsweredAs(p, answers, id) ==
  \/ log[p].is \in answers /\ log[p].id = id
  \/ io.at = "answered" /\ io.path = p /\ io.answer \in answers /\ io.id = id
Deletion(e) == <<"delete", e>>
Loose == (discord.live \cap Grants) \ journal.held

\* Whose the grants are.
HeldInv ==
  /\ discord.live \cap discord.removed = {}
  /\ Earlier \subseteq discord.removed
  /\ Owned(journal) \subseteq discord.live \cup discord.removed
  /\ Owned(journal) \cap (journal.baseline \cup journal.manual \cup Earlier) = {}
  /\ discord.removed \cap Grants \subseteq Owned(journal) \cup Earlier
IntentInv ==
  /\ Create_ \in Open => Earlier \subseteq journal.baseline
  /\ \A e \in Grants : Deletion(e) \in Open => e \in Owned(journal)
AnswerInv ==
  /\ \A e \in Grants, id \in Owners :
       AnsweredAs(Deletion(e), {"ok", "gone"}, id) => e \in discord.removed
  /\ Create_ \notin discord.done => Loose = {}
  /\ \A id \in Owners : AnsweredAs(Create_, {"ok"}, id) =>
       /\ id \in Grants \cap (discord.live \cup discord.removed)
       /\ Loose \subseteq {id}
\* What is not the session's own.
ForeignInv ==
  /\ Deletion(History) \in Open \/ History \in discord.removed => History \in journal.authorized
  /\ Deletion(Purchase) \in Open \/ Purchase \in discord.removed =>
       Purchase \in journal.manual /\ journal.prompted
OwnInv == HeldInv /\ IntentInv /\ AnswerInv /\ ForeignInv

CommandInv ==
  /\ Uncommand \in Open => journal.command = "held"
  /\ Command \in Open => journal.command # "held"
  /\ discord.command => journal.command = "held" \/ Command \in discord.done
  /\ \A id \in Owners : AnsweredAs(Uncommand, {"ok", "gone"}, id) => ~discord.command

\* Where the process is, and what it has done to be there.
Writing == {"create", "remove", "removeAll", "consume", "delete", "release", "cleanup", "resume"}
PhaseInv ==
  /\ run.told => io.at = "none" /\ InJob /\ Here.do = "prompt"
  /\ io.at # "none" =>
       /\ run.phase \in {"recover", "close", "connect", "jobs"}
       /\ run.phase = "jobs" => InJob /\ Here.do \in Writing
       /\ run.phase = "connect" => io.path = Command
       /\ Cleaning(run) => io.path = Uncommand \/ \E e \in Grants : io.path = Deletion(e)
  /\ run.phase \in {"connect", "jobs"} => Earlier \subseteq journal.baseline
  /\ run.phase \in {"prepare", "connect"} => journal.command # "held"
  /\ ~run.resume /\ run.phase \in {"app", "reconcile"} =>
       journal.command = "no" /\ Unresolved(journal) = {}
  /\ run.phase = "reconcile" => journal.pending = {}
  /\ run.resume => ~Old
  /\ journal.status = "new" =>
       journal.command = "no" /\ Unresolved(journal) = {} /\ run.phase = "off"

\* What a job did before it touches what is not the session's own.
InJobs(name) == run.phase = "jobs" /\ jobs[run.job] = name
EntitledInv ==
  /\ InJobs("rejections") /\ run.at = 12 => History \in journal.authorized
  /\ InJobs("checkouts") /\ run.at \in 4..17 => journal.prompted
  /\ InJobs("checkouts") /\ run.at \in 5..17 => Purchase \in journal.manual

Words == discord.told + IF run.told THEN 1 ELSE 0
WordsInv ==
  /\ Words <= 1
  /\ Old => ~journal.prompted
  /\ Words > 0 /\ ~Old => journal.prompted
  /\ Words > 0 /\ Old =>
       \/ run.phase = "jobs" /\ (run.at > 2 \/ (run.at = 2 /\ run.told))
       \/ run.phase \in {"close", "end"}
       \/ run.phase \in {"off", "over"} /\ journal.status # "new"

\* Cleanup leaves nothing without saying so.
Left == journal.held # {} \/ journal.command = "held"
CloseInv ==
  /\ Cleaning(run) /\ ~run.errors =>
       /\ \A e \in journal.held : Deletion(e) \notin run.tried
       /\ journal.command = "held" => Uncommand \notin run.tried
  /\ run.phase = "end" /\ ~journal.errors /\ run.raised = "no" => ~Left

\* While a job goes well no write is open but the one in flight, and the jobs
\* before it are done.
JobsInv ==
  /\ io.at # "none" /\ ~Cleaning(run) => Unresolved(journal) \subseteq {Intent(io.path, io.case)}
  /\ io.at = "none" /\ run.phase = "jobs" /\ run.raised = "no" => Unresolved(journal) = {}
  /\ \A k \in 1..(run.job - 1) : jobs[k] \in journal.done
  /\ run.phase \notin {"jobs", "close", "end"} => run.raised = "no"
  /\ run.phase \in {"reconcile", "recover"} => ~Old

\* What a status says, on disk and in the process.
AllRan == Ran /\ Create_ \notin Open /\ Command \notin Open
StatusInv ==
  /\ journal.status \in {"completed", "recovered"} => run.phase \in {"off", "over", "close", "end"}
  /\ journal.status = "completed" \/ Status = "completed" => AllRan
  /\ journal.status = "recovered" => ~Old /\ run.raised = "no"
  /\ run.phase = "over" /\ journal.status \in {"completed", "recovered"} =>
       Unresolved(journal) = {} /\ ~Left
EndInv == JobsInv /\ StatusInv

IInv == TypeInv /\ WriteInv /\ OwnInv /\ CommandInv /\ PhaseInv /\ EntitledInv /\ WordsInv
        /\ CloseInv /\ EndInv

-----------------------------------------------------------------------------
(* The plans: no job goes back before its start, and the steps that mutate *)
(* what is not the session's own come after what they need.                *)

RejectionStep(k, step) ==
  /\ step.do = "authorize" <=> k = 11
  /\ step.do = "delete" => step.slot = "nothing" \/ (step.slot = "source" /\ k = 12)
  /\ k # 11 => k + step.no # 12
  /\ step.fin = 0
CheckoutStep(k, step) ==
  /\ step.do = "prompt" <=> k = 3
  /\ step.do = "select" <=> k = 4
  /\ step.do = "delete" => step.slot = "bought" /\ k = 7
  /\ k < 3 => k + step.no <= 3 \/ k + step.no > 17
  /\ k \in {3, 4} => step.no = 1
  /\ step.fin = 0
PurchaseStep(k, step) == step.do = "prompt" <=> k = 2
OtherStep(step) == step.do # "prompt" /\ (step.do = "delete" => step.slot = "nothing")

Special == {"rejections", "checkouts", "purchases"}
Sane(job, k, step) ==
  /\ step.no \in Int /\ k + step.no > 0 /\ step.fin \in Nat
  /\ job # "pagination" => step.no > 0
  /\ job = "rejections" => RejectionStep(k, step)
  /\ job = "checkouts" => CheckoutStep(k, step)
  /\ job = "purchases" => PurchaseStep(k, step) /\ step.do # "delete"
  /\ job \notin {"checkouts", "purchases"} => step.do # "prompt"
  /\ job \notin Special => OtherStep(step)
SaneJob(job, plan) == Len(plan) \in Nat /\ \A k \in 1..Len(plan) : Sane(job, k, plan[k])

LEMMA RejectionSteps == SaneJob("rejections", Rejections)
  BY DEF Rejections, SaneJob, Sane, RejectionStep, Special, Probe, Undo, Look, Absent, Create,
         Consume, Remove, Guarded, Step, Exit

LEMMA CheckoutSteps == SaneJob("checkouts", DeletedPurchase)
  BY DEF DeletedPurchase, SaneJob, Sane, CheckoutStep, Special, Look, Guarded, Step, Exit, SkipIf,
         Verify, Consume, Mark

LEMMA PurchaseSteps == SaneJob("purchases", OldPurchases)
  BY DEF OldPurchases, SaneJob, Sane, PurchaseStep, Special, Look, Step, Consume

LEMMA PageSteps == SaneJob("pagination", Pagination)
  BY DEF Pagination, SaneJob, Sane, OtherStep, Special, Look, Step, Create, Remove, Guarded, Exit

LEMMA DuplicateSteps == SaneJob("duplicates", Duplicates)
  BY DEF Duplicates, SaneJob, Sane, OtherStep, Special, Look, Step, Create, Remove, RemoveAll, Exit

LEMMA CrossSteps == SaneJob("cross_scope", CrossScope)
  BY DEF CrossScope, SaneJob, Sane, OtherStep, Special, Look, Step, Create, Remove, Finally, Exit

LEMMA GuildSteps == SaneJob("guild", Guild)
  BY DEF Guild, SaneJob, Sane, OtherStep, Special, Look, Step, Create, Remove, Finally, Exit

LEMMA SubscriptionSteps == SaneJob("subscriptions", OldSubscriptions)
  BY DEF OldSubscriptions, SaneJob, Sane, OtherStep, Special, Look, Step, Create, Remove,
         RemoveAll, Required, Guarded

LifeSteps ==
  {SkipIf("watched", 9), Look(8), Look(7),
   SkipIf("after end", 3), Look(4), Guarded(Create("last", 1), "after end"),
   Finally(Look(1), 1), Step("cleanup", "last", 1), Mark("watched"),
   Look(Exit), SkipIf("consume first", 2), Guarded(Consume("history"), "consume first"),
   SkipIf("consume repeat", 2), Guarded(Consume("history"), "consume repeat"), Look(1)}
Onward(step) == step.no \in Nat \ {0} /\ step.fin \in Nat /\ OtherStep(step)

LEMMA LifecycleSteps == SaneJob("lifecycle", Lifecycle)
<1>1. <<SkipIf("watched", 9), Look(8)>> \in Seq(LifeSteps)
  BY DEF LifeSteps
<1>2. PollWatch \in Seq(LifeSteps)
  BY DEF PollWatch, LifeSteps
<1>3. DuplicateAfterEnd \in Seq(LifeSteps)
  BY DEF DuplicateAfterEnd, LifeSteps
<1>4. <<Mark("watched")>> \in Seq(LifeSteps)
  BY DEF LifeSteps
<1>5. ConsumeHistory \in Seq(LifeSteps)
  BY DEF ConsumeHistory, LifeSteps
<1>6. RecordTransition \in Seq(LifeSteps)
  BY <1>3, <1>4 DEF RecordTransition
<1>7. Watch \in Seq(LifeSteps)
  BY <1>1, <1>2, <1>6 DEF Watch
<1>8. Lifecycle \in Seq(LifeSteps)
  BY <1>5, <1>7 DEF Lifecycle
<1>9. \A step \in LifeSteps : Onward(step)
  <2>1. /\ Onward(Look(8)) /\ Onward(Look(7)) /\ Onward(Look(4)) /\ Onward(Look(1))
        /\ Onward(Look(Exit)) /\ Onward(Finally(Look(1), 1))
    BY DEF Onward, OtherStep, Look, Step, Exit, Finally
  <2>2. /\ Onward(SkipIf("watched", 9)) /\ Onward(SkipIf("after end", 3))
        /\ Onward(SkipIf("consume first", 2)) /\ Onward(SkipIf("consume repeat", 2))
        /\ Onward(Mark("watched")) /\ Onward(Step("cleanup", "last", 1))
    BY DEF Onward, OtherStep, SkipIf, Step, Mark
  <2>3. /\ Onward(Guarded(Create("last", 1), "after end"))
        /\ Onward(Guarded(Consume("history"), "consume first"))
        /\ Onward(Guarded(Consume("history"), "consume repeat"))
    BY DEF Onward, OtherStep, Guarded, Create, Consume, Step
  <2> QED BY <2>1, <2>2, <2>3 DEF LifeSteps
<1>10. ASSUME NEW k \in 1..Len(Lifecycle)
       PROVE  Sane("lifecycle", k, Lifecycle[k])
  <2>1. Onward(Lifecycle[k])
    BY <1>8, <1>9
  <2> QED BY <1>8, <2>1 DEF Sane, Onward, OtherStep, Special
<1> QED
  BY <1>8, <1>10 DEF SaneJob

\* What is known of the plan of a job.
LEMMA PlanSteps ==
  ASSUME NEW job \in JobNames
  PROVE  SaneJob(job, Plan(job))
  BY RejectionSteps, CheckoutSteps, PurchaseSteps, PageSteps, DuplicateSteps, CrossSteps,
     GuildSteps, SubscriptionSteps, LifecycleSteps DEF JobNames, Plan

-----------------------------------------------------------------------------
(* What the steps do to the books: the journal, the log and Discord.       *)

BooksKept ==
  /\ Unresolved(journal') = Unresolved(journal)
  /\ journal'.held = journal.held /\ journal'.deleted = journal.deleted
  /\ journal'.command = journal.command /\ journal'.baseline = journal.baseline
  /\ journal'.manual = journal.manual /\ journal.authorized \subseteq journal'.authorized
  /\ journal.prompted => journal'.prompted
DiscordKept ==
  /\ discord'.live = discord.live /\ discord'.removed = discord.removed
  /\ discord'.command = discord.command
  /\ discord'.done = discord.done /\ discord'.late = discord.late
Still == BooksKept /\ DiscordKept /\ UNCHANGED <<log, io>>

\* A write begins.
Starts(path, case) ==
  /\ path \in Path \ Open /\ io.at = "none"
  /\ journal' = BeginWrite(path, case) /\ log' = [log EXCEPT ![path] = Row("none", None)]
  /\ io' = [NoIo EXCEPT !.path = path, !.case = case, !.at = "begun"]
  /\ discord' = discord
\* The process forgets a write in flight, which stays in the journal.
Drops ==
  /\ BooksKept /\ io' = NoIo /\ discord' = Orphaned
  /\ \/ log' = log
     \/ io.at \in {"sent", "answered"} /\ log' = [log EXCEPT ![io.path] = Row("lost", None)]
\* An intent leaves the journal: answered, or never sent.
Settles(i) ==
  /\ i \in Unresolved(journal) /\ Forget(i.path)
  /\ log[i.path].is \notin {"none", "sent", "lost"}
  /\ Settleable(journal, i.path, log[i.path].is, log[i.path].id)
  /\ journal' = Settle(journal, i, log[i.path].is, log[i.path].id)
  /\ io'.at = "none" /\ io.at # "none" => io.path = i.path
Unsent(i) ==
  /\ i \in Unresolved(journal) /\ Forget(i.path) /\ log[i.path].is = "none" /\ io.at = "none"
  /\ journal' = [journal EXCEPT !.uncertain = @ \ {i}, !.pending = @ \ {i},
                                !.failed = @ \ {i.case}]
  /\ UNCHANGED io

Sound == TypeInv /\ WriteInv /\ OwnInv /\ CommandInv

LEMMA OpenFacts ==
  ASSUME TypeInv
  PROVE  /\ Open \subseteq Path
         /\ \A i \in Unresolved(journal) : i.path \in Open
         /\ \A p \in Open : \E i \in Unresolved(journal) : i.path = p
  BY DEF TypeInv, JournalRight, Open, OpenPaths

LEMMA SameOpen ==
  ASSUME Unresolved(journal') = Unresolved(journal)
  PROVE  Open' = Open
  BY DEF Open, OpenPaths

LEMMA EntersOpen ==
  ASSUME NEW path, NEW case,
         Unresolved(journal') = Unresolved(journal) \cup {Intent(path, case)}
  PROVE  Open' = Open \cup {path}
<1>1. Intent(path, case).path = path
  BY DEF Intent
<1> QED BY <1>1 DEF Open, OpenPaths

LEMMA StartsOpen ==
  ASSUME TypeInv, NEW path, NEW case, Starts(path, case)
  PROVE  /\ Unresolved(journal') = Unresolved(journal) \cup {Intent(path, case)}
         /\ Open' = Open \cup {path}
         /\ journal'.held = journal.held /\ journal'.deleted = journal.deleted
         /\ journal'.command = journal.command /\ journal'.baseline = journal.baseline
         /\ journal'.manual = journal.manual /\ journal'.authorized = journal.authorized
         /\ journal'.prompted = journal.prompted /\ journal'.status = Status
         /\ journal'.errors = journal.errors /\ journal'.done = journal.done
         /\ JournalRight(journal')
<1> USE DEF TypeInv, JournalRight, IsJournal, Fields, Starts, BeginWrite, Unresolved, Intent
<1>1. /\ Unresolved(journal') = Unresolved(journal) \cup {Intent(path, case)}
      /\ journal'.held = journal.held /\ journal'.deleted = journal.deleted
      /\ journal'.command = journal.command /\ journal'.baseline = journal.baseline
      /\ journal'.manual = journal.manual /\ journal'.authorized = journal.authorized
      /\ journal'.prompted = journal.prompted /\ journal'.status = Status
      /\ journal'.errors = journal.errors /\ journal'.done = journal.done
  OBVIOUS
<1>2. Open' = Open \cup {path}
  BY <1>1, EntersOpen
<1>3. IsJournal(journal')
  OBVIOUS
<1>4. \A i, k \in Unresolved(journal)' : i.path = k.path => i = k
  BY <1>1 DEF Open, OpenPaths
<1>5. \A i \in Unresolved(journal)' : i.path \in Path
  BY <1>1
<1>6. /\ journal'.kept \in Owners
      /\ \A c \in DOMAIN journal'.complete : journal'.complete[c] \in Owners
  OBVIOUS
<1> QED BY <1>1, <1>2, <1>3, <1>4, <1>5, <1>6

LEMMA LeavesOpen ==
  ASSUME TypeInv, NEW i \in Unresolved(journal),
         Unresolved(journal') = Unresolved(journal) \ {i}
  PROVE  Open' = Open \ {i.path}
  BY DEF TypeInv, JournalRight, Open, OpenPaths

-----------------------------------------------------------------------------
(* WriteInv, step by step. *)

LEMMA StillWrites ==
  ASSUME WriteInv, Unresolved(journal') = Unresolved(journal), UNCHANGED <<log, io>>,
         discord'.done = discord.done, discord'.late = discord.late
  PROVE  WriteInv'
  BY SameOpen DEF WriteInv, LogInv, FlightInv

LEMMA StartsWrites ==
  ASSUME TypeInv, WriteInv, NEW path, NEW case, Starts(path, case)
  PROVE  WriteInv'
<1>1. Open' = Open \cup {path} /\ path \in Path \ Open
  BY StartsOpen DEF Starts
<1>2. log'[path] = Row("none", None) /\ \A p \in Path \ {path} : log'[p] = log[p]
  BY DEF Starts, TypeInv
<1>3. discord' = discord
  BY DEF Starts
<1>4. io'.path = path /\ io'.case = case /\ io'.at = "begun"
  BY DEF Starts, NoIo
<1>5. Intent(io'.path, io'.case) \in Unresolved(journal')
  BY <1>4, StartsOpen
<1>6. path \notin discord.done \cup discord.late
  BY <1>1 DEF WriteInv, LogInv, FlightInv
<1>7. LogInv'
  <2>1. discord'.done \cup discord'.late \subseteq Open' /\ discord'.done \cap discord'.late = {}
    BY <1>1, <1>2, <1>3, <1>4, <1>5, <1>6 DEF WriteInv, LogInv
  <2>2. \A p \in Path \ Open' : log'[p].is = "none"
    BY <1>1, <1>2, <1>3, <1>4, <1>5, <1>6 DEF WriteInv, LogInv, Row
  <2>3. \A p \in Path : log'[p].is \in {"none", "refused", "limited", "gone"} => p \notin discord'.done
    BY <1>1, <1>2, <1>3, <1>4, <1>5, <1>6 DEF WriteInv, LogInv, FlightInv, Row
  <2>4. \A p \in discord'.late : log'[p].is \in {"sent", "lost"}
    BY <1>1, <1>2, <1>3, <1>4, <1>5, <1>6, <2>1, OpenFacts DEF WriteInv, LogInv, FlightInv, Row
  <2>5. \A p \in Path : log'[p].is = "odd" => p = Create_
    BY <1>1, <1>2, <1>3, <1>4, <1>5, <1>6 DEF WriteInv, LogInv, FlightInv, Row
  <2> QED BY <2>1, <2>2, <2>3, <2>4, <2>5 DEF LogInv
<1>8. FlightInv'
  BY <1>1, <1>2, <1>3, <1>4, <1>5, <1>6 DEF WriteInv, LogInv, FlightInv, Row
<1> QED BY <1>7, <1>8 DEF WriteInv

LEMMA AttemptWrites ==
  ASSUME TypeInv, WriteInv, Attempt
  PROVE  WriteInv'
<1>1. io.path \in Path
  BY DEF TypeInv, IoRight, Attempt
<1>2. log'[io.path] = Row("sent", None) /\ \A p \in Path \ {io.path} : log'[p] = log[p]
  BY <1>1 DEF Attempt, TypeInv
<1>3. io'.path = io.path /\ io'.case = io.case /\ io'.at = "sent"
  BY DEF Attempt, TypeInv, IoRight, IsIo
<1>4. journal' = journal /\ discord' = discord /\ Open' = Open /\ io.at = "begun"
  BY DEF Attempt, Open, OpenPaths
<1>5. io.path \in Open
  BY <1>4, OpenFacts DEF WriteInv, LogInv, FlightInv, Intent
<1>6. io.path \notin discord.done
  BY <1>1, <1>4 DEF WriteInv, LogInv, FlightInv
<1>7. LogInv'
  <2>1. discord'.done \cup discord'.late \subseteq Open' /\ discord'.done \cap discord'.late = {}
    BY <1>1, <1>2, <1>3, <1>4, <1>5, <1>6 DEF WriteInv, LogInv
  <2>2. \A p \in Path \ Open' : log'[p].is = "none"
    BY <1>1, <1>2, <1>3, <1>4, <1>5, <1>6 DEF WriteInv, LogInv, Row
  <2>3. \A p \in Path : log'[p].is \in {"none", "refused", "limited", "gone"} => p \notin discord'.done
    BY <1>1, <1>2, <1>3, <1>4, <1>5, <1>6 DEF WriteInv, LogInv, FlightInv, Row
  <2>4. \A p \in discord'.late : log'[p].is \in {"sent", "lost"}
    BY <1>1, <1>2, <1>3, <1>4, <1>5, <1>6, <2>1, OpenFacts DEF WriteInv, LogInv, FlightInv, Row
  <2>5. \A p \in Path : log'[p].is = "odd" => p = Create_
    BY <1>1, <1>2, <1>3, <1>4, <1>5, <1>6 DEF WriteInv, LogInv, FlightInv, Row
  <2> QED BY <2>1, <2>2, <2>3, <2>4, <2>5 DEF LogInv
<1>8. FlightInv'
  BY <1>1, <1>2, <1>3, <1>4, <1>5, <1>6 DEF WriteInv, LogInv, FlightInv, Row
<1> QED BY <1>7, <1>8 DEF WriteInv

\* What Discord does with a write it accepts.
CarriedOut(p, d) ==
  /\ d \in World
  /\ d.done = discord.done \cup {p} /\ d.told = discord.told
  /\ p = Command => d.command = TRUE
  /\ p = Uncommand => d.command = FALSE
  /\ p \notin {Command, Uncommand} => d.command = discord.command
  /\ p = Create_ => d.removed = discord.removed /\ \E g \in Fresh : d.live = discord.live \cup {g}
  /\ \/ p = Create_
     \/ /\ d.live = discord.live /\ d.removed = discord.removed
        /\ \A e \in discord.live : p # Deletion(e)
     \/ \E e \in discord.live : /\ p = Deletion(e) /\ d.live = discord.live \ {e}
                               /\ d.removed = discord.removed \cup {e}

LEMMA PathKinds ==
  ASSUME NEW p \in Path
  PROVE  /\ p[1] = "create" <=> p = Create_
         /\ p[1] = "command" <=> p = Command
         /\ p[1] = "uncommand" <=> p = Uncommand
         /\ p[1] \in {"create", "command", "uncommand", "delete", "consume"}
         /\ p[1] = "delete" => p = Deletion(p[2]) /\ p[2] \in Owners
         /\ p[1] = "consume" => \A e : p # Deletion(e)
  BY DEF Path, Create_, Command, Uncommand, Deletion, Owners

LEMMA CarriedFacts ==
  ASSUME TypeInv, NEW p \in Path, NEW d \in Carried(p)
  PROVE  CarriedOut(p, d) /\ d.late = discord.late
<1> DEFINE c == [discord EXCEPT !.done = @ \cup {p}]
<1>1. discord \in World /\ c \in World
  BY DEF TypeInv, World
<1>2. Fresh \subseteq Ids
  BY DEF Fresh, Unused, Ids
<1>3. /\ Create_ # Command /\ Create_ # Uncommand /\ Command # Uncommand
      /\ \A e : Deletion(e) \notin {Create_, Command, Uncommand}
  BY DEF Create_, Command, Uncommand, Deletion
<1>4. CASE p = Create_
  <2>1. PICK g \in Fresh : d = [c EXCEPT !.live = @ \cup {g}]
    BY <1>4, PathKinds DEF Carried
  <2> QED BY <1>1, <1>2, <1>3, <1>4, <2>1 DEF CarriedOut, World
<1>5. CASE p = Command
  <2>1. d = [c EXCEPT !.command = TRUE]
    BY <1>5, PathKinds, <1>3 DEF Carried
  <2> QED BY <1>1, <1>3, <1>5, <2>1 DEF CarriedOut, World
<1>6. CASE p = Uncommand
  <2>1. d = [c EXCEPT !.command = FALSE]
    BY <1>6, PathKinds, <1>3 DEF Carried
  <2> QED BY <1>1, <1>3, <1>6, <2>1 DEF CarriedOut, World
<1>7. CASE p[1] = "delete" /\ p[2] \in discord.live
  <2>1. d = [c EXCEPT !.live = @ \ {p[2]}, !.removed = @ \cup {p[2]}]
    BY <1>7 DEF Carried
  <2>2. p = Deletion(p[2]) /\ p \notin {Create_, Command, Uncommand} /\ p[2] \in Ids
    BY <1>7, <1>1, PathKinds DEF World, Create_, Command, Uncommand
  <2> QED BY <1>1, <1>7, <2>1, <2>2 DEF CarriedOut, World
<1>8. CASE p \notin {Create_, Command, Uncommand} /\ ~(p[1] = "delete" /\ p[2] \in discord.live)
  <2>1. d = c
    BY <1>8, PathKinds DEF Carried
  <2>2. \A e \in discord.live : p # Deletion(e)
    BY <1>8 DEF Deletion
  <2> QED BY <1>1, <1>8, <2>1, <2>2 DEF CarriedOut, World
<1> QED BY <1>4, <1>5, <1>6, <1>7, <1>8

\* What Discord answers to the write in flight.
LEMMA ServeFacts ==
  ASSUME TypeInv, WriteInv, Serve
  PROVE  /\ io.at = "sent" /\ io'.at = "answered" /\ io'.path = io.path /\ io'.case = io.case
         /\ io'.answer \in Answers /\ io'.id \in Owners
         /\ io'.answer = "odd" => io.path = Create_
         /\ discord'.late = discord.late
         /\ discord'.done \in {discord.done, discord.done \cup {io.path}}
         /\ io'.answer \in {"refused", "limited", "gone"} => discord'.done = discord.done
         /\ journal' = journal /\ log' = log /\ discord' \in World
<1>1. io.path \in Path /\ io.at = "sent" /\ journal' = journal /\ log' = log
  BY DEF TypeInv, IoRight, Serve
<1>2. IsIo(io) /\ discord \in World /\ None \in Owners /\ Grants \subseteq Owners
  BY DEF TypeInv, IoRight, Owners, Ids
<1>3. ASSUME NEW answer, NEW id, Answer(answer, id)
      PROVE  /\ io'.at = "answered" /\ io'.path = io.path /\ io'.case = io.case
             /\ io'.answer = answer /\ io'.id = id
  BY <1>2, <1>3 DEF Answer, IsIo
<1>4. CASE \E answer \in {"refused", "limited", "gone"} :
             Answer(answer, None) /\ UNCHANGED discord
  BY <1>1, <1>2, <1>3, <1>4 DEF Answers
<1>5. CASE \E d \in Carried(io.path) : discord' = d /\ \E id \in Owners :
             Answer("ok", id) \/ (io.path = Create_ /\ Answer("odd", id))
  <2>1. PICK d \in Carried(io.path), id \in Owners :
          discord' = d /\ (Answer("ok", id) \/ (io.path = Create_ /\ Answer("odd", id)))
    BY <1>5
  <2>2. CarriedOut(io.path, discord') /\ discord'.late = discord.late
    BY <1>1, <2>1, CarriedFacts
  <2> QED BY <1>1, <1>3, <2>1, <2>2 DEF CarriedOut, Answers
<1>6. CASE io.path = Create_ /\ (\E id \in Owners : Answer("ok", id))
           /\ discord' = [discord EXCEPT !.done = @ \cup {Create_}]
  BY <1>1, <1>2, <1>3, <1>6 DEF Answers, World
<1>7. Fresh \subseteq Owners
  BY <1>2 DEF Fresh, Unused
<1> QED BY <1>2, <1>4, <1>5, <1>6, <1>7 DEF Serve

LEMMA ServeWrites ==
  ASSUME TypeInv, WriteInv, Serve
  PROVE  WriteInv'
<1>1. Open' = Open
  BY ServeFacts DEF Open, OpenPaths
<1>2. io.path \in Open /\ io.path \in Path
  BY ServeFacts, OpenFacts DEF WriteInv, LogInv, FlightInv, Intent
<1> QED BY ServeFacts, <1>1, <1>2 DEF WriteInv, LogInv, FlightInv

LEMMA ReceiveWrites ==
  ASSUME TypeInv, WriteInv, Receive
  PROVE  WriteInv'
<1>1. io.path \in Path /\ io.at = "answered"
  BY DEF TypeInv, IoRight, Receive
<1>2. log'[io.path] = Row(io.answer, io.id) /\ \A p \in Path \ {io.path} : log'[p] = log[p]
  BY <1>1 DEF Receive, TypeInv
<1>3. io'.path = io.path /\ io'.case = io.case /\ io'.answer = io.answer /\ io'.id = io.id
  BY DEF Receive, TypeInv, IoRight, IsIo
<1>4. io'.at = "received" \/ (io'.at = "begun" /\ io.answer = "limited")
  BY DEF Receive, TypeInv, IoRight, IsIo
<1>5. journal' = journal /\ discord' = discord /\ Open' = Open
  BY DEF Receive, Open, OpenPaths
<1>6. io.path \in Open
  BY <1>1, OpenFacts DEF WriteInv, LogInv, FlightInv, Intent
<1>7. LogInv'
  <2>1. discord'.done \cup discord'.late \subseteq Open' /\ discord'.done \cap discord'.late = {}
    BY <1>1, <1>2, <1>3, <1>4, <1>5, <1>6 DEF WriteInv, LogInv
  <2>2. \A p \in Path \ Open' : log'[p].is = "none"
    BY <1>1, <1>2, <1>3, <1>4, <1>5, <1>6 DEF WriteInv, LogInv, Row
  <2>3. \A p \in Path : log'[p].is \in {"none", "refused", "limited", "gone"} => p \notin discord'.done
    <3>1. io.answer \in {"refused", "limited", "gone"} => io.path \notin discord.done
      BY <1>1 DEF WriteInv, FlightInv
    <3>2. log'[io.path].is = io.answer /\ io.answer # "none"
      BY <1>1, <1>2 DEF Row, TypeInv, IoRight, Answers
    <3> QED BY <1>2, <1>5, <3>1, <3>2 DEF WriteInv, LogInv
  <2>4. \A p \in discord'.late : log'[p].is \in {"sent", "lost"}
    BY <1>1, <1>2, <1>3, <1>4, <1>5, <1>6, <2>1, OpenFacts DEF WriteInv, LogInv, FlightInv, Row
  <2>5. \A p \in Path : log'[p].is = "odd" => p = Create_
    BY <1>1, <1>2, <1>3, <1>4, <1>5, <1>6 DEF WriteInv, LogInv, FlightInv, Row
  <2> QED BY <2>1, <2>2, <2>3, <2>4, <2>5 DEF LogInv
<1>8. FlightInv'
  BY <1>1, <1>2, <1>3, <1>4, <1>5, <1>6 DEF WriteInv, LogInv, FlightInv, Row
<1> QED BY <1>7, <1>8 DEF WriteInv

LEMMA LateFacts ==
  ASSUME TypeInv, WriteInv, Late
  PROVE  /\ journal' = journal /\ log' = log /\ io' = io /\ run' = run
         /\ \E p \in discord.late : p \in Path /\ CarriedOut(p, discord')
                                /\ discord'.late = discord.late \ {p}
<1>1. PICK p \in discord.late :
        \E d \in Carried(p) : discord' = [d EXCEPT !.late = @ \ {p}]
  BY DEF Late
<1>2. PICK d \in Carried(p) : discord' = [d EXCEPT !.late = @ \ {p}]
  BY <1>1
<1>3. p \in Path /\ CarriedOut(p, d) /\ d.late = discord.late
  BY CarriedFacts DEF TypeInv, World
<1>4. CarriedOut(p, discord') /\ discord'.late = discord.late \ {p}
  BY <1>2, <1>3 DEF CarriedOut, World
<1> QED BY <1>3, <1>4 DEF Late

LEMMA LateWrites ==
  ASSUME TypeInv, WriteInv, Late
  PROVE  WriteInv'
<1>1. PICK p \in discord.late : p \in Path /\ CarriedOut(p, discord')
                             /\ discord'.late = discord.late \ {p}
  BY LateFacts
<1>2. discord'.done = discord.done \cup {p}
  BY <1>1 DEF CarriedOut
<1>3. journal' = journal /\ log' = log /\ io' = io /\ Open' = Open
  BY LateFacts DEF Open, OpenPaths
<1>4. log[p].is \in {"sent", "lost"} /\ p \in Open
  BY DEF WriteInv, LogInv
<1>5. LogInv'
  BY <1>1, <1>2, <1>3, <1>4 DEF WriteInv, LogInv
<1>6. FlightInv'
  BY <1>1, <1>2, <1>3, <1>4 DEF WriteInv, FlightInv
<1> QED BY <1>5, <1>6 DEF WriteInv

LEMMA DropsFacts ==
  ASSUME TypeInv, WriteInv, Drops
  PROVE  /\ Open' = Open /\ io'.at = "none"
         /\ DOMAIN log' = Path
         /\ \A p \in Path : log'[p] = log[p] \/ (p = io.path /\ log'[p] = Row("lost", None))
         /\ \A p \in Path : p = io.path /\ io.at = "sent" => log'[p].is \in {"sent", "lost"}
         /\ \A p \in Path : log'[p] # log[p] => p \in Open /\ io.at \in {"sent", "answered"}
         /\ discord' = [discord EXCEPT !.late = discord'.late]
         /\ discord'.late = discord.late \/ (io.at = "sent" /\ io.path \in Open
                                           /\ discord'.late = discord.late \cup {io.path})
<1>1. Open' = Open /\ io'.at = "none"
  BY SameOpen DEF Drops, BooksKept, NoIo
<1>2. io.at # "none" => io.path \in Open /\ io.path \in Path
  BY OpenFacts DEF WriteInv, FlightInv, Intent
<1>3. io.at = "sent" => log[io.path].is = "sent"
  BY DEF WriteInv, FlightInv
<1>4. discord \in World /\ log \in [Path -> [is : RowKinds, id : Owners]]
  BY DEF TypeInv
<1>5. /\ discord' = [discord EXCEPT !.late = discord'.late]
      /\ discord'.late = discord.late \/ (io.at = "sent" /\ io.path \in Open
                                        /\ discord'.late = discord.late \cup {io.path})
  BY <1>2, <1>4 DEF Drops, Orphaned, World
<1>6. CASE log' = log
  BY <1>1, <1>2, <1>3, <1>4, <1>5, <1>6
<1>7. CASE io.at \in {"sent", "answered"} /\ log' = [log EXCEPT ![io.path] = Row("lost", None)]
  BY <1>1, <1>2, <1>3, <1>4, <1>5, <1>7 DEF Row
<1> QED BY <1>6, <1>7 DEF Drops

LEMMA DropsWrites ==
  ASSUME TypeInv, WriteInv, Drops
  PROVE  WriteInv'
<1>1. discord'.done = discord.done /\ discord \in World
  BY DropsFacts DEF TypeInv, World
<1>2. FlightInv'
  BY DropsFacts DEF FlightInv
<1>3. discord'.done \cup discord'.late \subseteq Open' /\ discord'.done \cap discord'.late = {}
  BY <1>1, DropsFacts DEF WriteInv, LogInv, FlightInv
<1>4. \A p \in Path \ Open' : log'[p].is = "none"
  BY DropsFacts DEF WriteInv, LogInv
<1>5. \A p \in Path : log'[p].is \in {"none", "refused", "limited", "gone"} => p \notin discord'.done
  BY <1>1, DropsFacts DEF WriteInv, LogInv, Row
<1>6. \A p \in discord'.late : log'[p].is \in {"sent", "lost"}
  BY <1>1, <1>3, DropsFacts, OpenFacts DEF WriteInv, LogInv, Row
<1>7. \A p \in Path : log'[p].is = "odd" => p = Create_
  BY DropsFacts DEF WriteInv, LogInv, Row
<1> QED BY <1>2, <1>3, <1>4, <1>5, <1>6, <1>7 DEF WriteInv, LogInv

\* An intent that leaves the journal takes its log with it.
Leaves(i) ==
  /\ i \in Unresolved(journal) /\ Unresolved(journal') = Unresolved(journal) \ {i}
  /\ Forget(i.path) /\ io'.at = "none" /\ log[i.path].is \notin {"sent", "lost"}

LEMMA LeavesWrites ==
  ASSUME TypeInv, WriteInv, NEW i, Leaves(i)
  PROVE  WriteInv'
<1>1. Open' = Open \ {i.path} /\ i.path \in Path
  BY LeavesOpen, OpenFacts DEF Leaves
<1>2. log'[i.path] = Row("none", None) /\ \A p \in Path \ {i.path} : log'[p] = log[p]
  BY <1>1 DEF Leaves, Forget, TypeInv
<1>3. discord'.done = discord.done \ {i.path} /\ discord'.late = discord.late
  BY DEF Leaves, Forget, TypeInv, World
<1>4. i.path \notin discord.late
  BY DEF Leaves, WriteInv, LogInv
<1>5. LogInv'
  BY <1>1, <1>2, <1>3, <1>4, OpenFacts DEF WriteInv, LogInv, Row
<1>6. FlightInv'
  BY DEF Leaves, FlightInv
<1> QED BY <1>5, <1>6 DEF WriteInv

-----------------------------------------------------------------------------
(* Every step keeps what Writes promises. *)

Promised == Promise!Next \/ UNCHANGED <<Open, Carrying, Known>>

LEMMA StillPromised ==
  ASSUME Unresolved(journal') = Unresolved(journal), log' = log, discord'.done = discord.done
  PROVE  Promised
  BY SameOpen DEF Promised, Known, Carrying

LEMMA StartsPromised ==
  ASSUME TypeInv, WriteInv, NEW path, NEW case, Starts(path, case)
  PROVE  Promised
<1>1. Open' = Open \cup {path} /\ path \in Path \ Open
  BY StartsOpen DEF Starts
<1>2. log'[path] = Row("none", None) /\ \A p \in Path \ {path} : log'[p] = log[p]
  BY DEF Starts, TypeInv
<1>3. Known' = Known
  BY <1>1, <1>2, OpenFacts DEF Known, Row
<1>4. Carrying' = Carrying
  BY DEF Carrying, Starts
<1>5. Promise!Open(path)
  BY <1>1, <1>3, <1>4 DEF Promise!Open
<1> QED BY <1>1, <1>5 DEF Promised, Promise!Next

\* The last answer to a write on disk may change.
LEMMA HearPromised ==
  ASSUME TypeInv, Open' = Open, Carrying' = Carrying, NEW p \in Path, p \in Open,
         \A q \in Path \ {p} : log'[q] = log[q]
  PROVE  Promised
<1>1. Known' \in {Known \cup {p}, Known \ {p}}
  <2>1. CASE log'[p].is \in {"none", "sent", "lost"}
    BY <2>1, OpenFacts DEF Known
  <2>2. CASE log'[p].is \notin {"none", "sent", "lost"}
    BY <2>2, OpenFacts DEF Known
  <2> QED BY <2>1, <2>2
<1>2. Promise!Hear(p)
  BY <1>1 DEF Promise!Hear
<1> QED BY <1>2 DEF Promised, Promise!Next

LEMMA AttemptPromised ==
  ASSUME TypeInv, WriteInv, Attempt \/ Receive
  PROVE  Promised
<1>1. io.path \in Path /\ io.at # "none"
  BY DEF TypeInv, IoRight, Attempt, Receive
<1>2. \A q \in Path \ {io.path} : log'[q] = log[q]
  BY <1>1 DEF Attempt, Receive, TypeInv
<1>3. Open' = Open /\ Carrying' = Carrying
  BY DEF Attempt, Receive, Open, OpenPaths, Carrying
<1>4. io.path \in Open
  BY <1>1, OpenFacts DEF WriteInv, FlightInv, Intent
<1> QED BY <1>1, <1>2, <1>3, <1>4, HearPromised

LEMMA DropsPromised ==
  ASSUME TypeInv, WriteInv, Drops
  PROVE  Promised
<1>1. Open' = Open /\ Carrying' = Carrying
  BY DropsFacts DEF Carrying, TypeInv, World
<1>2. CASE log' = log
  BY <1>1, <1>2 DEF Promised, Known
<1>3. CASE io.at \in {"sent", "answered"} /\ log' = [log EXCEPT ![io.path] = Row("lost", None)]
  <2>1. io.path \in Path /\ io.path \in Open
    BY <1>3, OpenFacts DEF WriteInv, FlightInv, Intent
  <2> QED BY <1>1, <1>3, <2>1, HearPromised DEF TypeInv
<1> QED BY <1>2, <1>3 DEF Drops

LEMMA CarryPromised ==
  ASSUME TypeInv, NEW p \in Open \ discord.done, journal' = journal, log' = log,
         discord'.done = discord.done \cup {p}
  PROVE  Promised
<1>1. Open' = Open /\ Known' = Known
  BY DEF Open, OpenPaths, Known
<1>2. Promise!CarryOut(p)
  BY <1>1 DEF Promise!CarryOut, Carrying
<1> QED BY <1>2, OpenFacts DEF Promised, Promise!Next

LEMMA ServePromised ==
  ASSUME TypeInv, WriteInv, Serve
  PROVE  Promised
<1>1. io.path \in Open \ discord.done
  BY ServeFacts, OpenFacts DEF WriteInv, FlightInv, Intent
<1> QED BY <1>1, ServeFacts, StillPromised, CarryPromised

LEMMA LatePromised ==
  ASSUME TypeInv, WriteInv, Late
  PROVE  Promised
<1>1. PICK p \in discord.late : p \in Path /\ CarriedOut(p, discord')
                             /\ discord'.late = discord.late \ {p}
  BY LateFacts
<1>2. discord'.done = discord.done \cup {p} /\ p \in Open \ discord.done
  BY <1>1 DEF CarriedOut, WriteInv, LogInv
<1> QED BY <1>2, LateFacts, CarryPromised

LEMMA LeavesPromised ==
  ASSUME TypeInv, WriteInv, NEW i, Leaves(i)
  PROVE  Promised
<1>1. Open' = Open \ {i.path} /\ i.path \in Path /\ i.path \in Open
  BY LeavesOpen, OpenFacts DEF Leaves
<1>2. log'[i.path] = Row("none", None) /\ \A p \in Path \ {i.path} : log'[p] = log[p]
  BY <1>1 DEF Leaves, Forget, TypeInv
<1>3. Carrying' = Carrying \ {i.path}
  BY DEF Leaves, Forget, TypeInv, World, Carrying
<1>4. Known' = Known \ {i.path}
  BY <1>1, <1>2, OpenFacts DEF Known
<1>5. i.path \in Carrying => i.path \in Known
  BY <1>1 DEF Leaves, Known, Carrying, WriteInv, LogInv
<1>6. Promise!Close(i.path)
  BY <1>1, <1>3, <1>4, <1>5 DEF Promise!Close
<1> QED BY <1>1, <1>6 DEF Promised, Promise!Next

-----------------------------------------------------------------------------
(* OwnInv and CommandInv, step by step. *)

AnswersKept ==
  \A p \in Path, id \in Owners :
    /\ AnsweredAs(p, {"ok", "gone"}, id)' => AnsweredAs(p, {"ok", "gone"}, id)
    /\ AnsweredAs(p, {"ok"}, id)' => AnsweredAs(p, {"ok"}, id)

LEMMA PathsKnown ==
  /\ Create_ \in Path /\ Command \in Path /\ Uncommand \in Path
  /\ Create_ # Command /\ Create_ # Uncommand /\ Command # Uncommand
  /\ \A e \in Owners : /\ Deletion(e) \in Path
                       /\ Deletion(e) \notin {Create_, Command, Uncommand}
  /\ \A e, g \in Owners : Deletion(e) = Deletion(g) => e = g
  /\ Grants \subseteq Owners /\ History \in Owners /\ Purchase \in Owners /\ None \in Owners
  /\ History \notin Grants /\ Purchase \notin Grants /\ None \notin Ids /\ History # Purchase
  BY RecorderAssumption DEF Path, Create_, Command, Uncommand, Deletion, Owners, Ids

\* Steps that leave the grants, the command and what is known of the answers.
LEMMA QuietOwn ==
  ASSUME OwnInv, CommandInv, BooksKept, AnswersKept,
         discord'.live = discord.live, discord'.removed = discord.removed,
         discord'.done = discord.done, discord'.command = discord.command
  PROVE  OwnInv' /\ CommandInv'
<1>1. Open' = Open /\ Owned(journal)' = Owned(journal)
  BY SameOpen DEF BooksKept, Owned
<1>2. HeldInv' /\ IntentInv' /\ ForeignInv'
  BY <1>1 DEF OwnInv, HeldInv, IntentInv, ForeignInv, BooksKept
<1>3. AnswerInv'
  BY PathsKnown DEF OwnInv, AnswerInv, AnswersKept, Loose, BooksKept
<1>4. CommandInv'
  BY <1>1, PathsKnown DEF CommandInv, AnswersKept, BooksKept
<1> QED BY <1>2, <1>3, <1>4 DEF OwnInv

LEMMA StillOwn ==
  ASSUME OwnInv, CommandInv, Still
  PROVE  OwnInv' /\ CommandInv'
<1>1. AnswersKept
  BY DEF Still, AnswersKept, AnsweredAs
<1> QED BY <1>1, QuietOwn DEF Still, DiscordKept

LEMMA AttemptOwn ==
  ASSUME Sound, Attempt \/ Receive
  PROVE  OwnInv' /\ CommandInv'
<1>1. io.path \in Path /\ log \in [Path -> [is : RowKinds, id : Owners]] /\ IsIo(io)
  BY DEF Sound, TypeInv, IoRight, Attempt, Receive
<1>2. BooksKept /\ discord' = discord
  BY DEF Attempt, Receive, BooksKept
<1>3. CASE Attempt
  <2>1. log'[io.path].is = "sent" /\ \A p \in Path \ {io.path} : log'[p] = log[p]
    BY <1>1, <1>3 DEF Attempt, Row
  <2>2. io'.at = "sent"
    BY <1>1, <1>3 DEF Attempt, IsIo
  <2>3. AnswersKept
    BY <2>1, <2>2 DEF AnswersKept, AnsweredAs
  <2> QED BY <1>2, <2>3, QuietOwn DEF Sound
<1>4. CASE Receive
  <2>1. /\ log'[io.path].is = io.answer /\ log'[io.path].id = io.id
        /\ \A p \in Path \ {io.path} : log'[p] = log[p]
    BY <1>1, <1>4 DEF Receive, Row
  <2>2. io'.at \in {"begun", "received"} /\ io.at = "answered"
    BY <1>1, <1>4 DEF Receive, IsIo
  <2>3. AnswersKept
    BY <2>1, <2>2 DEF AnswersKept, AnsweredAs
  <2> QED BY <1>2, <2>3, QuietOwn DEF Sound
<1> QED BY <1>3, <1>4

LEMMA DropsOwn ==
  ASSUME Sound, Drops
  PROVE  OwnInv' /\ CommandInv'
<1>1. AnswersKept
  BY DropsFacts DEF Sound, AnswersKept, AnsweredAs, Row
<1>2. /\ discord'.live = discord.live /\ discord'.removed = discord.removed
      /\ discord'.done = discord.done /\ discord'.command = discord.command
  BY DropsFacts DEF Sound, TypeInv, World
<1> QED BY <1>1, <1>2, QuietOwn DEF Sound, Drops

\* What a write that begins must find.
Due(path) ==
  /\ path = Create_ => Earlier \subseteq journal.baseline
  /\ \A e \in Grants : path = Deletion(e) => e \in Owned(journal)
  /\ path = Deletion(History) => History \in journal.authorized
  /\ path = Deletion(Purchase) => Purchase \in journal.manual /\ journal.prompted
  /\ path = Uncommand => journal.command = "held"
  /\ path = Command => journal.command # "held"

LEMMA StartsOwn ==
  ASSUME Sound, NEW path, NEW case, Starts(path, case), Due(path)
  PROVE  OwnInv' /\ CommandInv'
<1>1. /\ Open' = Open \cup {path} /\ discord' = discord /\ Owned(journal)' = Owned(journal)
      /\ journal'.held = journal.held
      /\ journal'.command = journal.command /\ journal'.baseline = journal.baseline
      /\ journal'.manual = journal.manual /\ journal'.authorized = journal.authorized
      /\ journal'.prompted = journal.prompted
  BY StartsOpen DEF Starts, Owned, Sound
<1>2. AnswersKept
  BY DEF Sound, TypeInv, Starts, AnswersKept, AnsweredAs, Row, NoIo
<1>3. HeldInv' /\ IntentInv' /\ ForeignInv'
  BY <1>1 DEF Sound, OwnInv, HeldInv, IntentInv, ForeignInv, Due
<1>4. AnswerInv'
  BY <1>1, <1>2, PathsKnown DEF Sound, OwnInv, AnswerInv, AnswersKept, Loose
<1>5. CommandInv'
  BY <1>1, <1>2, PathsKnown DEF Sound, CommandInv, AnswersKept, Due
<1> QED BY <1>3, <1>4, <1>5 DEF OwnInv

LEMMA ServeCases ==
  ASSUME TypeInv, Serve
  PROVE  \/ /\ discord' = discord /\ io'.answer \in {"refused", "limited", "gone"}
            /\ io'.answer = "gone" => Missing(io.path)
         \/ /\ CarriedOut(io.path, discord') /\ io'.answer \in {"ok", "odd"} /\ ~Missing(io.path)
            /\ io.path = Create_ => io'.id \in Fresh
         \/ /\ io.path = Create_ /\ io'.answer = "ok" /\ io'.id \in Grants \ Unused
            /\ discord' = [discord EXCEPT !.done = @ \cup {Create_}]
<1>1. io.path \in Path /\ IsIo(io)
  BY DEF TypeInv, IoRight, Serve
<1>2. ASSUME NEW answer, NEW id, Answer(answer, id)
      PROVE  io'.answer = answer /\ io'.id = id
  BY <1>1, <1>2 DEF Answer, IsIo
<1> QED BY <1>1, <1>2, CarriedFacts DEF Serve

\* The least unused id is one.
LEMMA FreshOne ==
  ASSUME NEW g \in Fresh, NEW h \in Fresh
  PROVE  g = h /\ g \in Unused
<1>1. g \in Nat /\ h \in Nat /\ g <= h /\ h <= g
  BY RecorderAssumption DEF Fresh, Unused
<1> QED BY <1>1 DEF Fresh

\* Carrying out a write changes what it names.
LEMMA CarriedHeld ==
  ASSUME Sound, NEW p \in Open, CarriedOut(p, discord'), journal' = journal
  PROVE  HeldInv' /\ IntentInv' /\ ForeignInv' /\ discord.removed \subseteq discord'.removed
<1>1. Open' = Open /\ Owned(journal)' = Owned(journal)
  BY DEF Open, OpenPaths, Owned
<1>2. discord.live \subseteq Ids /\ discord.removed \subseteq Ids
  BY DEF Sound, TypeInv, World
<1>3. CASE p = Create_
  <2>1. PICK g \in Fresh : discord'.live = discord.live \cup {g}
    BY <1>3 DEF CarriedOut
  <2>2. g \in Unused /\ discord'.removed = discord.removed
    BY <1>3, <2>1, FreshOne DEF CarriedOut
  <2> QED BY <1>1, <2>1, <2>2 DEF Sound, OwnInv, HeldInv, IntentInv, ForeignInv, Unused
<1>4. CASE discord'.live = discord.live /\ discord'.removed = discord.removed
  BY <1>1, <1>4 DEF Sound, OwnInv, HeldInv, IntentInv, ForeignInv
<1>5. ASSUME NEW e \in discord.live, p = Deletion(e), discord'.live = discord.live \ {e},
             discord'.removed = discord.removed \cup {e}
      PROVE  HeldInv' /\ IntentInv' /\ ForeignInv' /\ discord.removed \subseteq discord'.removed
  <2>1. e \in Grants => e \in Owned(journal)
    BY <1>5 DEF Sound, OwnInv, IntentInv
  <2>2. HeldInv'
    BY <1>1, <1>5, <2>1 DEF Sound, OwnInv, HeldInv
  <2>3. IntentInv' /\ ForeignInv'
    BY <1>1, <1>5, PathsKnown DEF Sound, OwnInv, IntentInv, ForeignInv
  <2> QED BY <1>5, <2>2, <2>3
<1> QED BY <1>3, <1>4, <1>5 DEF CarriedOut

\* Only a create that is carried out makes a grant the journal does not hold.
LEMMA CarriedLoose ==
  ASSUME Sound, NEW p \in Open, CarriedOut(p, discord'), journal' = journal
  PROVE  /\ p # Create_ => Loose' \subseteq Loose /\ discord'.live \cup discord'.removed
                                             = discord.live \cup discord.removed
         /\ p = Create_ => /\ \E g \in Fresh : /\ Loose' = Loose \cup {g}
                                             /\ g \in Grants \cap discord'.live
                          /\ discord.live \subseteq discord'.live
  BY FreshOne DEF CarriedOut, Loose, Fresh, Unused, Sound, OwnInv, HeldInv, Owned

LEMMA ServeOwn ==
  ASSUME Sound, Serve
  PROVE  OwnInv' /\ CommandInv'
<1> DEFINE p == io.path
<1>1. /\ p \in Open /\ p \in Path /\ p \notin discord.done /\ log[p].is = "sent"
      /\ io.at = "sent" /\ io'.at = "answered" /\ io'.path = p /\ journal' = journal /\ log' = log
  BY ServeFacts, OpenFacts DEF Sound, WriteInv, FlightInv, Intent
<1>2. Open' = Open /\ Owned(journal)' = Owned(journal)
  BY <1>1 DEF Open, OpenPaths, Owned
<1>3. \A q \in Path, id \in Owners :
         AnsweredAs(q, {"ok"}, id)' => \/ AnsweredAs(q, {"ok"}, id) /\ q # p
                                       \/ q = p /\ io'.answer = "ok" /\ io'.id = id
  BY <1>1 DEF AnsweredAs
<1>4. \A q \in Path, id \in Owners :
        AnsweredAs(q, {"ok", "gone"}, id)' => \/ AnsweredAs(q, {"ok", "gone"}, id) /\ q # p
                                              \/ q = p /\ io'.answer \in {"ok", "gone"}
  BY <1>1 DEF AnsweredAs
<1>5. CASE /\ discord' = discord /\ io'.answer \in {"refused", "limited", "gone"}
           /\ io'.answer = "gone" => Missing(io.path)
  <2>1. HeldInv' /\ IntentInv' /\ ForeignInv'
    BY <1>1, <1>2, <1>5 DEF Sound, OwnInv, HeldInv, IntentInv, ForeignInv
  <2>2. ASSUME NEW e \in Grants, p = Deletion(e), io'.answer = "gone"
        PROVE  e \in discord.removed
    <3>1. e \notin discord.live
      BY <1>5, <2>2 DEF Missing, Deletion, Uncommand
    <3> QED BY <1>1, <2>2, <3>1 DEF Sound, OwnInv, IntentInv, HeldInv
  <2>3. AnswerInv'
    BY <1>1, <1>3, <1>4, <1>5, <2>2, PathsKnown DEF Sound, OwnInv, AnswerInv, Loose
  <2>4. p = Uncommand /\ io'.answer = "gone" => ~discord.command
    BY <1>5 DEF Missing, Uncommand
  <2>5. CommandInv'
    BY <1>1, <1>2, <1>3, <1>4, <1>5, <2>4, PathsKnown DEF Sound, CommandInv
  <2> QED BY <2>1, <2>3, <2>5 DEF OwnInv
<1>6. CASE /\ CarriedOut(p, discord') /\ io'.answer \in {"ok", "odd"} /\ ~Missing(p)
           /\ p = Create_ => io'.id \in Fresh
  <2>1. HeldInv' /\ IntentInv' /\ ForeignInv' /\ discord.removed \subseteq discord'.removed
    BY <1>1, <1>6, CarriedHeld
  <2>2. discord'.done = discord.done \cup {p}
    BY <1>6 DEF CarriedOut
  <2>3. ASSUME p = Create_ PROVE AnswerInv'
    <3>1. PICK g \in Fresh : Loose' = Loose \cup {g} /\ g \in Grants \cap discord'.live
      BY <1>1, <1>6, <2>3, CarriedLoose
    <3>2. Loose = {} /\ io'.id = g
      BY <1>1, <1>6, <2>3, <3>1, FreshOne DEF Sound, OwnInv, AnswerInv
    <3>3. \A e \in Grants, id \in Owners :
            AnsweredAs(Deletion(e), {"ok", "gone"}, id)' => e \in discord'.removed
      BY <1>4, <2>1, <2>3, PathsKnown DEF Sound, OwnInv, AnswerInv
    <3>4. \A id \in Owners : AnsweredAs(Create_, {"ok"}, id)' => id = g
      BY <1>3, <2>3, <3>2, PathsKnown
    <3> QED BY <2>2, <2>3, <3>1, <3>2, <3>3, <3>4 DEF AnswerInv
  <2>4. ASSUME p # Create_ PROVE AnswerInv'
    <3>1. Loose' \subseteq Loose /\ discord'.live \cup discord'.removed
                                  = discord.live \cup discord.removed
      BY <1>1, <1>6, <2>4, CarriedLoose
    <3>2. ASSUME NEW e \in Grants, p = Deletion(e)
          PROVE  e \in discord'.removed
      <4>1. e \in discord.live
        BY <1>6, <3>2 DEF Missing, Deletion
      <4>2. PICK x \in discord.live : p = Deletion(x) /\ discord'.removed = discord.removed \cup {x}
        BY <1>6, <2>4, <3>2, <4>1 DEF CarriedOut
      <4>3. x = e
        BY <3>2, <4>2 DEF Deletion
      <4> QED BY <4>2, <4>3
    <3>3. \A e \in Grants, id \in Owners :
            AnsweredAs(Deletion(e), {"ok", "gone"}, id)' => e \in discord'.removed
      BY <1>3, <1>4, <2>1, <3>2, PathsKnown DEF Sound, OwnInv, AnswerInv
    <3>4. ASSUME NEW id \in Owners, AnsweredAs(Create_, {"ok"}, id)'
          PROVE  AnsweredAs(Create_, {"ok"}, id)
      BY <1>3, <2>4, <3>4, PathsKnown
    <3> QED BY <2>2, <2>4, <3>1, <3>3, <3>4 DEF Sound, OwnInv, AnswerInv
  <2>5. AnswerInv'
    BY <2>3, <2>4
  <2>6. CommandInv'
    <3>1. CASE p = Command
      <4>1. \A id \in Owners : ~AnsweredAs(Uncommand, {"ok", "gone"}, id)'
        BY <1>1, <1>3, <1>4, <3>1, PathsKnown
           DEF Sound, CommandInv, WriteInv, LogInv, AnsweredAs
      <4> QED BY <1>1, <1>2, <2>2, <3>1, <4>1 DEF Sound, CommandInv
    <3>2. CASE p = Uncommand
      BY <1>1, <1>2, <1>6, <3>2, PathsKnown DEF Sound, CommandInv, CarriedOut
    <3>3. CASE p \notin {Command, Uncommand}
      BY <1>1, <1>2, <1>3, <1>4, <1>6, <2>2, <3>3, PathsKnown DEF Sound, CommandInv, CarriedOut
    <3> QED BY <3>1, <3>2, <3>3
  <2> QED BY <2>1, <2>5, <2>6 DEF OwnInv
<1>7. CASE /\ p = Create_ /\ io'.answer = "ok" /\ io'.id \in Grants \ Unused
           /\ discord' = [discord EXCEPT !.done = @ \cup {Create_}]
  <2>1. /\ discord'.live = discord.live /\ discord'.removed = discord.removed
        /\ discord'.command = discord.command /\ discord'.done = discord.done \cup {Create_}
    BY <1>7 DEF Sound, TypeInv, World
  <2>2. Loose = {} /\ Loose' = Loose /\ io'.id \in discord.live \cup discord.removed
    BY <1>1, <1>7, <2>1 DEF Sound, OwnInv, AnswerInv, Loose, Unused
  <2>3. HeldInv' /\ IntentInv' /\ ForeignInv'
    BY <1>1, <1>2, <2>1 DEF Sound, OwnInv, HeldInv, IntentInv, ForeignInv
  <2>4. AnswerInv'
    BY <1>3, <1>4, <1>7, <2>1, <2>2, PathsKnown DEF Sound, OwnInv, AnswerInv
  <2>5. CommandInv'
    BY <1>1, <1>2, <1>3, <1>4, <1>7, <2>1, PathsKnown DEF Sound, CommandInv
  <2> QED BY <2>3, <2>4, <2>5 DEF OwnInv
<1> QED BY <1>5, <1>6, <1>7, ServeCases DEF Sound

LEMMA LateOwn ==
  ASSUME Sound, Late
  PROVE  OwnInv' /\ CommandInv'
<1>1. PICK p \in discord.late : p \in Path /\ CarriedOut(p, discord')
  BY LateFacts DEF Sound
<1>2. /\ journal' = journal /\ log' = log /\ io' = io /\ p \in Open /\ p \notin discord.done
      /\ log[p].is \in {"sent", "lost"} /\ (io.at # "none" => io.path # p)
  BY LateFacts DEF Sound, WriteInv, LogInv, FlightInv
<1>3. Open' = Open /\ Owned(journal)' = Owned(journal) /\ discord'.done = discord.done \cup {p}
  BY <1>1, <1>2 DEF Open, OpenPaths, Owned, CarriedOut
<1>4. \A id : ~AnsweredAs(p, {"ok"}, id) /\ ~AnsweredAs(p, {"ok", "gone"}, id)
  BY <1>2 DEF AnsweredAs
<1>5. AnswersKept
  BY <1>2 DEF AnswersKept, AnsweredAs
<1>6. HeldInv' /\ IntentInv' /\ ForeignInv' /\ discord.removed \subseteq discord'.removed
  BY <1>1, <1>2, CarriedHeld
<1>7. AnswerInv'
  <2>1. CASE p = Create_
    BY <1>3, <1>4, <1>5, <1>6, <2>1, PathsKnown DEF Sound, OwnInv, AnswerInv, AnswersKept
  <2>2. CASE p # Create_
    <3>1. Loose' \subseteq Loose /\ discord'.live \cup discord'.removed
                                  = discord.live \cup discord.removed
      BY <1>1, <1>2, <2>2, CarriedLoose
    <3> QED BY <1>3, <1>5, <1>6, <2>2, <3>1, PathsKnown DEF Sound, OwnInv, AnswerInv, AnswersKept
  <2> QED BY <2>1, <2>2
<1>8. CommandInv'
  <2>1. CASE p = Command
    <3>1. \A id \in Owners : ~AnsweredAs(Uncommand, {"ok", "gone"}, id)'
      <4>1. Uncommand \notin Open
        BY <1>2, <2>1 DEF Sound, CommandInv
      <4>2. log[Uncommand].is = "none" /\ (io.at # "none" => io.path # Uncommand)
        BY <4>1, PathsKnown, OpenFacts DEF Sound, WriteInv, LogInv, FlightInv, Intent
      <4> QED BY <1>2, <4>2 DEF AnsweredAs
    <3> QED BY <1>2, <1>3, <2>1, <3>1 DEF Sound, CommandInv
  <2>2. CASE p = Uncommand
    BY <1>1, <1>2, <1>3, <1>4, <2>2, PathsKnown DEF Sound, CommandInv, CarriedOut
  <2>3. CASE p \notin {Command, Uncommand}
    BY <1>1, <1>2, <1>3, <1>5, <2>3, PathsKnown DEF Sound, CommandInv, CarriedOut, AnswersKept
  <2> QED BY <2>1, <2>2, <2>3
<1> QED BY <1>6, <1>7, <1>8 DEF OwnInv

\* What an intent that leaves the journal makes of it.
Clears(i) ==
  LET p == i.path  row == log[i.path]  k == journal' IN
  /\ Leaves(i)
  /\ k.baseline = journal.baseline /\ k.manual = journal.manual
  /\ k.authorized = journal.authorized /\ k.prompted = journal.prompted
  /\ row.is \in {"ok", "odd"} => Settleable(journal, p, row.is, row.id)
  /\ \/ p = Create_ /\ row.is = "ok" /\ k.held = journal.held \cup {row.id} /\ k.deleted = journal.deleted
     \/ \E e \in journal.held : /\ p = Deletion(e) /\ row.is \in {"ok", "gone"}
                                /\ k.held = journal.held \ {e} /\ k.deleted = journal.deleted \cup {e}
     \/ ~(p = Create_ /\ row.is = "ok") /\ k.held = journal.held /\ k.deleted = journal.deleted
  /\ \/ p = Command /\ row.is = "ok" /\ k.command = "held"
     \/ p = Uncommand /\ row.is \in {"ok", "gone"} /\ k.command = "deleted"
     \/ ~(p = Command /\ row.is = "ok") /\ k.command = journal.command

LEMMA ClearsOwn ==
  ASSUME Sound, NEW i, Clears(i)
  PROVE  OwnInv' /\ CommandInv'
<1> DEFINE p == i.path
<1>1. /\ Open' = Open \ {p} /\ p \in Path /\ p \in Open /\ Leaves(i)
      /\ discord'.live = discord.live /\ discord'.removed = discord.removed
      /\ discord'.command = discord.command /\ discord'.done = discord.done \ {p}
  BY LeavesOpen, OpenFacts DEF Clears, Leaves, Forget, Sound, TypeInv, World
<1>2. log'[p] = Row("none", None) /\ \A q \in Path \ {p} : log'[q] = log[q]
  BY <1>1 DEF Leaves, Forget, Sound, TypeInv
<1>3. AnswersKept /\ \A id : /\ ~AnsweredAs(p, {"ok"}, id)'
                            /\ ~AnsweredAs(p, {"ok", "gone"}, id)'
  BY <1>1, <1>2 DEF AnswersKept, AnsweredAs, Leaves, Row
<1>4. /\ journal'.baseline = journal.baseline /\ journal'.manual = journal.manual
      /\ journal'.authorized = journal.authorized /\ journal'.prompted = journal.prompted
  BY DEF Clears
<1>5. log[p].is \in {"none", "gone", "refused", "limited"} => p \notin discord.done
  BY <1>1 DEF Sound, WriteInv, LogInv
<1>6. log[p].is \in {"none", "gone", "refused", "limited", "ok"}
  BY <1>1 DEF Clears, Leaves, Settleable, RowKinds, Sound, TypeInv, WriteInv, LogInv
<1>7. log[p].id \in Owners /\ \A answers : log[p].is \in answers => AnsweredAs(p, answers, log[p].id)
  BY <1>1 DEF Sound, TypeInv, AnsweredAs
<1>8. HeldInv' /\ Owned(journal) \subseteq Owned(journal')
      /\ (p # Create_ => Loose' = Loose) /\ (p = Create_ => Loose' = {})
  <2>1. CASE /\ p = Create_ /\ log[p].is = "ok" /\ journal'.held = journal.held \cup {log[p].id}
             /\ journal'.deleted = journal.deleted
    <3>1. log[p].id \in Grants \cap (discord.live \cup discord.removed) /\ Loose \subseteq {log[p].id}
      BY <1>7, <2>1 DEF Sound, OwnInv, AnswerInv
    <3>2. log[p].id \notin journal.baseline \cup journal.manual \cup Owned(journal)
      BY <2>1 DEF Clears, Settleable
    <3>3. Owned(journal') = Owned(journal) \cup {log[p].id} /\ Loose' = {}
      BY <1>1, <2>1, <3>1 DEF Owned, Loose
    <3>4. log[p].id \notin Earlier
      BY <1>1, <2>1, <3>2 DEF Sound, OwnInv, IntentInv
    <3> QED BY <1>1, <1>4, <2>1, <3>1, <3>2, <3>3, <3>4 DEF Sound, OwnInv, HeldInv
  <2>2. ASSUME NEW e \in journal.held, p = Deletion(e), log[p].is \in {"ok", "gone"},
               journal'.held = journal.held \ {e}, journal'.deleted = journal.deleted \cup {e}
        PROVE  HeldInv' /\ Owned(journal) \subseteq Owned(journal')
               /\ (p # Create_ => Loose' = Loose) /\ (p = Create_ => Loose' = {})
    <3>1. e \in Grants /\ p # Create_
      BY <2>2, PathsKnown DEF Sound, TypeInv, JournalRight
    <3>2. e \in discord.removed
      BY <1>7, <2>2, <3>1 DEF Sound, OwnInv, AnswerInv
    <3>3. Owned(journal') = Owned(journal)
      BY <2>2 DEF Owned
    <3>4. Loose' = Loose
      BY <1>1, <2>2, <3>2 DEF Loose, Sound, OwnInv, HeldInv
    <3> QED BY <1>1, <1>4, <3>1, <3>3, <3>4 DEF Sound, OwnInv, HeldInv
  <2>3. CASE /\ ~(p = Create_ /\ log[p].is = "ok") /\ journal'.held = journal.held
             /\ journal'.deleted = journal.deleted
    <3>1. Owned(journal') = Owned(journal) /\ Loose' = Loose
      BY <1>1, <2>3 DEF Owned, Loose
    <3>2. p = Create_ => Loose = {}
      BY <1>5, <1>6, <2>3 DEF Sound, OwnInv, AnswerInv
    <3> QED BY <1>1, <1>4, <3>1, <3>2 DEF Sound, OwnInv, HeldInv
  <2> QED BY <2>1, <2>2, <2>3 DEF Clears
<1>9. IntentInv' /\ ForeignInv'
  BY <1>1, <1>4, <1>8 DEF Sound, OwnInv, IntentInv, ForeignInv
<1>10. AnswerInv'
  <2>1. \A e \in Grants, id \in Owners :
          AnsweredAs(Deletion(e), {"ok", "gone"}, id)' => e \in discord'.removed
    BY <1>1, <1>3, PathsKnown DEF Sound, OwnInv, AnswerInv, AnswersKept
  <2>2. \A id \in Owners : AnsweredAs(Create_, {"ok"}, id)' => AnsweredAs(Create_, {"ok"}, id) /\ p # Create_
    BY <1>3, PathsKnown DEF AnswersKept
  <2> QED BY <1>1, <1>8, <2>1, <2>2 DEF Sound, OwnInv, AnswerInv
<1>11. CommandInv'
  <2>1. \A id \in Owners : AnsweredAs(Uncommand, {"ok", "gone"}, id)' => ~discord'.command
    BY <1>1, <1>3, PathsKnown DEF Sound, CommandInv, AnswersKept
  <2>2. CASE p = Command /\ log[p].is = "ok" /\ journal'.command = "held"
    BY <1>1, <2>1, <2>2 DEF Sound, CommandInv
  <2>3. CASE p = Uncommand /\ log[p].is \in {"ok", "gone"} /\ journal'.command = "deleted"
    <3>1. ~discord.command
      BY <1>7, <2>3 DEF Sound, CommandInv
    <3> QED BY <1>1, <2>1, <2>3, <3>1 DEF Sound, CommandInv
  <2>4. CASE ~(p = Command /\ log[p].is = "ok") /\ journal'.command = journal.command
    <3>1. p = Command => Command \notin discord.done
      BY <1>5, <1>6, <2>4
    <3> QED BY <1>1, <2>1, <2>4, <3>1 DEF Sound, CommandInv
  <2> QED BY <2>2, <2>3, <2>4 DEF Clears
<1> QED BY <1>8, <1>9, <1>10, <1>11 DEF OwnInv

\* Steps that take in what is there, or what the person bought.
Notes ==
  /\ Unresolved(journal') = Unresolved(journal) /\ UNCHANGED <<log, io>>
  /\ journal'.held = journal.held /\ journal'.deleted = journal.deleted
  /\ journal'.command = journal.command
  /\ journal.baseline \subseteq journal'.baseline /\ journal.manual \subseteq journal'.manual
  /\ Owned(journal) \cap (journal'.baseline \cup journal'.manual) = {}
  /\ journal'.authorized = journal.authorized /\ journal'.prompted = journal.prompted
  /\ discord'.live \in {discord.live, discord.live \cup {Purchase}}
  /\ discord'.live # discord.live => Purchase \notin discord.removed
  /\ discord'.removed = discord.removed /\ discord'.command = discord.command
  /\ discord'.done = discord.done /\ discord'.late = discord.late

LEMMA NotesOwn ==
  ASSUME Sound, Notes
  PROVE  OwnInv' /\ CommandInv'
<1>1. Open' = Open /\ Owned(journal)' = Owned(journal) /\ Loose' = Loose
  BY SameOpen, PathsKnown DEF Notes, Owned, Loose
<1>2. AnswersKept
  BY DEF Notes, AnswersKept, AnsweredAs
<1>3. HeldInv' /\ IntentInv' /\ ForeignInv'
  BY <1>1 DEF Sound, OwnInv, HeldInv, IntentInv, ForeignInv, Notes
<1>4. AnswerInv'
  BY <1>1, <1>2, PathsKnown DEF Sound, OwnInv, AnswerInv, AnswersKept, Notes
<1>5. CommandInv'
  BY <1>1, <1>2, PathsKnown DEF Sound, CommandInv, AnswersKept, Notes
<1> QED BY <1>3, <1>4, <1>5 DEF OwnInv

-----------------------------------------------------------------------------
(* What a settled intent makes of the journal. *)

LEMMA SettleFacts ==
  ASSUME Sound, NEW i \in Unresolved(journal), log[i.path].is \notin {"none", "sent", "lost"},
         Settleable(journal, i.path, log[i.path].is, log[i.path].id), Forget(i.path),
         io'.at = "none",
         journal' = Settle(journal, i, log[i.path].is, log[i.path].id)
  PROVE  /\ Clears(i) /\ JournalRight(journal')
         /\ journal'.status = journal.status /\ journal'.errors = journal.errors
         /\ journal'.done = journal.done
         /\ Confirmed(i.path, log[i.path].is) =>
              /\ \A e \in Grants : i.path = Deletion(e) => e \notin journal'.held
              /\ i.path = Uncommand => journal'.command = "deleted"
<1> DEFINE p == i.path
           answer == log[p].is
           id == log[p].id
<1>1. p \in Path /\ answer \in RowKinds /\ id \in Owners /\ JournalRight(journal)
  BY OpenFacts DEF Sound, TypeInv
<1>2. IsJournal(journal)
  BY <1>1 DEF JournalRight
<1>3. /\ journal'.pending = journal.pending \ {i} /\ journal'.uncertain = journal.uncertain \ {i}
      /\ journal'.baseline = journal.baseline /\ journal'.manual = journal.manual
      /\ journal'.authorized = journal.authorized /\ journal'.prompted = journal.prompted
      /\ journal'.status = journal.status /\ journal'.errors = journal.errors
      /\ journal'.kept = journal.kept /\ journal'.done = journal.done
  BY <1>2 DEF Settle, IsJournal, Fields
<1>4. IsJournal(journal')
  BY <1>2 DEF Settle, IsJournal, Fields
<1>5. Unresolved(journal') = Unresolved(journal) \ {i}
  BY <1>3 DEF Unresolved
<1>6. /\ journal'.held = IF p[1] = "create" /\ answer = "ok" THEN journal.held \cup {id}
                         ELSE IF p[1] = "delete" /\ Confirmed(p, answer) THEN journal.held \ {p[2]}
                         ELSE journal.held
      /\ journal'.deleted = IF p[1] = "delete" /\ Confirmed(p, answer) /\ p[2] \in journal.held
                            THEN journal.deleted \cup {p[2]} ELSE journal.deleted
      /\ journal'.command = IF p[1] = "command" /\ answer = "ok" THEN "held"
                            ELSE IF p[1] = "uncommand" /\ Confirmed(p, answer) THEN "deleted"
                            ELSE journal.command
  BY <1>2 DEF Settle, IsJournal, Fields
<1>7. Confirmed(p, answer) => answer \in {"ok", "gone"}
  BY DEF Confirmed
<1>8. \/ p = Create_ /\ answer = "ok" /\ journal'.held = journal.held \cup {id}
        /\ journal'.deleted = journal.deleted
      \/ \E e \in journal.held : /\ p = Deletion(e) /\ answer \in {"ok", "gone"}
                                 /\ journal'.held = journal.held \ {e}
                                 /\ journal'.deleted = journal.deleted \cup {e}
      \/ ~(p = Create_ /\ answer = "ok") /\ journal'.held = journal.held
        /\ journal'.deleted = journal.deleted
  <2>1. CASE p = Create_
    BY <1>1, <1>6, <2>1, PathKinds
  <2>2. CASE p[1] = "delete" /\ Confirmed(p, answer) /\ p[2] \in journal.held
    BY <1>1, <1>6, <1>7, <2>2, PathKinds
  <2>3. CASE p # Create_ /\ ~(p[1] = "delete" /\ Confirmed(p, answer) /\ p[2] \in journal.held)
    <3>1. p[1] # "create"
      BY <1>1, <2>3, PathKinds, Zenon
    <3>2. journal'.deleted = journal.deleted
      BY <1>6, <2>3, Zenon
    <3>3. CASE p[1] = "delete" /\ Confirmed(p, answer)
      <4>1. journal'.held = journal.held \ {p[2]} /\ p[2] \notin journal.held
        BY <1>6, <2>3, <3>1, <3>3, Zenon
      <4>2. journal.held \ {p[2]} = journal.held
        BY <4>1
      <4> QED BY <2>3, <3>2, <4>1, <4>2, Zenon
    <3>4. CASE ~(p[1] = "delete" /\ Confirmed(p, answer))
      <4>1. journal'.held = journal.held
        BY <1>6, <3>1, <3>4, Zenon
      <4> QED BY <2>3, <3>2, <4>1, Zenon
    <3> QED BY <3>3, <3>4
  <2> QED BY <2>1, <2>2, <2>3, <1>1, PathKinds
<1>9. \/ p = Command /\ answer = "ok" /\ journal'.command = "held"
      \/ p = Uncommand /\ answer \in {"ok", "gone"} /\ journal'.command = "deleted"
      \/ ~(p = Command /\ answer = "ok") /\ journal'.command = journal.command
  BY <1>1, <1>6, <1>7, PathKinds
<1>10. Leaves(i)
  BY <1>5 DEF Leaves
<1>11. Clears(i)
  BY <1>3, <1>8, <1>9, <1>10 DEF Clears
<1>12. \A c \in DOMAIN journal'.complete : journal'.complete[c] \in Owners
  <2>1. \/ journal'.complete = journal.complete
        \/ \E x \in Owners : journal'.complete = Put(journal.complete, i.case[2], x)
    BY <1>1, <1>2, PathsKnown DEF Settle, IsJournal, Fields
  <2> QED BY <1>1, <2>1 DEF JournalRight, Put
<1>13. p = Create_ /\ answer = "ok" => id \in Grants
  BY <1>1 DEF AnsweredAs, Sound, OwnInv, AnswerInv
<1>14. journal'.held \subseteq Grants /\ journal'.deleted \subseteq Grants
  BY <1>1, <1>8, <1>13 DEF JournalRight
<1>15. journal'.command \in {"no", "held", "deleted"}
  BY <1>1, <1>9 DEF JournalRight
<1>16. JournalRight(journal')
  BY <1>1, <1>3, <1>4, <1>5, <1>12, <1>14, <1>15 DEF JournalRight
<1>17. ASSUME Confirmed(p, answer)
       PROVE  /\ \A e \in Grants : p = Deletion(e) => e \notin journal'.held
              /\ p = Uncommand => journal'.command = "deleted"
  <2>1. \A e \in Grants : p = Deletion(e) => p[1] = "delete" /\ p[2] = e
    BY DEF Deletion
  <2>2. p = Uncommand => p[1] = "uncommand"
    BY DEF Uncommand
  <2> QED BY <1>6, <1>17, <2>1, <2>2
<1> QED BY <1>3, <1>11, <1>16, <1>17

-----------------------------------------------------------------------------
(* The process: where its steps can go. *)

JournalGrows ==
  /\ journal.authorized \subseteq journal'.authorized /\ journal.manual \subseteq journal'.manual
  /\ journal.baseline \subseteq journal'.baseline /\ (journal.prompted => journal'.prompted)
  /\ Old => journal'.prompted = journal.prompted
  /\ journal.done \subseteq journal'.done
  /\ journal'.status = "new" => journal.status = "new"

LEMMA ScriptFacts ==
  ASSUME TypeInv
  PROVE  /\ jobs[run.job] \in JobNames /\ SaneJob(jobs[run.job], Script)
         /\ Len(Script) \in Nat /\ jobs \in Seq(JobNames) /\ Len(jobs) \in Nat
         /\ run.job \in 1..Len(jobs) /\ 1 \in DOMAIN jobs
<1>1. jobs \in Seq(JobNames) /\ jobs # <<>> /\ run.job \in DOMAIN jobs
  BY RecorderAssumption DEF TypeInv
<1>2. jobs[run.job] \in JobNames /\ Len(jobs) \in Nat /\ run.job \in 1..Len(jobs) /\ 1 \in DOMAIN jobs
  BY <1>1
<1>3. SaneJob(jobs[run.job], Script)
  BY <1>2, PlanSteps DEF Script
<1> QED BY <1>1, <1>2, <1>3 DEF SaneJob

LEMMA HereFacts ==
  ASSUME TypeInv, InJob
  PROVE  Sane(jobs[run.job], run.at, Here) /\ run.phase = "jobs" /\ run.at \in Nat \ {0}
  BY ScriptFacts DEF SaneJob, InJob, Here, TypeInv, Process

\* The first recorder does one job.
LEMMA OldFacts ==
  ASSUME TypeInv, Old
  PROVE  run.job = 1 /\ Len(jobs) = 1 /\ jobs[run.job] \in OldJobs
<1>1. 1 \in DOMAIN jobs
  BY ScriptFacts
<1>2. Len(jobs) = 1
  BY <1>1, RecorderAssumption DEF Old, TypeInv
<1> QED BY <1>2, ScriptFacts DEF Old

\* A step takes the process elsewhere in its job, or out of it.
Leaving(q) ==
  q.phase \in {"close", "end"} /\ q.tried = {} /\ ~q.errors /\ (q.phase = "end" => q.raised # "no")
Same(q) ==
  /\ q \in Process /\ q.job = run.job /\ q.only = run.only /\ q.resume = run.resume /\ ~q.told
  /\ run.phase \notin {"off", "over"}
\* Only an exception ends the capture, and it is not forgotten.
Thrown(q) ==
  /\ q.phase = "close" => q.raised # "no"
  /\ q.phase = "jobs" /\ q.raised = "no" => run.raised = "no"
Raised(q) ==
  /\ Same(q) /\ Thrown(q)
  /\ \/ Leaving(q)
     \/ /\ InJob /\ q.phase = "jobs"
        /\ q.at = Exit \/ (Here.fin # 0 /\ q.at = run.at + Here.fin)
Walks(q) ==
  /\ Same(q)
  /\ \/ Leaving(q)
     \/ /\ InJob /\ q.phase = "jobs"
        /\ \/ q.at \in {run.at + 1, run.at + Here.no, Exit}
           \/ Here.fin # 0 /\ q.at = run.at + Here.fin
Goes(q) == Walks(q) /\ Thrown(q)

LEMMA RaisedFacts ==
  ASSUME TypeInv, ~run.told, run.phase \notin {"off", "over"}, NEW kind \in Kinds, NEW j
  PROVE  /\ Raised(Raise(run, kind, j)) /\ Goes(Raise(run, kind, j))
         /\ Unresolved(j) # {} => Raise(run, kind, j).raised # "no"
<1> DEFINE q == Raise(run, kind, j)
<1>1. run \in Process /\ kind # "no"
  BY DEF TypeInv, Kinds
<1>2. CASE InJob /\ Here.fin # 0
  <2>1. q = [run EXCEPT !.at = @ + Here.fin, !.raised = kind]
    BY <1>2 DEF Raise
  <2>2. /\ Here.fin \in Nat /\ run.at \in Nat \ {0} /\ run.phase = "jobs"
        /\ run.at + Here.fin \in Nat \ {0}
    BY <1>2, HereFacts DEF Sane
  <2>3. q \in Process
    BY <1>1, <2>1, <2>2 DEF Process
  <2> QED BY <1>1, <1>2, <2>1, <2>2, <2>3 DEF Raised, Goes, Walks, Thrown, Same, Process
<1>3. CASE ~(InJob /\ Here.fin # 0) /\ Blocked(run, kind, j)
  <2>1. q = [run EXCEPT !.at = Exit] /\ InJob
    BY <1>3 DEF Raise, Blocked
  <2>2. Unresolved(j) = {}
    BY <1>3 DEF Blocked
  <2> QED BY <1>1, <2>1, <2>2, HereFacts DEF Raised, Goes, Walks, Thrown, Same, Process, Exit
<1>4. CASE ~(InJob /\ Here.fin # 0) /\ ~Blocked(run, kind, j)
  <2>1. q = To([run EXCEPT !.raised = kind], IF run.phase \in {"app", "close"} THEN "end" ELSE "close")
    BY <1>4 DEF Raise
  <2>2. q \in Process
    BY <1>1, <2>1 DEF To, Process, Phases
  <2> QED BY <1>1, <2>1, <2>2 DEF Raised, Goes, Walks, Thrown, Same, Leaving, To, Process
<1> QED BY <1>2, <1>3, <1>4

LEMMA GoFacts ==
  ASSUME TypeInv, InJob, NEW r \in Process, r.phase = run.phase, r.at = run.at, r.job = run.job,
         r.only = run.only, r.resume = run.resume, ~r.told, r.raised = run.raised,
         NEW k \in {1, Here.no, Exit}
  PROVE  /\ Goes(Go(r, k))
         /\ \/ Leaving(Go(r, k))
            \/ Go(r, k).phase = "jobs" /\ Go(r, k).at = IF k = Exit THEN Exit ELSE run.at + k
<1> DEFINE q == Go(r, k)
           n == IF k = Exit THEN Exit ELSE r.at + k
<1>1. Sane(jobs[run.job], run.at, Here) /\ run.phase = "jobs" /\ run.at \in Nat \ {0}
  BY HereFacts
<1>2. n \in Nat \ {0} /\ n \in {run.at + 1, run.at + Here.no, Exit}
  BY <1>1 DEF Sane, Exit
<1>3. CASE r.raised # "no" /\ ~(n <= Len(Script) /\ Script[n].do \in Handler)
  <2>1. q = To(r, "close")
    BY <1>3 DEF Go
  <2>2. q \in Process
    BY <2>1 DEF To, Process, Phases
  <2> QED BY <1>1, <1>3, <2>1, <2>2 DEF Goes, Walks, Thrown, Same, Leaving, To, Process
<1>4. CASE ~(r.raised # "no" /\ ~(n <= Len(Script) /\ Script[n].do \in Handler))
  <2>1. q = [r EXCEPT !.at = n, !.tried = {}]
    BY <1>4 DEF Go
  <2>2. q \in Process
    BY <1>2, <2>1 DEF Process
  <2>3. q.phase = "jobs" /\ q.at = n
    BY <1>1, <2>1 DEF Process
  <2> QED BY <1>1, <1>2, <2>1, <2>2, <2>3 DEF Goes, Walks, Thrown, Same, Process
<1> QED BY <1>3, <1>4

LEMMA WalksPhase ==
  ASSUME TypeInv, PhaseInv, NEW q, Walks(q), run' = q, JournalGrows, io'.at = "none", jobs' = jobs
  PROVE  PhaseInv'
<1>1. q.phase \in {"close", "end", "jobs"} /\ (q.phase = "jobs" => run.phase = "jobs") /\ ~q.told
  BY DEF Walks, Leaving, InJob, Same
<1>2. journal'.status # "new"
  BY DEF Walks, Same, PhaseInv, JournalGrows
<1>3. run'.resume => ~Old'
  BY DEF Walks, Same, PhaseInv, Old
<1> QED BY <1>1, <1>2, <1>3 DEF PhaseInv, JournalGrows

LEMMA WalksWords ==
  ASSUME TypeInv, WordsInv, NEW q, Walks(q), run' = q, JournalGrows, jobs' = jobs, Words' = Words
  PROVE  WordsInv'
<1>1. Old' = Old
  BY DEF Old
<1>2. ASSUME Words > 0, Old
      PROVE  q.phase \in {"close", "end"} \/ (q.phase = "jobs" /\ q.at > 2)
  <2>1. CASE Leaving(q)
    BY <2>1 DEF Leaving
  <2>2. CASE InJob /\ q.phase = "jobs"
    <3>1. run.phase = "jobs" /\ run.at \in Nat /\ run.at >= 2
      BY <1>2, <2>2, HereFacts DEF WordsInv, InJob
    <3>2. Here.no \in Nat \ {0} /\ Here.fin \in Nat
      BY <1>2, <2>2, HereFacts, OldFacts DEF Sane, OldJobs
    <3> QED BY <2>2, <3>1, <3>2 DEF Walks, Exit, Leaving
  <2> QED BY <2>1, <2>2 DEF Walks
<1> QED BY <1>1, <1>2 DEF WordsInv, JournalGrows

LEMMA RaisedEntitled ==
  ASSUME TypeInv, EntitledInv, NEW q, Raised(q), run' = q, jobs' = jobs, JournalGrows
  PROVE  EntitledInv'
<1>1. CASE Leaving(q)
  BY <1>1 DEF EntitledInv, InJobs, Leaving
<1>2. CASE q.phase = "jobs" /\ q.at = Exit
  BY <1>2 DEF EntitledInv, Exit
<1>3. CASE InJob /\ Here.fin # 0
  <2>1. jobs[run.job] \notin {"rejections", "checkouts"}
    BY <1>3, HereFacts DEF Sane, RejectionStep, CheckoutStep
  <2> QED BY <2>1 DEF EntitledInv, InJobs, Raised, Same
<1> QED BY <1>1, <1>2, <1>3 DEF Raised

LEMMA GoesEntitled ==
  ASSUME TypeInv, EntitledInv, NEW q, Goes(q), run' = q, jobs' = jobs, JournalGrows, InJob,
         Here.do = "authorize" => History \in journal'.authorized,
         Here.do = "prompt" /\ jobs[run.job] = "checkouts" => journal'.prompted,
         Here.do = "select" => Purchase \in journal'.manual
  PROVE  EntitledInv'
<1>1. Sane(jobs[run.job], run.at, Here) /\ run.phase = "jobs" /\ run.at \in Nat \ {0}
  BY HereFacts
<1>2. CASE Leaving(q)
  BY <1>2 DEF EntitledInv, InJobs, Leaving
<1>3. CASE q.phase = "jobs" /\ q.at = Exit
  BY <1>3 DEF EntitledInv, Exit
<1>4. CASE jobs[run.job] \notin {"rejections", "checkouts"}
  BY <1>4 DEF EntitledInv, InJobs, Goes, Walks, Same
<1>5. CASE jobs[run.job] = "rejections" /\ q.at \in {run.at + 1, run.at + Here.no}
  BY <1>1, <1>5 DEF Sane, RejectionStep, EntitledInv, InJobs, JournalGrows, Goes, Walks, Same
<1>6. CASE jobs[run.job] = "checkouts" /\ q.at \in {run.at + 1, run.at + Here.no}
  <2>1. CheckoutStep(run.at, Here) /\ Here.no \in Int /\ Here.no > 0
    BY <1>1, <1>6 DEF Sane
  <2>2. CASE run.at < 3
    BY <1>1, <1>6, <2>1, <2>2 DEF CheckoutStep, EntitledInv, InJobs, Goes, Walks, Same
  <2>3. CASE run.at = 3
    BY <1>1, <1>6, <2>1, <2>3 DEF CheckoutStep, EntitledInv, InJobs, Goes, Walks, Same
  <2>4. CASE run.at = 4
    BY <1>1, <1>6, <2>1, <2>4 DEF CheckoutStep, EntitledInv, InJobs, Goes, Walks, Same, JournalGrows
  <2>5. CASE run.at \in 5..17
    BY <1>1, <1>6, <2>1, <2>5 DEF EntitledInv, InJobs, Goes, Walks, Same, JournalGrows
  <2>6. CASE run.at > 17
    BY <1>1, <1>6, <2>1, <2>6 DEF EntitledInv, InJobs, Goes, Walks, Same
  <2> QED BY <1>1, <2>2, <2>3, <2>4, <2>5, <2>6
<1>7. CASE Here.fin # 0
  BY <1>1, <1>4, <1>7 DEF Sane, RejectionStep, CheckoutStep
<1> QED BY <1>2, <1>3, <1>4, <1>5, <1>6, <1>7 DEF Goes, Walks

LEMMA WalksClose ==
  ASSUME TypeInv, CloseInv, NEW q, Walks(q), run' = q
  PROVE  CloseInv'
<1>2. ~Cleaning(q) \/ (q.tried = {} /\ q.phase # "end")
  BY DEF Walks, Leaving, Cleaning
<1>3. q.phase = "end" => q.raised # "no"
  BY DEF Walks, Leaving
<1> QED BY <1>2, <1>3 DEF CloseInv

-----------------------------------------------------------------------------
(* What the process and the journal say of the end. *)

LEMMA StillFinished ==
  ASSUME AllRan, jobs' = jobs, journal.done \subseteq journal'.done,
         Create_ \in Open' => Create_ \in Open, Command \in Open' => Command \in Open
  PROVE  AllRan'
  BY DEF AllRan, Ran

LEMMA FewerOpen ==
  ASSUME Unresolved(journal') \subseteq Unresolved(journal)
  PROVE  Open' \subseteq Open
  BY DEF Open, OpenPaths

LEMMA StatusFacts ==
         /\ run.phase \notin {"close", "end"} => Status = journal.status
         /\ journal.status \in {"uncertain_write", "recovered"} => Status = journal.status
         /\ Status \in {"uncertain_write", "recovered"} => journal.status = Status
         /\ Status = "completed" /\ run.phase \in {"close", "end"} => run.raised = "no"
         /\ Status = "new" => journal.status = "new"
  BY DEF Status

LEMMA GoesEnd ==
  ASSUME TypeInv, EndInv, NEW q, Goes(q), run' = q, jobs' = jobs, io'.at = "none", JournalGrows,
         Unresolved(journal') \subseteq Unresolved(journal),
         journal'.status \in {journal.status, "uncertain_write"},
         run.phase \in {"close", "end"} => Old \/ journal'.status = "uncertain_write",
         q.phase = "jobs" /\ q.raised = "no" => Unresolved(journal') = {}
  PROVE  EndInv'
<1>1. /\ q.phase \in {"close", "end", "jobs"} /\ (q.phase # "jobs" => q.raised # "no")
      /\ (q.phase = "jobs" => run.phase = "jobs") /\ q.job = run.job
      /\ run.phase \notin {"off", "over"}
  BY DEF Goes, Walks, Thrown, Leaving, InJob, Same
<1>2. Old' = Old /\ Open' \subseteq Open
  BY FewerOpen DEF Old
<1>3. JobsInv'
  BY <1>1, <1>2 DEF EndInv, JobsInv, JournalGrows
<1>4. journal'.status = "completed" \/ Status' = "completed" => journal.status = "completed"
  BY <1>1, <1>2 DEF Status
<1>5. journal.status = "completed" => AllRan'
  BY <1>2, StillFinished DEF EndInv, StatusInv, JournalGrows
<1>6. journal'.status # "recovered"
  BY <1>1 DEF EndInv, StatusInv
<1>7. journal'.status = "completed" => q.phase \in {"close", "end"}
  BY <1>1 DEF EndInv, StatusInv
<1>8. StatusInv'
  BY <1>1, <1>4, <1>5, <1>6, <1>7 DEF StatusInv
<1> QED BY <1>3, <1>8 DEF EndInv

LEMMA StaysEnd ==
  ASSUME EndInv, jobs' = jobs, JournalGrows,
         run'.phase = run.phase, run'.job = run.job, run'.raised = run.raised,
         Unresolved(journal') \subseteq Unresolved(journal),
         journal'.status \in {journal.status, "uncertain_write"},
         run.phase = "over" => Left' = Left,
         \/ io'.at = "none" /\ (run.phase = "jobs" /\ run.raised = "no" => Unresolved(journal') = {})
         \/ io'.at # "none" /\ io.at # "none" /\ io'.path = io.path /\ io'.case = io.case
  PROVE  EndInv'
<1>1. Old' = Old /\ Open' \subseteq Open /\ Cleaning(run)' = Cleaning(run)
  BY FewerOpen DEF Old, Cleaning
<1>2. JobsInv'
  BY <1>1 DEF EndInv, JobsInv, JournalGrows
<1>3. journal'.status = "completed" => journal.status = "completed"
  OBVIOUS
<1>4. Status' = "completed" => Status = "completed"
  BY <1>1 DEF Status
<1>5. journal.status = "completed" \/ Status = "completed" => AllRan'
  BY <1>1, StillFinished DEF EndInv, StatusInv, JournalGrows
<1>6. journal'.status = "recovered" => ~Old' /\ run'.raised = "no"
  BY <1>1 DEF EndInv, StatusInv
<1>7. run'.phase = "over" /\ journal'.status \in {"completed", "recovered"} =>
        Unresolved(journal)' = {} /\ ~Left'
  BY DEF EndInv, StatusInv
<1>8. StatusInv'
  BY <1>3, <1>4, <1>5, <1>6, <1>7 DEF EndInv, StatusInv
<1> QED BY <1>2, <1>8 DEF EndInv

-----------------------------------------------------------------------------
(* Steps of one kind keep the invariant. *)

Kept == IInv' /\ Promised
Edited ==
  JournalRight(journal') /\ BooksKept /\ JournalGrows /\ journal'.status = journal.status

LEMMA StaysOpen ==
  ASSUME IInv, Still \/ Notes
  PROVE  WriteInv' /\ OwnInv' /\ CommandInv' /\ Promised
<1>1. Sound /\ WriteInv /\ TypeInv /\ OwnInv /\ CommandInv
  BY DEF IInv, Sound
<1>2. OwnInv' /\ CommandInv'
  BY <1>1, StillOwn, NotesOwn
<1>3. /\ Unresolved(journal') = Unresolved(journal) /\ UNCHANGED <<log, io>>
      /\ discord'.done = discord.done /\ discord'.late = discord.late
  BY DEF Still, Notes, BooksKept, DiscordKept
<1> QED BY <1>1, <1>2, <1>3, StillWrites, StillPromised

LEMMA WalksKeeps ==
  ASSUME IInv, Still \/ Notes, JournalRight(journal'), JournalGrows, discord' \in World,
         jobs' = jobs, io.at = "none", NEW q, Walks(q), run' = q, Words' = Words, EntitledInv',
         EndInv'
  PROVE  Kept
<1>1. TypeInv'
  BY DEF IInv, TypeInv, Walks, Same, Still, Notes
<1>2. io' = io
  BY DEF Still, Notes
<1>3. PhaseInv' /\ WordsInv' /\ CloseInv'
  BY <1>2, WalksPhase, WalksWords, WalksClose DEF IInv
<1> QED BY <1>1, <1>3, StaysOpen DEF Kept, IInv

LEMMA GoesKeeps ==
  ASSUME IInv, Still \/ Notes, JournalRight(journal'), JournalGrows, discord' \in World,
         jobs' = jobs, io.at = "none", NEW q, Goes(q), run' = q, Words' = Words, EntitledInv',
         journal'.status = journal.status, run.phase \notin {"close", "end"}
  PROVE  Kept
<1>1. Unresolved(journal') = Unresolved(journal) /\ io' = io
  BY DEF Still, Notes, BooksKept
<1>2. q.phase = "jobs" => run.phase = "jobs"
  BY DEF Goes, Walks, Leaving, InJob
<1>3. q.phase = "jobs" /\ q.raised = "no" => Unresolved(journal') = {}
  BY <1>1, <1>2 DEF Goes, Thrown, IInv, EndInv, JobsInv
<1>4. EndInv'
  BY <1>1, <1>3, GoesEnd DEF IInv
<1> QED BY <1>4, WalksKeeps DEF Goes

LEMMA RaisedKeeps ==
  ASSUME IInv, Edited, UNCHANGED <<jobs, log, io, discord>>, io.at = "none", ~run.told,
         NEW q, Raised(q), run' = q, run.phase \notin {"close", "end"}
  PROVE  Kept
<1>1. Goes(q)
  BY DEF Raised, Goes, Walks
<1>2. Still /\ Words' = Words /\ discord' \in World
  BY DEF Still, Edited, DiscordKept, Words, Raised, Same, IInv, TypeInv
<1>3. EntitledInv'
  BY RaisedEntitled DEF IInv, Edited
<1> QED BY <1>1, <1>2, <1>3, GoesKeeps DEF Edited

\* The process stays where it is.
Stays(q) ==
  /\ q \in Process /\ q.phase = run.phase /\ q.job = run.job /\ q.at = run.at /\ q.only = run.only
  /\ q.resume = run.resume /\ q.told = run.told /\ q.raised = run.raised

LEMMA StaysProcess ==
  ASSUME IInv, NEW q, Stays(q), run' = q, jobs' = jobs, JournalGrows, discord'.told = discord.told
  PROVE  EntitledInv' /\ WordsInv'
<1>1. Old' = Old /\ Words' = Words
  BY DEF Old, Words, Stays
<1> QED BY <1>1 DEF IInv, EntitledInv, InJobs, WordsInv, Stays, JournalGrows

LEMMA StaysPhase ==
  ASSUME IInv, NEW q, Stays(q), run' = q, jobs' = jobs, JournalGrows, io'.at = "none",
         journal'.command = journal.command \/ run.phase \in {"recover", "close", "jobs"},
         Unresolved(journal') \subseteq Unresolved(journal), run.phase \notin {"off", "over"},
         run.phase = "reconcile" => journal' = journal
  PROVE  PhaseInv'
<1>1. /\ Old' = Old /\ Script' = Script /\ InJob' = InJob /\ Here' = Here
      /\ journal'.status # "new"
  BY DEF Old, Script, InJob, Here, Stays, IInv, PhaseInv, JournalGrows
<1> QED BY <1>1 DEF IInv, PhaseInv, Stays, JournalGrows

LEMMA StaysKeeps ==
  ASSUME IInv, Edited, UNCHANGED <<jobs, log, io, discord>>, io.at = "none", run.phase \notin {"off", "over"},
         run.phase = "reconcile" => journal' = journal, NEW q, Stays(q), run' = q, CloseInv'
  PROVE  Kept
<1>1. Still
  BY DEF Still, Edited, DiscordKept
<1>2. TypeInv'
  BY DEF IInv, TypeInv, Stays, Edited
<1>3. EntitledInv' /\ WordsInv' /\ PhaseInv'
  BY StaysProcess, StaysPhase DEF Edited, BooksKept
<1>4. EndInv'
  BY StaysEnd DEF IInv, EndInv, JobsInv, Edited, BooksKept, Stays
<1> QED BY <1>1, <1>2, <1>3, <1>4, StaysOpen DEF Kept, IInv

\* Where a write may begin.
Flights(path) ==
  /\ ~run.told /\ run.phase \in {"recover", "close", "connect", "jobs"}
  /\ run.phase = "jobs" => InJob /\ Here.do \in Writing
  /\ run.phase = "connect" => path = Command
  /\ Cleaning(run) => path = Uncommand \/ \E e \in Grants : path = Deletion(e)

LEMMA StartsKeeps ==
  ASSUME IInv, NEW path, NEW case, Starts(path, case), Due(path), Flights(path), run' = run,
         jobs' = jobs, Unresolved(journal) = {} \/ Cleaning(run)
  PROVE  Kept
<1>1. Sound /\ WriteInv /\ TypeInv
  BY DEF IInv, Sound
<1>2. OwnInv' /\ CommandInv' /\ WriteInv' /\ Promised
  BY <1>1, StartsOwn, StartsWrites, StartsPromised
<1>3. /\ JournalRight(journal') /\ JournalGrows
      /\ journal'.held = journal.held /\ journal'.command = journal.command
      /\ journal'.errors = journal.errors /\ journal'.status = Status
      /\ journal'.done = journal.done
  BY <1>1, StartsOpen, StatusFacts DEF JournalGrows
<1>4. io' = [NoIo EXCEPT !.path = path, !.case = case, !.at = "begun"] /\ path \in Path
  BY DEF Starts
<1>5. IoRight(io') /\ io'.at = "begun" /\ io'.path = path
  BY <1>4, PathsKnown DEF IoRight, IsIo, NoIo
<1>6. TypeInv'
  <2>1. log' \in [Path -> [is : RowKinds, id : Owners]]
    BY <1>1, <1>4, PathsKnown DEF Starts, TypeInv, Row, RowKinds
  <2> QED BY <1>1, <1>3, <1>5, <2>1 DEF TypeInv, Starts
<1>7. EntitledInv' /\ WordsInv'
  <2>1. Stays(run) /\ discord'.told = discord.told
    BY DEF Stays, IInv, TypeInv, Starts
  <2> QED BY <1>3, <2>1, StaysProcess
<1>8. PhaseInv'
  <2>1. Old' = Old /\ Script' = Script /\ InJob' = InJob /\ Here' = Here
    BY DEF Old, Script, InJob, Here
  <2>2. journal'.status # "new"
    BY <1>3 DEF Flights, IInv, PhaseInv, JournalGrows
  <2> QED BY <1>3, <1>5, <2>1, <2>2 DEF Flights, IInv, PhaseInv, JournalGrows, Cleaning
<1>9. CloseInv'
  <2>1. run.phase # "end"
    BY <1>3 DEF Flights
  <2> QED BY <1>3, <2>1 DEF IInv, CloseInv
<1>10. EndInv'
  <2>1. /\ Unresolved(journal') = Unresolved(journal) \cup {Intent(path, case)}
        /\ Open' = Open \cup {path} /\ Old' = Old /\ Cleaning(run)' = Cleaning(run)
    BY <1>1, StartsOpen DEF Old, Cleaning
  <2>2. io'.case = case
    BY <1>4 DEF NoIo
  <2>3. JobsInv'
    BY <1>3, <1>5, <2>1, <2>2 DEF IInv, EndInv, JobsInv
  <2>4. Status' = Status
    BY <1>3, <2>1 DEF Status
  <2>5. Status = "completed" => AllRan'
    <3>1. ASSUME Status = "completed"
          PROVE  Cleaning(run) /\ AllRan
      BY <3>1, StatusFacts DEF Flights, IInv, EndInv, StatusInv, Cleaning
    <3>2. ASSUME Cleaning(run)
          PROVE  path # Create_ /\ path # Command
      BY <3>2, PathsKnown DEF Flights
    <3> QED BY <1>3, <2>1, <3>1, <3>2, StillFinished
  <2>6. /\ run.phase # "over"
        /\ Status \in {"completed", "recovered"} => run.phase \in {"close", "end"}
    BY StatusFacts DEF Flights, IInv, EndInv, StatusInv
  <2>7. StatusInv'
    BY <1>3, <2>1, <2>4, <2>5, <2>6, StatusFacts DEF IInv, EndInv, StatusInv
  <2> QED BY <2>3, <2>7 DEF EndInv
<1> QED BY <1>2, <1>6, <1>7, <1>8, <1>9, <1>10 DEF Kept, IInv

LEMMA BeginKeeps ==
  ASSUME IInv, NEW path \in Path, NEW case, Begin(path, case), Due(path), Flights(path)
  PROVE  Kept
<1>1. TypeInv /\ io.at = "none" /\ UNCHANGED <<jobs, discord>> /\ ~run.told
  BY DEF IInv, Begin, Flights
<1>2. CASE Refused(path) /\ Cleaning(run)
  <2>1. run' = [run EXCEPT !.tried = @ \cup {path}, !.errors = TRUE] /\ UNCHANGED <<journal, log, io>>
    BY <1>2 DEF Begin
  <2>2. Stays(run') /\ run'.errors /\ run.phase \notin {"off", "over"} /\ run.phase # "end"
    BY <1>1, <1>2, <2>1 DEF Stays, TypeInv, Process, Cleaning
  <2>3. Edited
    BY <1>1, <2>1 DEF Edited, BooksKept, JournalGrows, TypeInv
  <2>4. CloseInv'
    BY <2>1, <2>2 DEF IInv, CloseInv, Stays
  <2> QED BY <1>1, <2>1, <2>2, <2>3, <2>4, StaysKeeps
<1>3. CASE Refused(path) /\ ~Cleaning(run)
  <2>1. run' = Raise(run, "runtime", journal) /\ UNCHANGED <<journal, log, io>>
    BY <1>3 DEF Begin
  <2>2. Raised(run')
    BY <1>1, <2>1, RaisedFacts DEF Kinds, Flights
  <2>3. Edited
    BY <1>1, <2>1 DEF Edited, BooksKept, JournalGrows, TypeInv
  <2>4. run.phase \notin {"close", "end"}
    BY <1>3 DEF Flights, Cleaning
  <2> QED BY <1>1, <2>1, <2>2, <2>3, <2>4, RaisedKeeps
<1>4. CASE ~Refused(path)
  <2>1. path \notin Open /\ (Unresolved(journal) = {} \/ Cleaning(run))
    BY <1>4 DEF Refused, Open, OpenPaths
  <2>2. Starts(path, case) /\ run' = run
    BY <1>1, <1>4, <2>1 DEF Begin, Starts
  <2> QED BY <1>1, <2>1, <2>2, StartsKeeps
<1> QED BY <1>2, <1>3, <1>4

-----------------------------------------------------------------------------
(* The steps of a write in flight, and what Discord and the person do. *)

LEMMA WaitingKeeps ==
  ASSUME IInv, UNCHANGED <<jobs, journal, run>>, discord'.told = discord.told,
         io' = io \/ (io.at # "none" /\ io'.at # "none" /\ io'.path = io.path /\ io'.case = io.case)
  PROVE  PhaseInv' /\ EntitledInv' /\ WordsInv' /\ CloseInv' /\ EndInv'
<1>1. /\ Old' = Old /\ Script' = Script /\ InJob' = InJob /\ Here' = Here /\ Words' = Words
      /\ Left' = Left
  BY DEF Old, Script, InJob, Here, Words, Left
<1>2. PhaseInv'
  BY <1>1 DEF IInv, PhaseInv
<1>3. EntitledInv' /\ WordsInv' /\ CloseInv'
  BY <1>1 DEF IInv, EntitledInv, InJobs, WordsInv, CloseInv
<1>4. JournalGrows
  BY DEF JournalGrows
<1>5. EndInv'
  BY <1>1, <1>4, StaysEnd DEF IInv, EndInv, JobsInv
<1> QED BY <1>2, <1>3, <1>5

LEMMA FlightTyped ==
  ASSUME TypeInv, Attempt \/ Receive
  PROVE  TypeInv' /\ io'.at # "none" /\ io.at # "none" /\ io'.path = io.path /\ io'.case = io.case
<1>1. /\ UNCHANGED <<jobs, journal, discord, run>> /\ IsIo(io) /\ IoRight(io) /\ io.path \in Path
      /\ log \in [Path -> [is : RowKinds, id : Owners]]
  BY DEF TypeInv, IoRight, Attempt, Receive
<1>2. CASE Attempt
  <2>1. Row("sent", None) \in [is : RowKinds, id : Owners]
    BY PathsKnown DEF Row, RowKinds
  <2>2. log' \in [Path -> [is : RowKinds, id : Owners]]
    BY <1>1, <1>2, <2>1 DEF Attempt
  <2>3. io' = [io EXCEPT !.at = "sent", !.tries = @ + 1] /\ io.at = "begun"
    BY <1>2 DEF Attempt
  <2>4. /\ io'.at = "sent" /\ io'.path = io.path /\ io'.id = io.id /\ io'.tries = io.tries + 1
        /\ IsIo(io') /\ io'.case = io.case
    BY <1>1, <2>3 DEF IsIo
  <2>5. IoRight(io')
    BY <1>1, <2>4 DEF IoRight
  <2> QED BY <1>1, <2>2, <2>3, <2>4, <2>5 DEF TypeInv
<1>3. CASE Receive
  <2>1. Row(io.answer, io.id) \in [is : RowKinds, id : Owners] /\ io.at = "answered"
    BY <1>1, <1>3 DEF Row, RowKinds, IoRight, Answers, Receive
  <2>2. log' \in [Path -> [is : RowKinds, id : Owners]]
    BY <1>1, <1>3, <2>1 DEF Receive
  <2>3. io' = [io EXCEPT !.at = "begun"] \/ io' = [io EXCEPT !.at = "received"]
    BY <1>3 DEF Receive
  <2>4. IoRight(io') /\ io'.at # "none" /\ io'.path = io.path /\ io'.case = io.case
    BY <1>1, <2>1, <2>3 DEF IoRight, IsIo
  <2> QED BY <1>1, <2>1, <2>2, <2>4 DEF TypeInv
<1> QED BY <1>2, <1>3

LEMMA AttemptKeeps ==
  ASSUME IInv, Attempt \/ Receive
  PROVE  Kept
<1>1. Sound /\ TypeInv /\ WriteInv
  BY DEF IInv, Sound
<1>2. UNCHANGED <<jobs, journal, discord, run>>
  BY DEF Attempt, Receive
<1>3. WriteInv' /\ OwnInv' /\ CommandInv' /\ Promised
  BY <1>1, AttemptWrites, ReceiveWrites, AttemptOwn, AttemptPromised
<1> QED BY <1>1, <1>2, <1>3, FlightTyped, WaitingKeeps DEF Kept, IInv

LEMMA ServeKeeps ==
  ASSUME IInv, Serve
  PROVE  Kept
<1>1. Sound /\ TypeInv /\ WriteInv
  BY DEF IInv, Sound
<1>2. UNCHANGED <<jobs, journal, log, run>>
  BY DEF Serve
<1>3. WriteInv' /\ OwnInv' /\ CommandInv' /\ Promised
  BY <1>1, ServeWrites, ServeOwn, ServePromised
<1>4. discord'.told = discord.told
  BY <1>1, ServeCases DEF CarriedOut, TypeInv, World
<1>5. IoRight(io')
  <2>1. io'.tries = io.tries /\ IsIo(io')
    BY <1>1 DEF TypeInv, IoRight, IsIo, Serve, Answer
  <2>2. io.path \in Path
    BY <1>1 DEF Serve, TypeInv, IoRight
  <2> QED BY <1>1, <2>1, <2>2, ServeFacts DEF TypeInv, IoRight
<1>6. TypeInv'
  BY <1>1, <1>2, <1>5, ServeFacts DEF TypeInv
<1>7. io'.case = io.case
  BY <1>1 DEF TypeInv, IoRight, IsIo, Serve, Answer
<1> QED BY <1>1, <1>2, <1>3, <1>4, <1>6, <1>7, ServeFacts, WaitingKeeps DEF Kept, IInv

LEMMA LateKeeps ==
  ASSUME IInv, Late
  PROVE  Kept
<1>1. Sound /\ TypeInv /\ WriteInv
  BY DEF IInv, Sound
<1>2. UNCHANGED <<jobs, journal, log, run, io>>
  BY DEF Late
<1>3. WriteInv' /\ OwnInv' /\ CommandInv' /\ Promised
  BY <1>1, LateWrites, LateOwn, LatePromised
<1>4. discord'.told = discord.told /\ discord' \in World
  BY <1>1, LateFacts DEF CarriedOut
<1>5. TypeInv'
  BY <1>1, <1>2, <1>4 DEF TypeInv
<1> QED BY <1>2, <1>3, <1>4, <1>5, WaitingKeeps DEF Kept, IInv

LEMMA BuyKeeps ==
  ASSUME IInv, Buy
  PROVE  Kept
<1>1. UNCHANGED <<jobs, journal, log, run, io>> /\ discord \in World /\ TypeInv /\ OwnInv
  BY DEF Buy, Quiet, IInv, TypeInv
<1>2. discord' = [discord EXCEPT !.live = @ \cup {Purchase}] /\ Purchase \notin discord.removed
  BY DEF Buy
<1>3. Notes
  BY <1>1, <1>2 DEF Notes, World, OwnInv, HeldInv
<1>4. discord' \in World /\ discord'.told = discord.told
  BY <1>1, <1>2 DEF World, Ids
<1>5. TypeInv'
  BY <1>1, <1>4 DEF TypeInv
<1> QED BY <1>1, <1>3, <1>4, <1>5, StaysOpen, WaitingKeeps DEF Kept, IInv

-----------------------------------------------------------------------------
(* The steps of a job that write nothing. *)

AtStep == InJob /\ ~run.told /\ io.at = "none"

LEMMA AtFacts ==
  ASSUME TypeInv, AtStep
  PROVE  /\ run \in Process /\ run.phase = "jobs" /\ ~run.told
         /\ Goes(Go(run, 1)) /\ Goes(Go(run, Here.no))
  BY GoFacts, HereFacts DEF AtStep, TypeInv

\* A step that needs no entitlement of its own.
LEMMA MovesKeep ==
  ASSUME IInv, AtStep, Edited, UNCHANGED <<jobs, log, io, discord>>, NEW q, Goes(q), run' = q,
         Here.do = "authorize" => History \in journal'.authorized,
         Here.do = "prompt" /\ jobs[run.job] = "checkouts" => journal'.prompted,
         Here.do = "select" => Purchase \in journal'.manual
  PROVE  Kept
<1>1. Still /\ Words' = Words /\ discord' \in World
  BY DEF Still, Edited, DiscordKept, Words, Goes, Walks, Same, AtStep, IInv, TypeInv
<1>2. EntitledInv'
  BY GoesEntitled DEF IInv, Edited, AtStep
<1> QED BY <1>1, <1>2, GoesKeeps DEF Edited, AtStep, InJob

LEMMA SameEdited ==
  ASSUME IInv, journal' = journal
  PROVE  Edited
  BY DEF Edited, BooksKept, JournalGrows, IInv, TypeInv

LEMMA FailedEdited ==
  ASSUME IInv, NEW x, journal' = [journal EXCEPT !.failed = x]
  PROVE  Edited
<1>1. JournalRight(journal) /\ IsJournal(journal)
  BY DEF IInv, TypeInv, JournalRight
<1> QED BY <1>1 DEF Edited, BooksKept, JournalGrows, JournalRight, IsJournal, Fields, Unresolved

LEMMA FailingEdited ==
  ASSUME IInv, NEW case, journal' = Failing(case)
  PROVE  Edited
  BY SameEdited, FailedEdited DEF Failing

LEMMA FailKeeps ==
  ASSUME IInv, Fail
  PROVE  Kept
<1>1. /\ AtStep /\ Here.do \in {"look", "select", "verify"}
      /\ UNCHANGED <<jobs, log, io, discord>> /\ Edited /\ TypeInv
  BY FailingEdited DEF Fail, Reading, At, AtStep, Quiet, IInv
<1>2. CASE \E kind \in Kinds : run' = Raise(run, kind, journal)
  <2>1. Raised(run')
    BY <1>1, <1>2, RaisedFacts, AtFacts
  <2> QED BY <1>1, <2>1, RaisedKeeps DEF AtStep, InJob
<1>3. CASE run' = Go(run, 1) /\ Here.do = "look"
  <2>1. Goes(run')
    BY <1>1, <1>3, AtFacts
  <2> QED BY <1>1, <1>3, <2>1, MovesKeep
<1> QED BY <1>2, <1>3 DEF Fail

LEMMA LookKeeps ==
  ASSUME IInv, Look_
  PROVE  Kept
<1>1. AtStep /\ Here.do = "look" /\ UNCHANGED <<jobs, log, io, discord>> /\ Edited /\ TypeInv
  BY FailedEdited DEF Look_, At, AtStep, Quiet, IInv
<1>2. Goes(run')
  BY <1>1, AtFacts DEF Look_
<1> QED BY <1>1, <1>2, MovesKeep

LEMMA VerifyKeeps ==
  ASSUME IInv, Verify_
  PROVE  Kept
<1>1. AtStep /\ Here.do = "verify" /\ UNCHANGED <<jobs, log, io, discord>> /\ Edited /\ TypeInv
  BY FailedEdited DEF Verify_, At, AtStep, Quiet, IInv
<1>2. Goes(run')
  BY <1>1, AtFacts, RaisedFacts DEF Verify_, Kinds
<1> QED BY <1>1, <1>2, MovesKeep

LEMMA SkipKeeps ==
  ASSUME IInv, Skip
  PROVE  Kept
<1>1. AtStep /\ Here.do = "skip" /\ UNCHANGED <<jobs, log, io, discord>> /\ Edited /\ TypeInv
  BY SameEdited DEF Skip, At, AtStep, Quiet, IInv
<1>2. CASE Complete(Here.case)
  <2> DEFINE r == [run EXCEPT !.last = IF Here.case = "after end" THEN journal.complete[Here.case]
                                        ELSE @]
  <2>1. journal.complete[Here.case] \in Owners
    BY <1>1, <1>2 DEF Complete, TypeInv, JournalRight
  <2>2. /\ r \in Process /\ r.phase = run.phase /\ r.at = run.at /\ r.job = run.job
        /\ r.only = run.only /\ r.resume = run.resume /\ ~r.told /\ r.raised = run.raised
    BY <1>1, <2>1, AtFacts DEF Process
  <2>3. run' = Go(r, Here.no)
    BY <1>2 DEF Skip
  <2>4. Goes(run')
    BY <1>1, <2>2, <2>3, GoFacts DEF AtStep
  <2> QED BY <1>1, <2>4, MovesKeep
<1>3. CASE ~Complete(Here.case)
  <2>1. Goes(run')
    BY <1>1, <1>3, AtFacts DEF Skip
  <2> QED BY <1>1, <2>1, MovesKeep
<1> QED BY <1>2, <1>3

LEMMA MarkKeeps ==
  ASSUME IInv, Mark_
  PROVE  Kept
<1>1. AtStep /\ Here.do = "mark" /\ UNCHANGED <<jobs, log, io, discord>> /\ TypeInv
  BY DEF Mark_, At, AtStep, Quiet, IInv
<1>2. Edited
  <2>1. CASE journal' = journal
    BY <2>1, SameEdited
  <2>2. CASE journal' = [journal EXCEPT !.complete = Put(@, Here.case, None)]
    <3>1. JournalRight(journal) /\ IsJournal(journal)
      BY <1>1 DEF TypeInv, JournalRight
    <3>2. \A c \in DOMAIN Put(journal.complete, Here.case, None) :
            Put(journal.complete, Here.case, None)[c] \in Owners
      BY <3>1, PathsKnown DEF Put, JournalRight
    <3>3. journal'.complete = Put(journal.complete, Here.case, None) /\ IsJournal(journal')
      BY <2>2, <3>1 DEF IsJournal, Fields
    <3> QED BY <2>2, <3>1, <3>2, <3>3
            DEF Edited, BooksKept, JournalGrows, JournalRight, IsJournal, Fields, Unresolved
  <2> QED BY <2>1, <2>2 DEF Mark_
<1>3. Goes(run')
  BY <1>1, AtFacts DEF Mark_
<1> QED BY <1>1, <1>2, <1>3, MovesKeep

LEMMA AuthorizeKeeps ==
  ASSUME IInv, Authorize
  PROVE  Kept
<1>1. AtStep /\ Here.do = "authorize" /\ UNCHANGED <<jobs, log, io, discord>> /\ TypeInv
  BY DEF Authorize, At, AtStep, Quiet, IInv
<1>2. JournalRight(journal) /\ IsJournal(journal)
  BY <1>1 DEF TypeInv, JournalRight
<1>3. Edited /\ History \in journal'.authorized
  BY <1>2 DEF Authorize, Edited, BooksKept, JournalGrows, JournalRight, IsJournal, Fields, Unresolved
<1>4. Goes(run')
  BY <1>1, AtFacts DEF Authorize
<1> QED BY <1>1, <1>3, <1>4, MovesKeep

LEMMA KeepKeeps ==
  ASSUME IInv, Keep
  PROVE  Kept
<1>1. AtStep /\ Here.do \in {"keep", "resume"} /\ UNCHANGED <<jobs, log, io, discord>> /\ TypeInv
  BY DEF Keep, At, AtStep, Quiet, IInv
<1>2. JournalRight(journal) /\ IsJournal(journal) /\ run.last \in Owners /\ None \in Owners
  BY <1>1, PathsKnown DEF TypeInv, JournalRight, Process
<1>3. PICK x \in Owners : journal' = [journal EXCEPT !.kept = x]
  BY <1>2 DEF Keep
<1>4. Edited
  BY <1>2, <1>3 DEF Edited, BooksKept, JournalGrows, JournalRight, IsJournal, Fields, Unresolved
<1>5. Goes(run')
  BY <1>1, AtFacts DEF Keep
<1> QED BY <1>1, <1>4, <1>5, MovesKeep

LEMMA TellKeeps ==
  ASSUME IInv, Tell
  PROVE  Kept
<1> DEFINE r == [run EXCEPT !.told = FALSE]
<1>1. /\ io.at = "none" /\ run.told /\ UNCHANGED <<jobs, journal, log, io>> /\ run' = Go(r, 1)
      /\ discord' = [discord EXCEPT !.told = @ + 1] /\ TypeInv /\ InJob /\ Here.do = "prompt"
  BY DEF Tell, Quiet, IInv, PhaseInv
<1>2. /\ r \in Process /\ r.phase = run.phase /\ r.at = run.at /\ r.job = run.job
      /\ r.only = run.only /\ r.resume = run.resume /\ ~r.told /\ r.raised = run.raised
  BY <1>1 DEF TypeInv, Process
<1>3. Goes(run')
  BY <1>1, <1>2, GoFacts
<1>4. Edited
  BY <1>1, SameEdited
<1>5. discord \in World
  BY <1>1 DEF TypeInv
<1>6. discord' \in World /\ discord'.told = discord.told + 1 /\ DiscordKept
  BY <1>1, <1>5 DEF World, DiscordKept
<1>7. Words' = Words
  BY <1>1, <1>3, <1>5, <1>6 DEF Words, Goes, Walks, Same, World
<1>8. jobs[run.job] = "checkouts" => journal'.prompted
  <2>1. Words > 0
    BY <1>1, <1>5 DEF Words, World
  <2>2. jobs[run.job] = "checkouts" => ~Old
    BY <1>1, OldFacts DEF OldJobs
  <2> QED BY <1>1, <2>1, <2>2 DEF IInv, WordsInv
<1>9. EntitledInv'
  BY <1>1, <1>3, <1>4, <1>8, GoesEntitled DEF IInv, Edited
<1>10. Still
  BY <1>1, <1>4, <1>6 DEF Still, Edited
<1> QED BY <1>1, <1>3, <1>4, <1>6, <1>7, <1>9, <1>10, GoesKeeps DEF Edited, InJob

LEMMA PromptKeeps ==
  ASSUME IInv, Prompt
  PROVE  Kept
<1>1. AtStep /\ Here.do = "prompt" /\ UNCHANGED <<jobs, log, io, discord>> /\ TypeInv
  BY DEF Prompt, At, AtStep, Quiet, IInv
<1>2. CASE ~(Old \/ ~journal.prompted)
  <2>1. run' = Go(run, 1) /\ journal' = journal
    BY <1>2 DEF Prompt
  <2>2. Goes(run') /\ Edited
    BY <1>1, <2>1, AtFacts, SameEdited
  <2> QED BY <1>1, <1>2, <2>1, <2>2, MovesKeep
<1>3. CASE Old \/ ~journal.prompted
  <2>1. run' = [run EXCEPT !.told = TRUE] /\ journal' = [journal EXCEPT !.prompted = ~Old]
    BY <1>3 DEF Prompt
  <2>2. JournalRight(journal) /\ IsJournal(journal) /\ (Old => ~journal.prompted)
    BY <1>1 DEF TypeInv, JournalRight, IInv, WordsInv
  <2>3. Edited /\ (journal'.prompted <=> ~Old)
    <3>1. IsJournal(journal') /\ (journal'.prompted <=> ~Old) /\ journal'.prompted \in BOOLEAN
      BY <2>1, <2>2 DEF IsJournal, Fields, Old
    <3>2. journal.prompted \in BOOLEAN
      BY <2>2 DEF JournalRight
    <3>3. /\ journal'.held = journal.held /\ journal'.deleted = journal.deleted
          /\ journal'.command = journal.command /\ journal'.baseline = journal.baseline
          /\ journal'.manual = journal.manual /\ journal'.authorized = journal.authorized
          /\ journal'.errors = journal.errors /\ journal'.kept = journal.kept
          /\ journal'.complete = journal.complete /\ journal'.status = journal.status
          /\ journal'.done = journal.done
          /\ Unresolved(journal') = Unresolved(journal)
      BY <2>1, <2>2 DEF IsJournal, Fields, Unresolved
    <3>4. JournalRight(journal')
      BY <2>2, <3>1, <3>3 DEF JournalRight
    <3>5. BooksKept
      BY <2>2, <3>1, <3>3 DEF BooksKept
    <3>6. (journal.prompted => journal'.prompted) /\ (Old => journal'.prompted = journal.prompted)
      BY <2>2, <3>1, <3>2
    <3> QED BY <3>1, <3>3, <3>4, <3>5, <3>6 DEF Edited, JournalGrows
  <2>4. /\ run' \in Process /\ run'.told /\ run'.phase = run.phase /\ run'.at = run.at
        /\ run'.job = run.job /\ run'.resume = run.resume /\ run'.phase = "jobs"
        /\ run'.raised = run.raised
    BY <1>1, <2>1, AtFacts DEF Process
  <2>5. Still
    BY <1>1, <2>3 DEF Still, Edited, DiscordKept
  <2>6. TypeInv'
    BY <1>1, <2>3, <2>4 DEF TypeInv, Edited
  <2>7. Old' = Old /\ Script' = Script /\ InJob' = InJob /\ Here' = Here
    BY <1>1, <2>4 DEF Old, Script, InJob, Here
  <2>8. PhaseInv'
    <3>1. journal'.status # "new"
      BY <2>3, <2>4 DEF IInv, PhaseInv, Edited, JournalGrows
    <3>2. run'.told => io'.at = "none" /\ InJob' /\ Here'.do = "prompt"
      BY <1>1, <2>7 DEF AtStep
    <3>3. Earlier \subseteq journal'.baseline
      BY <2>3, <2>4 DEF IInv, PhaseInv, Edited, JournalGrows
    <3>4. run'.resume => ~Old'
      BY <2>4, <2>7 DEF IInv, PhaseInv
    <3> QED BY <1>1, <2>4, <3>1, <3>2, <3>3, <3>4 DEF PhaseInv, AtStep
  <2>9. EntitledInv'
    BY <1>1, <2>3, <2>4 DEF IInv, EntitledInv, InJobs, Edited, JournalGrows
  <2>10. WordsInv'
    <3>1. discord.told \in Nat /\ Words = discord.told /\ Words' = discord.told + 1
      BY <1>1, <2>4 DEF Words, AtStep, TypeInv, World
    <3>2. Old => run.at = 2
      BY <1>1, HereFacts, OldFacts DEF Sane, PurchaseStep, OldJobs, AtStep
    <3>3. Words = 0
      BY <1>1, <1>3, <3>1, <3>2 DEF IInv, WordsInv, AtStep, InJob
    <3> QED BY <2>3, <2>4, <2>7, <3>1, <3>2, <3>3 DEF WordsInv
  <2>11. CloseInv'
    BY <2>3, <2>4 DEF IInv, CloseInv, Cleaning, Edited, JournalGrows
  <2>12. EndInv'
    BY <1>1, <2>3, <2>4, StaysEnd DEF IInv, EndInv, JobsInv, Edited, BooksKept, AtStep
  <2> QED BY <2>5, <2>6, <2>8, <2>9, <2>10, <2>11, <2>12, StaysOpen DEF Kept, IInv
<1> QED BY <1>2, <1>3

LEMMA SelectKeeps ==
  ASSUME IInv, Select
  PROVE  Kept
<1>1. AtStep /\ Here.do = "select" /\ UNCHANGED <<jobs, log, io, discord>> /\ TypeInv
  BY DEF Select, At, AtStep, Quiet, IInv
<1>2. CASE run' = Go(run, 1) /\ journal' = [journal EXCEPT !.manual = @ \cup {Purchase}]
  <2>1. JournalRight(journal) /\ IsJournal(journal)
    BY <1>1 DEF TypeInv, JournalRight
  <2>2. /\ JournalRight(journal') /\ JournalGrows /\ Purchase \in journal'.manual
        /\ journal'.manual = journal.manual \cup {Purchase}
        /\ Unresolved(journal') = Unresolved(journal)
        /\ journal'.held = journal.held /\ journal'.deleted = journal.deleted
        /\ journal'.command = journal.command /\ journal'.baseline = journal.baseline
        /\ journal'.authorized = journal.authorized /\ journal'.prompted = journal.prompted
        /\ journal'.status = journal.status
    BY <1>2, <2>1 DEF JournalGrows, JournalRight, IsJournal, Fields, Unresolved
  <2>3. Purchase \notin Owned(journal)
    BY <2>1, PathsKnown DEF JournalRight, Owned
  <2>4. Notes
    BY <1>1, <2>2, <2>3 DEF Notes, IInv, OwnInv, HeldInv
  <2>5. Goes(run')
    BY <1>1, <1>2, AtFacts
  <2>6. EntitledInv'
    BY <1>1, <2>2, <2>5, GoesEntitled DEF IInv, AtStep
  <2>7. Words' = Words /\ discord' \in World
    BY <1>1, <2>5 DEF Words, Goes, Walks, Same, AtStep, TypeInv
  <2> QED BY <1>1, <2>2, <2>4, <2>5, <2>6, <2>7, GoesKeeps DEF AtStep, InJob
<1>3. CASE run' = Raise(run, "runtime", journal) /\ UNCHANGED journal
  <2>1. Raised(run') /\ Edited
    BY <1>1, <1>3, RaisedFacts, AtFacts, SameEdited DEF Kinds
  <2> QED BY <1>1, <2>1, RaisedKeeps DEF AtStep, InJob
<1> QED BY <1>2, <1>3 DEF Select

-----------------------------------------------------------------------------
(* The steps of a job that write. *)

LEMMA MoveKeeps ==
  ASSUME IInv, AtStep, Here.do \notin {"authorize", "prompt", "select"},
         \E k \in {1, Here.no} : Move(k)
  PROVE  Kept
<1>1. UNCHANGED <<jobs, log, io, discord, journal>> /\ TypeInv
  BY DEF Move, Quiet, IInv
<1>2. Goes(run')
  BY <1>1, AtFacts DEF Move
<1> QED BY <1>1, <1>2, SameEdited, MovesKeep

LEMMA AgainKeeps ==
  ASSUME IInv, Again
  PROVE  Kept
  BY MoveKeeps DEF Again, At, AtStep

LEMMA JobWrites ==
  ASSUME IInv, AtStep, NEW path \in Path, NEW case, Begin(path, case), Due(path),
         Here.do \in Writing
  PROVE  Kept
<1>1. Flights(path)
  BY AtFacts DEF Flights, AtStep, Cleaning, IInv
<1> QED BY <1>1, BeginKeeps

LEMMA CreateKeeps ==
  ASSUME IInv, CreateStep
  PROVE  Kept
<1>1. AtStep /\ Here.do \in Writing /\ Begin(Create_, Case)
  BY DEF CreateStep, At, AtStep, Writing
<1>2. Due(Create_)
  BY <1>1, PathsKnown, AtFacts DEF Due, IInv, PhaseInv
<1> QED BY <1>1, <1>2, JobWrites, PathsKnown

\* A deletion of what the session owns.
LEMMA DeletionDue ==
  ASSUME TypeInv, NEW e \in Owned(journal)
  PROVE  Due(Deletion(e)) /\ Deletion(e) \in Path /\ e \in Grants
<1>1. e \in Grants
  BY DEF TypeInv, JournalRight, Owned
<1> QED BY <1>1, PathsKnown DEF Due

LEMMA RemoveKeeps ==
  ASSUME IInv, RemoveStep
  PROVE  Kept
<1> DEFINE e == Slot(Here.slot)
<1>1. AtStep /\ Here.do \in Writing /\ Here.do = "remove" /\ TypeInv
  BY DEF RemoveStep, At, AtStep, Writing, IInv
<1>2. CASE Removable(e)
  <2>1. Begin(Deletion(e), Case) /\ e \in Owned(journal)
    BY <1>2 DEF RemoveStep, Removable, Deletion
  <2> QED BY <1>1, <2>1, DeletionDue, JobWrites
<1>3. CASE ~Removable(e)
  <2>1. /\ run' = Raise(run, "runtime", journal)
        /\ UNCHANGED <<jobs, log, io, discord, journal>>
    BY <1>3 DEF RemoveStep, Quiet
  <2>2. Raised(run') /\ Edited
    BY <1>1, <2>1, RaisedFacts, AtFacts, SameEdited DEF Kinds
  <2> QED BY <1>1, <2>1, <2>2, RaisedKeeps DEF AtStep, InJob
<1> QED BY <1>2, <1>3

LEMMA RemoveAllKeeps ==
  ASSUME IInv, RemoveAllStep
  PROVE  Kept
<1>1. AtStep /\ Here.do \in Writing /\ Here.do = "removeAll" /\ TypeInv
  BY DEF RemoveAllStep, At, AtStep, Writing, IInv
<1>2. ASSUME NEW e \in Remains, Begin(<<"delete", e>>, <<"each", e>>)
      PROVE  Kept
  <2>1. e \in Owned(journal) /\ Begin(Deletion(e), <<"each", e>>)
    BY <1>2 DEF Remains, Owned, Deletion
  <2> QED BY <1>1, <2>1, DeletionDue, JobWrites
<1>3. CASE Move(1)
  BY <1>1, <1>3, MoveKeeps
<1> QED BY <1>2, <1>3 DEF RemoveAllStep

LEMMA DirectKeeps ==
  ASSUME IInv, DirectStep
  PROVE  Kept
<1>1. AtStep /\ Here.do \in Writing /\ TypeInv /\ Here.do \in {"consume", "delete"}
      /\ Begin(<<Here.do, Slot(Here.slot)>>, Case)
  BY DEF DirectStep, At, AtStep, Writing, IInv
<1>2. Slot(Here.slot) \in Owners
  BY <1>1, PathsKnown DEF Slot, TypeInv, Process
<1>3. <<Here.do, Slot(Here.slot)>> \in Path
  BY <1>1, <1>2 DEF Path, Owners
<1>4. Due(<<Here.do, Slot(Here.slot)>>)
  <2>1. CASE Here.do = "consume"
    BY <2>1 DEF Due, Deletion, Create_, Command, Uncommand
  <2>2. CASE Here.do = "delete"
    <3>1. Sane(jobs[run.job], run.at, Here) /\ run.phase = "jobs"
      BY <1>1, HereFacts DEF AtStep
    <3>2. \/ Here.slot = "nothing"
          \/ Here.slot = "source" /\ jobs[run.job] = "rejections" /\ run.at = 12
          \/ Here.slot = "bought" /\ jobs[run.job] = "checkouts" /\ run.at = 7
      BY <2>2, <3>1 DEF Sane, RejectionStep, CheckoutStep, OtherStep, Special
    <3>3. CASE Here.slot = "nothing"
      BY <2>2, <3>3, PathsKnown DEF Due, Deletion, Slot, Ids
    <3>4. CASE Here.slot = "source" /\ jobs[run.job] = "rejections" /\ run.at = 12
      <4>1. History \in journal.authorized /\ Slot(Here.slot) = History
        BY <3>1, <3>4 DEF Slot, IInv, EntitledInv, InJobs
      <4> QED BY <2>2, <4>1, PathsKnown DEF Due, Deletion
    <3>5. CASE Here.slot = "bought" /\ jobs[run.job] = "checkouts" /\ run.at = 7
      <4>1. Purchase \in journal.manual /\ journal.prompted /\ Slot(Here.slot) = Purchase
        BY <3>1, <3>5 DEF Slot, IInv, EntitledInv, InJobs
      <4> QED BY <2>2, <4>1, PathsKnown DEF Due, Deletion
    <3> QED BY <3>2, <3>3, <3>4, <3>5
  <2> QED BY <1>1, <2>1, <2>2
<1> QED BY <1>1, <1>3, <1>4, JobWrites

LEMMA HandlerKeeps ==
  ASSUME IInv, HandlerStep
  PROVE  Kept
<1> DEFINE e == IF Here.do = "resume" THEN journal.kept ELSE Slot(Here.slot)
           goes == e \in journal.held /\ ~(Here.do # "release" /\ journal.pending # {})
<1>1. AtStep /\ Here.do \in Writing /\ TypeInv /\ Here.do \in Handler \cup {"resume"}
  BY DEF HandlerStep, At, AtStep, Writing, IInv, Handler
<1>2. CASE goes
  <2>1. Begin(Deletion(e), Case) /\ e \in Owned(journal)
    BY <1>2 DEF HandlerStep, Owned, Deletion
  <2> QED BY <1>1, <2>1, DeletionDue, JobWrites
<1>3. CASE ~goes
  <2>1. Move(1)
    BY <1>3 DEF HandlerStep
  <2> QED BY <1>1, <2>1, MoveKeeps DEF Handler
<1> QED BY <1>2, <1>3

-----------------------------------------------------------------------------
(* Writes that end: lost, abandoned, answered. *)

LEMMA IdleRight == Idle \in Process /\ IoRight(NoIo) /\ NoIo.at = "none"
  BY PathsKnown DEF Idle, Process, Phases, IoRight, IsIo, NoIo

LEMMA DropsKept ==
  ASSUME IInv, Drops, jobs' = jobs, JournalRight(journal'),
         run' \in Process, run'.job \in DOMAIN jobs
  PROVE  /\ TypeInv' /\ WriteInv' /\ OwnInv' /\ CommandInv' /\ Promised
         /\ io'.at = "none" /\ discord'.told = discord.told
<1>1. Sound /\ TypeInv /\ WriteInv
  BY DEF IInv, Sound
<1>2. WriteInv' /\ OwnInv' /\ CommandInv' /\ Promised
  BY <1>1, DropsWrites, DropsOwn, DropsPromised
<1>3. discord' \in World /\ discord'.told = discord.told
  BY <1>1, DropsFacts, OpenFacts DEF TypeInv, World
<1>4. log' \in [Path -> [is : RowKinds, id : Owners]]
  <2>1. Row("lost", None) \in [is : RowKinds, id : Owners]
    BY PathsKnown DEF Row, RowKinds
  <2> QED BY <1>1, <2>1 DEF Drops, TypeInv
<1>5. IoRight(io') /\ io'.at = "none"
  BY IdleRight DEF Drops
<1> QED BY <1>1, <1>2, <1>3, <1>4, <1>5 DEF TypeInv

LEMMA InFlight ==
  ASSUME IInv, io.at # "none"
  PROVE  /\ ~run.told /\ run.phase \notin {"off", "over"} /\ TypeInv /\ run.job \in DOMAIN jobs
         /\ Intent(io.path, io.case) \in Unresolved(journal) /\ io.path \in Path
         /\ Intent(io.path, io.case).path = io.path /\ Intent(io.path, io.case).case = io.case
  BY DEF IInv, PhaseInv, TypeInv, WriteInv, FlightInv, IoRight, Intent

LEMMA LosingKept ==
  ASSUME IInv, NEW case, journal' = Losing(case)
  PROVE  /\ JournalRight(journal') /\ BooksKept /\ JournalGrows /\ journal'.errors = journal.errors
         /\ journal'.status = "uncertain_write" \/ (Old /\ journal' = journal)
<1>1. JournalRight(journal) /\ IsJournal(journal)
  BY DEF IInv, TypeInv, JournalRight
<1>2. CASE Old
  BY <1>1, <1>2 DEF Losing, BooksKept, JournalGrows
<1>3. CASE ~Old
  <2>1. journal' = [journal EXCEPT !.failed = @ \cup {case}, !.status = "uncertain_write"]
    BY <1>1, <1>3 DEF Losing, Failing, IsJournal, Fields
  <2> QED BY <1>1, <1>3, <2>1 DEF BooksKept, JournalGrows, JournalRight, IsJournal, Fields, Unresolved
<1> QED BY <1>2, <1>3

LEMMA AbandonKeeps ==
  ASSUME IInv, NEW kind \in Kinds, Abandon(kind), io.at # "none", discord' = Orphaned,
         \/ log' = log
         \/ io.at \in {"sent", "answered"} /\ log' = [log EXCEPT ![io.path] = Row("lost", None)]
  PROVE  Kept
<1>1. /\ jobs' = jobs /\ JournalRight(journal') /\ BooksKept /\ JournalGrows /\ io' = NoIo
      /\ journal'.errors = journal.errors
      /\ journal'.status = "uncertain_write" \/ (Old /\ journal' = journal)
  BY LosingKept DEF Abandon
<1>2. Drops /\ Unresolved(journal') = Unresolved(journal) /\ Unresolved(journal) # {}
  BY <1>1, InFlight DEF Drops, BooksKept
<1>3. CASE Cleaning(run) /\ kind # "cancel"
  <2>1. run' = [run EXCEPT !.tried = @ \cup {io.path}, !.errors = TRUE]
    BY <1>3 DEF Abandon
  <2>2. Stays(run') /\ run'.errors
    BY <2>1, InFlight DEF Stays, TypeInv, Process
  <2>3. /\ TypeInv' /\ WriteInv' /\ OwnInv' /\ CommandInv' /\ Promised
        /\ io'.at = "none" /\ discord'.told = discord.told
    BY <1>1, <1>2, <2>2, DropsKept, InFlight DEF Stays
  <2>4. EntitledInv' /\ WordsInv' /\ PhaseInv'
    BY <1>1, <1>3, <2>2, <2>3, StaysProcess, StaysPhase, InFlight DEF BooksKept, Cleaning
  <2>5. CloseInv'
    BY <1>1, <1>3, <2>2, InFlight DEF IInv, CloseInv, Stays, Cleaning
  <2>6. EndInv'
    BY <1>1, <1>2, <1>3, <2>2, <2>3, StaysEnd DEF IInv, Stays, Cleaning
  <2> QED BY <2>3, <2>4, <2>5, <2>6 DEF Kept, IInv
<1>4. CASE ~(Cleaning(run) /\ kind # "cancel")
  <2>1. run' = Raise(run, kind, journal)
    BY <1>4 DEF Abandon
  <2>2. Raised(run') /\ Goes(run') /\ Walks(run') /\ run'.raised # "no"
    BY <1>2, <2>1, RaisedFacts, InFlight DEF Goes
  <2>3. /\ TypeInv' /\ WriteInv' /\ OwnInv' /\ CommandInv' /\ Promised
        /\ io'.at = "none" /\ discord'.told = discord.told
    BY <1>1, <1>2, <2>2, DropsKept, InFlight DEF Walks, Same
  <2>4. Words' = Words
    BY <2>2, <2>3, InFlight DEF Words, Walks, Same
  <2>5. EntitledInv' /\ WordsInv' /\ PhaseInv' /\ CloseInv'
    BY <1>1, <2>2, <2>3, <2>4, RaisedEntitled, WalksWords, WalksPhase, WalksClose DEF IInv
  <2>6. EndInv'
    BY <1>1, <1>2, <2>2, <2>3, GoesEnd DEF IInv
  <2> QED BY <2>3, <2>5, <2>6 DEF Kept, IInv
<1> QED BY <1>3, <1>4

LEMMA LoseKeeps ==
  ASSUME IInv, Lose
  PROVE  Kept
<1>1. io.at \in {"begun", "sent", "answered"} /\ discord' = Orphaned
  BY DEF Lose
<1>2. PICK kind \in Kinds : Abandon(kind)
  BY DEF Lose, Kinds
<1>3. \/ log' = log
      \/ io.at \in {"sent", "answered"} /\ log' = [log EXCEPT ![io.path] = Row("lost", None)]
  BY <1>1 DEF Lose
<1> QED BY <1>1, <1>2, <1>3, AbandonKeeps

LEMMA CrashKeeps ==
  ASSUME IInv, Crash
  PROVE  Kept
<1>1. run' = Idle /\ io' = NoIo /\ discord' = Orphaned /\ UNCHANGED <<jobs, journal, log>>
      /\ run.phase \notin {"off", "over"} /\ TypeInv
  BY DEF Crash, IInv
<1>2. Edited
  BY <1>1, SameEdited
<1>3. Drops
  BY <1>1, <1>2 DEF Drops, Edited
<1>4. Idle.job = 1 /\ Idle.phase = "off" /\ ~Idle.resume /\ ~Idle.told /\ Idle.raised = "no"
  BY DEF Idle
<1>5. /\ TypeInv' /\ WriteInv' /\ OwnInv' /\ CommandInv' /\ Promised
      /\ io'.at = "none" /\ discord'.told = discord.told
  BY <1>1, <1>2, <1>3, <1>4, DropsKept, IdleRight, ScriptFacts DEF Edited
<1>6. PhaseInv'
  BY <1>1, <1>4, <1>5 DEF IInv, PhaseInv
<1>7. EntitledInv' /\ CloseInv'
  BY <1>1, <1>4 DEF EntitledInv, InJobs, IInv, CloseInv, Cleaning
<1>8. WordsInv'
  <2>1. Old' = Old /\ discord.told \in Nat /\ Words' = discord.told
    BY <1>1, <1>4, <1>5 DEF Old, Words, TypeInv, World
  <2>2. Words' \in Nat /\ Words \in Nat /\ Words' <= Words
    BY <2>1 DEF Words
  <2>3. journal'.status # "new" /\ run'.phase = "off" /\ journal' = journal
    BY <1>1, <1>4 DEF IInv, PhaseInv
  <2> QED BY <2>1, <2>2, <2>3 DEF IInv, WordsInv
<1>9. EndInv'
  <2>1. Old' = Old /\ Status' = journal.status /\ Open' = Open
    BY <1>1, <1>4 DEF Old, Status, Open
  <2>2. JobsInv'
    BY <1>1, <1>4, <1>5 DEF JobsInv
  <2>3. AllRan => AllRan'
    BY <1>1, <2>1, StillFinished
  <2>4. StatusInv'
    BY <1>1, <1>4, <2>1, <2>3 DEF IInv, EndInv, StatusInv
  <2> QED BY <2>2, <2>4 DEF EndInv
<1> QED BY <1>5, <1>6, <1>7, <1>8, <1>9 DEF Kept, IInv

LEMMA ClearsKept ==
  ASSUME IInv, NEW i, Clears(i), jobs' = jobs, JournalRight(journal'), IoRight(io'),
         run' \in Process, run'.job \in DOMAIN jobs
  PROVE  /\ TypeInv' /\ WriteInv' /\ OwnInv' /\ CommandInv' /\ Promised
         /\ io'.at = "none" /\ discord'.told = discord.told
         /\ Unresolved(journal') \subseteq Unresolved(journal)
<1>1. Sound /\ TypeInv /\ WriteInv /\ Leaves(i)
  BY DEF IInv, Sound, Clears
<1>2. WriteInv' /\ OwnInv' /\ CommandInv' /\ Promised
  BY <1>1, LeavesWrites, ClearsOwn, LeavesPromised
<1>3. discord' \in World /\ discord'.told = discord.told
  BY <1>1 DEF Leaves, Forget, TypeInv, World
<1>4. log' \in [Path -> [is : RowKinds, id : Owners]]
  <2>1. Row("none", None) \in [is : RowKinds, id : Owners]
    BY PathsKnown DEF Row, RowKinds
  <2> QED BY <1>1, <2>1 DEF Leaves, Forget, TypeInv
<1>5. io'.at = "none" /\ Unresolved(journal') \subseteq Unresolved(journal)
  BY <1>1 DEF Leaves
<1> QED BY <1>1, <1>2, <1>3, <1>4, <1>5 DEF TypeInv

\* What the caller of a settled write does.
LEMMA ContinueFacts ==
  ASSUME IInv, io.at = "received", NEW answer, NEW id \in Owners
  PROVE  LET q == Continue(run, answer, id) IN
         \/ /\ Cleaning(run)
            /\ q = [run EXCEPT !.tried = @ \cup {io.path},
                               !.errors = @ \/ ~Confirmed(io.path, answer) \/ (Old /\ answer # "ok")]
         \/ run.phase = "connect" /\ q = To([run EXCEPT !.at = 1], "jobs")
         \/ run.phase \in {"connect", "jobs"} /\ Raised(q)
         \/ run.phase = "jobs" /\ Stays(q)
         \/ InJob /\ Here.do \in Writing /\ Goes(q)
<1> DEFINE q == Continue(run, answer, id)
<1>1. TypeInv /\ run \in Process /\ ~run.told /\ run.phase \notin {"off", "over"}
  BY InFlight DEF TypeInv
<1>2. run.phase \in {"recover", "close", "connect", "jobs"}
  BY DEF IInv, PhaseInv
<1>3. CASE Cleaning(run)
  BY <1>3 DEF Continue, Cleaning
<1>4. CASE run.phase = "connect"
  <2>1. q = To([run EXCEPT !.at = 1], "jobs") \/ q = Raise(run, "runtime", journal')
    BY <1>4 DEF Continue, Cleaning
  <2> QED BY <1>1, <1>4, <2>1, RaisedFacts DEF Kinds
<1>5. CASE run.phase = "jobs"
  <2>1. InJob /\ Here.do \in Writing
    BY <1>5 DEF IInv, PhaseInv
  <2> DEFINE r == [run EXCEPT !.first = IF Here.slot = "first" THEN id ELSE @,
                             !.last = IF Here.slot = "last" THEN id ELSE @]
  <2>2. \/ q = Raise(run, "runtime", journal')
        \/ q = [run EXCEPT !.tried = @ \cup {io.path}]
        \/ q = run
        \/ q = Go(r, 1)
        \/ q = Go(run, 1)
        \/ q = Go(run, Here.no)
    BY <1>5, <2>1 DEF Continue, Cleaning, Writing
  <2>3. /\ r \in Process /\ r.phase = run.phase /\ r.at = run.at /\ r.job = run.job
        /\ r.only = run.only /\ r.resume = run.resume /\ ~r.told /\ r.raised = run.raised
    BY <1>1 DEF Process
  <2>4. Goes(Go(r, 1)) /\ Goes(Go(run, 1)) /\ Goes(Go(run, Here.no))
    BY <1>1, <2>1, <2>3, GoFacts
  <2>5. Stays(run) /\ Stays([run EXCEPT !.tried = @ \cup {io.path}])
    BY <1>1, InFlight DEF Stays, Process
  <2>6. Raised(Raise(run, "runtime", journal'))
    BY <1>1, RaisedFacts DEF Kinds
  <2> QED BY <1>5, <2>1, <2>2, <2>4, <2>5, <2>6
<1> QED BY <1>2, <1>3, <1>4, <1>5 DEF Cleaning

LEMMA AnswerFacts ==
  ASSUME IInv, Received, ~(io.answer = "limited" \/ ~Settleable(journal, io.path, io.answer, io.id))
  PROVE  LET i == Intent(io.path, io.case) IN
         /\ Clears(i) /\ JournalRight(journal') /\ JournalGrows /\ jobs' = jobs /\ io' = NoIo
         /\ journal'.status = journal.status
         /\ ~Cleaning(run) => Unresolved(journal') = {}
         /\ run' = Continue(run, io.answer, io.id) /\ io.id \in Owners
         /\ Confirmed(io.path, io.answer) =>
              /\ \A e \in Grants : io.path = Deletion(e) => e \notin journal'.held
              /\ io.path = Uncommand => journal'.command = "deleted"
<1> DEFINE i == Intent(io.path, io.case)
<1>1. io.at = "received" /\ Sound
  BY DEF Received, IInv, Sound
<1>2. i \in Unresolved(journal) /\ i.path = io.path /\ io.id \in Owners /\ io.answer \in Answers
  BY <1>1, InFlight DEF TypeInv, IoRight
<1>3. log[i.path].is = io.answer /\ log[i.path].id = io.id
  BY <1>1, <1>2 DEF IInv, WriteInv, FlightInv, Row
<1>4. /\ journal' = Settle(journal, i, log[i.path].is, log[i.path].id) /\ Forget(i.path)
      /\ io' = NoIo /\ run' = Continue(run, io.answer, io.id) /\ jobs' = jobs
  BY <1>2, <1>3 DEF Received
<1>5. Settleable(journal, i.path, log[i.path].is, log[i.path].id)
  BY <1>2, <1>3
<1>6. log[i.path].is \notin {"none", "sent", "lost"} /\ io'.at = "none"
  BY <1>2, <1>3, <1>4, IdleRight DEF Answers
<1>7. /\ Clears(i) /\ JournalRight(journal') /\ journal'.status = journal.status
      /\ journal'.done = journal.done
      /\ Confirmed(i.path, log[i.path].is) =>
              /\ \A e \in Grants : i.path = Deletion(e) => e \notin journal'.held
              /\ i.path = Uncommand => journal'.command = "deleted"
  BY <1>1, <1>2, <1>4, <1>5, <1>6, SettleFacts
<1>8. JournalGrows
  BY <1>7 DEF Clears, JournalGrows
<1>9. ~Cleaning(run) => Unresolved(journal') = {}
  BY <1>1, <1>7 DEF Clears, Leaves, IInv, EndInv, JobsInv
<1> QED BY <1>2, <1>3, <1>4, <1>7, <1>8, <1>9

LEMMA TriedProcess ==
  ASSUME NEW r \in Process, NEW path \in Path, NEW e \in BOOLEAN
  PROVE  [r EXCEPT !.tried = r.tried \cup {path}, !.errors = e] \in Process
<1>1. r.tried \cup {path} \in SUBSET Path
  BY DEF Process
<1> QED BY <1>1 DEF Process

LEMMA AnsweredKeeps ==
  ASSUME IInv, Received, ~(io.answer = "limited" \/ ~Settleable(journal, io.path, io.answer, io.id))
  PROVE  Kept
<1> DEFINE i == Intent(io.path, io.case)
           q == Continue(run, io.answer, io.id)
<1>1. io.at = "received" /\ run \in Process /\ run.job \in DOMAIN jobs /\ ~run.told /\ run.phase \notin {"off", "over"}
  BY InFlight DEF Received, TypeInv
<1>2. /\ Clears(i) /\ JournalRight(journal') /\ JournalGrows /\ jobs' = jobs /\ io' = NoIo
      /\ run' = q /\ io.id \in Owners /\ journal'.status = journal.status
      /\ ~Cleaning(run) => Unresolved(journal') = {}
  BY AnswerFacts
<1>3. ASSUME q \in Process, q.job = run.job
      PROVE  /\ TypeInv' /\ WriteInv' /\ OwnInv' /\ CommandInv' /\ Promised
             /\ io'.at = "none" /\ discord'.told = discord.told
             /\ Unresolved(journal') \subseteq Unresolved(journal)
  BY <1>1, <1>2, <1>3, ClearsKept, IdleRight
<1>4. CASE Cleaning(run) /\ q = [run EXCEPT !.tried = @ \cup {io.path},
               !.errors = @ \/ ~Confirmed(io.path, io.answer) \/ (Old /\ io.answer # "ok")]
  <2>1. Stays(q) /\ q.tried = run.tried \cup {io.path}
        /\ (~q.errors => ~run.errors /\ Confirmed(io.path, io.answer))
    <3> DEFINE e == run.errors \/ ~Confirmed(io.path, io.answer) \/ (Old /\ io.answer # "ok")
    <3>1. q = [run EXCEPT !.tried = run.tried \cup {io.path}, !.errors = e]
      BY <1>4
    <3>2. e \in BOOLEAN /\ (~e => ~run.errors /\ Confirmed(io.path, io.answer))
      OBVIOUS
    <3> HIDE DEF e
    <3> HIDE DEF q
    <3>3. q \in Process
      <4>1. [run EXCEPT !.tried = run.tried \cup {io.path}, !.errors = e] \in Process
        BY <1>1, <3>2, InFlight, TriedProcess
      <4> QED BY <3>1, <4>1
    <3> QED BY <1>1, <3>1, <3>2, <3>3 DEF Stays, Process
  <2>2. EntitledInv' /\ WordsInv' /\ PhaseInv'
    BY <1>1, <1>2, <1>3, <1>4, <2>1, StaysProcess, StaysPhase DEF Stays, Cleaning
  <2>3. CloseInv'
    <3>1. q.phase # "end"
      BY <1>1, <1>2, <1>4, <2>1 DEF Stays, Cleaning
    <3>2. io.path = Uncommand \/ \E e \in Grants : io.path = Deletion(e)
      BY <1>1, <1>4 DEF IInv, PhaseInv
    <3>3. journal'.held \subseteq journal.held /\ journal'.held \subseteq Grants
      BY <1>2, <3>2, PathsKnown DEF Clears, Intent, JournalRight
    <3>4. journal'.command = "held" => journal.command = "held"
      BY <3>2, <1>2, PathsKnown DEF Clears, Intent
    <3>5. ASSUME ~q.errors, NEW e \in journal'.held
          PROVE  Deletion(e) \notin q.tried
      <4>1. io.path # Deletion(e)
        BY <2>1, <3>3, <3>5, AnswerFacts
      <4> QED BY <1>4, <2>1, <3>3, <3>5, <4>1 DEF IInv, CloseInv
    <3>6. ASSUME ~q.errors, journal'.command = "held"
          PROVE  Uncommand \notin q.tried
      <4>1. io.path # Uncommand
        BY <2>1, <3>6, AnswerFacts
      <4> QED BY <1>4, <2>1, <3>4, <3>6, <4>1 DEF IInv, CloseInv
    <3> QED BY <1>2, <3>1, <3>5, <3>6 DEF CloseInv
  <2>4. EndInv'
    BY <1>2, <1>3, <1>4, <2>1, StaysEnd DEF IInv, Stays, Cleaning
  <2> QED BY <1>3, <2>1, <2>2, <2>3, <2>4 DEF Kept, IInv, Stays
<1>5. CASE run.phase = "connect" /\ q = To([run EXCEPT !.at = 1], "jobs")
  <2>1. /\ q \in Process /\ q.job = run.job /\ q.phase = "jobs" /\ q.at = 1 /\ ~q.told
        /\ q.resume = run.resume /\ q.raised = run.raised
    <3> DEFINE r == [run EXCEPT !.at = 1]
    <3>1. /\ r \in Process /\ r.job = run.job /\ r.at = 1 /\ ~r.told /\ r.resume = run.resume
          /\ r.raised = run.raised
      BY <1>1 DEF Process
    <3>2. q = [r EXCEPT !.phase = "jobs", !.tried = {}, !.errors = FALSE]
      BY <1>5 DEF To
    <3> HIDE DEF r
    <3> QED BY <3>1, <3>2 DEF Process, Phases
  <2>2. Old' = Old /\ Words' = Words
    BY <1>1, <1>2, <1>3, <2>1 DEF Old, Words
  <2>3. PhaseInv'
    <3>1. journal'.status # "new" /\ Earlier \subseteq journal'.baseline /\ (q.resume => ~Old')
      BY <1>1, <1>2, <1>5, <2>1, <2>2 DEF IInv, PhaseInv, JournalGrows
    <3> QED BY <1>2, <1>3, <2>1, <3>1 DEF PhaseInv
  <2>4. EntitledInv'
    BY <1>2, <2>1 DEF EntitledInv
  <2>5. WordsInv'
    BY <1>2, <1>5, <2>2 DEF IInv, WordsInv, JournalGrows
  <2>6. CloseInv'
    BY <1>1, <1>2, <2>1 DEF CloseInv, Cleaning
  <2>7. EndInv'
    <3>1. Unresolved(journal)' = {}
      BY <1>2, <1>5 DEF Cleaning
    <3>2. JobsInv'
      BY <1>2, <1>3, <2>1, <2>2, <3>1 DEF IInv, EndInv, JobsInv, JournalGrows
    <3>3. journal'.status \notin {"completed", "recovered"} /\ Status' = journal'.status
      BY <1>2, <1>5, <2>1 DEF IInv, EndInv, StatusInv, Status
    <3>4. StatusInv'
      BY <1>2, <2>1, <3>3 DEF StatusInv
    <3> QED BY <3>2, <3>4 DEF EndInv
  <2> QED BY <1>3, <2>1, <2>3, <2>4, <2>5, <2>6, <2>7 DEF Kept, IInv
<1>6. CASE /\ Goes(q) /\ (Raised(q) \/ (InJob /\ Here.do \in Writing))
           /\ run.phase \in {"connect", "jobs"}
  <2>1. q \in Process /\ q.job = run.job /\ ~q.told /\ Walks(q)
    BY <1>6 DEF Goes, Walks, Same
  <2>2. Words' = Words
    BY <1>1, <1>2, <1>3, <2>1 DEF Words
  <2>3. PhaseInv' /\ WordsInv' /\ CloseInv'
    BY <1>1, <1>2, <1>3, <1>6, <2>1, <2>2, WalksPhase, WalksWords, WalksClose DEF IInv
  <2>4. EntitledInv'
    BY <1>2, <1>3, <1>6, <2>1, RaisedEntitled, GoesEntitled DEF IInv, Writing
  <2>5. EndInv'
    BY <1>2, <1>3, <1>6, <2>1, GoesEnd DEF IInv, Cleaning
  <2> QED BY <1>3, <2>1, <2>3, <2>4, <2>5 DEF Kept, IInv
<1>7. CASE run.phase = "jobs" /\ Stays(q)
  <2>1. EntitledInv' /\ WordsInv' /\ PhaseInv'
    BY <1>1, <1>2, <1>3, <1>7, StaysProcess, StaysPhase DEF Stays
  <2>2. CloseInv'
    BY <1>1, <1>2, <1>7 DEF IInv, CloseInv, Stays, Cleaning
  <2>3. EndInv'
    BY <1>2, <1>3, <1>7, StaysEnd DEF IInv, Stays, Cleaning
  <2> QED BY <1>3, <1>7, <2>1, <2>2, <2>3 DEF Kept, IInv, Stays
<1>8. \/ /\ Cleaning(run)
         /\ q = [run EXCEPT !.tried = @ \cup {io.path},
               !.errors = @ \/ ~Confirmed(io.path, io.answer) \/ (Old /\ io.answer # "ok")]
      \/ run.phase = "connect" /\ q = To([run EXCEPT !.at = 1], "jobs")
      \/ run.phase \in {"connect", "jobs"} /\ Raised(q)
      \/ run.phase = "jobs" /\ Stays(q)
      \/ InJob /\ Here.do \in Writing /\ Goes(q)
  BY <1>1, <1>2, ContinueFacts
<1>9. (Raised(q) => Goes(q)) /\ (InJob => run.phase = "jobs")
  BY DEF Raised, Goes, Walks, InJob
<1> QED BY <1>4, <1>5, <1>6, <1>7, <1>8, <1>9

LEMMA ReceivedKeeps ==
  ASSUME IInv, Received
  PROVE  Kept
<1>1. CASE io.answer = "limited" \/ ~Settleable(journal, io.path, io.answer, io.id)
  <2>1. Abandon("runtime") /\ UNCHANGED <<log, discord>> /\ io.at = "received"
    BY <1>1 DEF Received
  <2>2. discord' = Orphaned
    BY <2>1 DEF Orphaned, IInv, TypeInv, World
  <2> QED BY <2>1, <2>2, AbandonKeeps DEF Kinds
<1> QED BY <1>1, AnsweredKeeps

-----------------------------------------------------------------------------
(* The phases of a run. *)

\* From one phase to the next.
LEMMA PhaseKeeps ==
  ASSUME IInv, Still \/ Notes, JournalRight(journal'), JournalGrows, discord' \in World,
         discord'.told = discord.told, jobs' = jobs, io.at = "none",
         run.phase \notin {"off", "over", "jobs", "end"},
         NEW phase \in {"reconcile", "recover", "prepare", "connect", "close", "end"},
         run' = To(run, phase), run.phase = "close" => phase = "end",
         phase = "connect" => Earlier \subseteq journal'.baseline,
         phase \in {"prepare", "connect"} => journal.command # "held",
         phase = "reconcile" => journal'.pending = {} /\ run.phase = "app",
         phase = "end" /\ ~journal'.errors /\ run.raised = "no" => ~Left,
         phase \in {"reconcile", "recover", "close"} => ~Old,
         CASE phase = "close" -> journal'.status = "recovered"
           [] phase = "end" -> run.phase = "close" /\ journal'.status \in {journal.status, Status}
           [] OTHER -> journal'.status = journal.status
  PROVE  Kept
<1>1. /\ run \in Process /\ run.job \in DOMAIN jobs /\ ~run.told
  BY DEF IInv, TypeInv, PhaseInv, InJob
<1>2. /\ run' \in Process /\ run'.job = run.job /\ ~run'.told /\ run'.phase = phase
      /\ run'.resume = run.resume /\ run'.tried = {} /\ ~run'.errors /\ run'.raised = run.raised
  BY <1>1 DEF To, Process, Phases
<1>3. /\ io' = io /\ Unresolved(journal') = Unresolved(journal)
      /\ journal'.command = journal.command /\ journal'.held = journal.held /\ log' = log
  BY DEF Still, Notes, BooksKept
<1>4. TypeInv'
  BY <1>1, <1>2, <1>3 DEF IInv, TypeInv
<1>5. Old' = Old /\ Words' = Words /\ Left' = Left
  BY <1>1, <1>2, <1>3 DEF Old, Words, Left
<1>6. PhaseInv'
  <2>1. journal'.status # "new" /\ (run'.resume => ~Old')
    BY <1>2, <1>5 DEF IInv, PhaseInv, JournalGrows
  <2>2. ~run'.resume /\ run'.phase \in {"app", "reconcile"} =>
          journal'.command = "no" /\ Unresolved(journal)' = {}
    BY <1>2, <1>3 DEF IInv, PhaseInv
  <2>3. run'.phase \in {"connect", "jobs"} => Earlier \subseteq journal'.baseline
    BY <1>2
  <2>4. run'.phase \in {"prepare", "connect"} => journal'.command # "held"
    BY <1>2, <1>3
  <2> QED BY <1>2, <1>3, <2>1, <2>2, <2>3, <2>4 DEF PhaseInv
<1>7. EntitledInv'
  BY <1>2 DEF EntitledInv, InJobs
<1>8. WordsInv'
  BY <1>2, <1>5 DEF IInv, WordsInv, JournalGrows
<1>9. CloseInv'
  BY <1>2, <1>5 DEF IInv, CloseInv
<1>10. JobsInv'
  BY <1>2, <1>3, <1>5 DEF IInv, EndInv, JobsInv, JournalGrows
<1>11. StatusInv'
  <2>1. AllRan => AllRan'
    BY <1>3, SameOpen, StillFinished DEF JournalGrows
  <2>2. CASE phase = "close"
    <3>1. journal'.status = "recovered" /\ Status' = "recovered" /\ run.raised = "no"
      BY <2>2 DEF Status, IInv, EndInv, JobsInv
    <3> QED BY <1>2, <1>5, <2>2, <3>1 DEF StatusInv
  <2>3. CASE phase = "end"
    <3>1. run.phase = "close" /\ journal'.status \in {journal.status, Status}
      BY <2>3
    <3>2. Status' = Status
      BY <1>2, <1>5, <2>3, <3>1 DEF Status
    <3> QED BY <1>2, <1>5, <2>1, <2>3, <3>1, <3>2, StatusFacts DEF IInv, EndInv, StatusInv
  <2>4. CASE phase \notin {"close", "end"}
    <3>1. journal'.status = journal.status /\ run.phase \notin {"off", "over", "close", "end"}
      BY <2>4
    <3>2. journal'.status \notin {"completed", "recovered"} /\ Status' = journal'.status
      BY <1>2, <2>4, <3>1 DEF IInv, EndInv, StatusInv, Status
    <3> QED BY <1>2, <2>4, <3>2 DEF StatusInv
  <2> QED BY <2>2, <2>3, <2>4
<1> QED BY <1>4, <1>6, <1>7, <1>8, <1>9, <1>10, <1>11, StaysOpen DEF Kept, IInv, EndInv

\* A phase that only reads, or decides.
LEMMA PhaseFacts ==
  ASSUME IInv, run.phase \notin {"jobs"}
  PROVE  ~run.told /\ TypeInv /\ JournalRight(journal) /\ IsJournal(journal) /\ discord \in World
  BY DEF IInv, TypeInv, PhaseInv, InJob, JournalRight

LEMMA BreakKeeps ==
  ASSUME IInv, Break
  PROVE  Kept
<1>1. io.at = "none" /\ run.phase \in {"app", "prepare", "connect"}
      /\ UNCHANGED <<jobs, log, io, discord, journal>>
  BY DEF Break, Phase, Quiet
<1>2. PICK kind \in Kinds : run' = Raise(run, kind, journal)
  BY DEF Break
<1>3. Raised(run') /\ Edited /\ ~run.told
  BY <1>1, <1>2, PhaseFacts, RaisedFacts, SameEdited
<1> QED BY <1>1, <1>3, RaisedKeeps

LEMMA LaunchKeeps ==
  ASSUME IInv, Launch
  PROVE  Kept
<1>1. PICK resume \in BOOLEAN, only \in BOOLEAN :
        /\ resume = (journal.status # "new") /\ (resume => ~Old)
        /\ run' = [Idle EXCEPT !.phase = "app", !.resume = resume, !.only = only]
  BY DEF Launch
<1>2. /\ run.phase \in {"off", "over"}
      /\ journal' = [journal EXCEPT !.status = IF Old THEN "incomplete" ELSE "running"]
      /\ UNCHANGED <<jobs, log, io, discord>>
  BY DEF Launch, Quiet
<1>3. io.at = "none" /\ ~run.told /\ TypeInv
  BY <1>2, PhaseFacts DEF IInv, PhaseInv
<1>4. /\ run' \in Process /\ run'.phase = "app" /\ run'.resume = resume /\ ~run'.told
      /\ run'.job = 1 /\ run'.raised = "no"
  <2>1. run' \in Process
    BY <1>1, IdleRight DEF Process, Phases
  <2> QED BY <1>1, <2>1 DEF Idle, Process
<1>5. /\ JournalRight(journal') /\ BooksKept /\ journal'.status \in {"running", "incomplete"}
      /\ journal'.authorized = journal.authorized /\ journal'.manual = journal.manual
      /\ journal'.baseline = journal.baseline /\ journal'.prompted = journal.prompted
  BY <1>2, <1>3 DEF TypeInv, JournalRight, IsJournal, Fields, BooksKept, Unresolved
<1>6. Still
  BY <1>2, <1>5 DEF Still, DiscordKept
<1>7. TypeInv'
  BY <1>2, <1>3, <1>4, <1>5, ScriptFacts DEF TypeInv
<1>8. PhaseInv'
  <2>1. ~resume => journal'.command = "no" /\ Unresolved(journal') = {}
    BY <1>1, <1>5 DEF IInv, PhaseInv, BooksKept
  <2>2. run'.resume => ~Old'
    BY <1>1, <1>2, <1>4 DEF Old
  <2> QED BY <1>2, <1>3, <1>4, <1>5, <2>1, <2>2 DEF PhaseInv
<1>9. EntitledInv' /\ CloseInv'
  BY <1>4, <1>5 DEF EntitledInv, InJobs, CloseInv, Cleaning
<1>10. WordsInv'
  <2>1. Old' = Old /\ Words' = Words /\ journal'.prompted = journal.prompted
    BY <1>2, <1>3, <1>4, <1>5 DEF Old, Words
  <2>2. ~(Words > 0 /\ Old)
    BY <1>1, <1>2 DEF IInv, WordsInv
  <2> QED BY <2>1, <2>2 DEF IInv, WordsInv
<1>11. EndInv'
  <2>1. JobsInv'
    BY <1>2, <1>3, <1>4 DEF JobsInv
  <2>2. Status' = journal'.status
    BY <1>4 DEF Status
  <2> QED BY <1>4, <1>5, <2>1, <2>2 DEF EndInv, StatusInv
<1> QED BY <1>6, <1>7, <1>8, <1>9, <1>10, <1>11, StaysOpen DEF Kept, IInv

LEMMA AuthenticateKeeps ==
  ASSUME IInv, Authenticate
  PROVE  Kept
<1>1. run.phase = "app" /\ io.at = "none" /\ UNCHANGED <<jobs, log, io, discord>>
  BY DEF Authenticate, Phase, Quiet
<1>2. PICK phase \in {"prepare", "reconcile"} :
         run' = To(run, phase) /\ (phase = "prepare" <=> Old)
  BY DEF Authenticate
<1>3. Edited /\ (~Old => journal'.pending = {})
  <2>1. CASE Old
    BY <1>1, <2>1, SameEdited, PhaseFacts DEF Authenticate
  <2>2. CASE ~Old
    <3>1. journal' = [journal EXCEPT !.uncertain = Unresolved(journal), !.pending = {}]
      BY <2>2 DEF Authenticate
    <3>2. Unresolved(journal') = Unresolved(journal)
      BY <1>1, <3>1, PhaseFacts DEF IsJournal, Fields, Unresolved
    <3>3. journal'.pending = {}
      BY <1>1, <3>1, PhaseFacts DEF IsJournal, Fields
    <3> QED BY <1>1, <3>1, <3>2, <3>3, PhaseFacts
            DEF Edited, BooksKept, JournalGrows, JournalRight, IsJournal, Fields
  <2> QED BY <2>1, <2>2
<1>4. Still
  BY <1>1, <1>3 DEF Still, Edited, DiscordKept
<1>5. phase = "prepare" => journal.command # "held"
  BY <1>1, <1>2 DEF IInv, PhaseInv
<1> QED BY <1>1, <1>2, <1>3, <1>4, <1>5, PhaseFacts, PhaseKeeps DEF Edited

LEMMA ReconciledKeeps ==
  ASSUME IInv, Reconciled
  PROVE  Kept
<1>1. /\ run.phase = "reconcile" /\ io.at = "none"
      /\ UNCHANGED <<jobs, log, io, discord, journal>>
  BY DEF Reconciled, Phase, Quiet
<1>2. Edited /\ ~run.told /\ TypeInv /\ discord \in World
  BY <1>1, PhaseFacts, SameEdited
<1>3. CASE run' = Raise(run, "runtime", journal)
  <2>1. Raised(run')
    BY <1>1, <1>2, <1>3, RaisedFacts DEF Kinds
  <2> QED BY <1>1, <1>2, <2>1, RaisedKeeps
<1>4. CASE run' = To(run, IF run.resume THEN "recover" ELSE "prepare")
  <2>1. Still
    BY <1>1, <1>2 DEF Still, Edited, DiscordKept
  <2>2. ~run.resume => journal.command # "held"
    BY <1>1 DEF IInv, PhaseInv
  <2>3. ~Old
    BY <1>1 DEF IInv, EndInv, JobsInv
  <2> QED BY <1>1, <1>2, <1>4, <2>1, <2>2, <2>3, PhaseKeeps DEF Edited
<1> QED BY <1>3, <1>4 DEF Reconciled

LEMMA PrepareKeeps ==
  ASSUME IInv, Prepare
  PROVE  Kept
<1> DEFINE listing == (discord.live \cup discord.removed) \ Owned(journal)
<1>1. /\ run.phase = "prepare" /\ io.at = "none" /\ UNCHANGED <<jobs, log, io, discord>>
      /\ journal' = [journal EXCEPT !.baseline = @ \cup listing] /\ run' = To(run, "connect")
  BY DEF Prepare, Phase, Quiet
<1>2. JournalRight(journal) /\ IsJournal(journal) /\ discord \in World
  BY <1>1, PhaseFacts
<1>3. listing \subseteq Ids
  BY <1>2 DEF World
<1>4. /\ Unresolved(journal') = Unresolved(journal) /\ Owned(journal)' = Owned(journal)
      /\ journal'.baseline = journal.baseline \cup listing
  BY <1>1, <1>2 DEF IsJournal, Fields, Unresolved, Owned
<1>5. JournalRight(journal')
  BY <1>1, <1>2, <1>3, <1>4 DEF JournalRight, IsJournal, Fields
<1>6. JournalGrows /\ journal'.status = journal.status
  BY <1>1, <1>2 DEF JournalGrows, IsJournal, Fields
<1>7. Notes
  <2>1. Owned(journal) \cap (journal'.baseline \cup journal'.manual) = {}
    BY <1>1, <1>2, <1>4 DEF IInv, OwnInv, HeldInv, IsJournal, Fields
  <2> QED BY <1>1, <1>2, <1>4, <2>1 DEF Notes, IsJournal, Fields
<1>8. Earlier \subseteq journal'.baseline
  BY <1>4 DEF IInv, OwnInv, HeldInv
<1>9. journal.command # "held"
  BY <1>1 DEF IInv, PhaseInv
<1> QED BY <1>1, <1>2, <1>5, <1>6, <1>7, <1>8, <1>9, PhaseKeeps

LEMMA ConnectKeeps ==
  ASSUME IInv, Connect
  PROVE  Kept
<1>1. run.phase = "connect" /\ io.at = "none" /\ ~run.told /\ TypeInv
  BY PhaseFacts DEF Connect, Phase
<1>2. CASE discord.command
  <2>1. /\ run' = Raise(run, "runtime", journal)
        /\ UNCHANGED <<jobs, log, io, discord, journal>>
    BY <1>2 DEF Connect, Quiet
  <2>2. Raised(run') /\ Edited
    BY <1>1, <2>1, RaisedFacts, SameEdited DEF Kinds
  <2> QED BY <1>1, <2>1, <2>2, RaisedKeeps
<1>3. CASE ~discord.command
  <2>1. Begin(Command, <<"setup", None>>)
    BY <1>3 DEF Connect
  <2>2. Flights(Command)
    BY <1>1 DEF Flights, Cleaning
  <2>3. Due(Command)
    BY <1>1, PathsKnown DEF Due, IInv, PhaseInv
  <2> QED BY <2>1, <2>2, <2>3, PathsKnown, BeginKeeps
<1> QED BY <1>2, <1>3

\* A process that goes on with what it has tried.
LEMMA TriesFacts ==
  ASSUME IInv, NEW path \in Path, run' = [run EXCEPT !.tried = @ \cup {path}], ~Cleaning(run)
  PROVE  /\ Stays(run') /\ run' \in Process /\ run'.job \in DOMAIN jobs
         /\ run'.phase = run.phase /\ ~Cleaning(run')
<1>1. run \in Process /\ run.job \in DOMAIN jobs
  BY DEF IInv, TypeInv
<1>2. run.tried \cup {path} \in SUBSET Path
  BY <1>1 DEF Process
<1>3. run' \in Process
  BY <1>1, <1>2 DEF Process
<1> QED BY <1>1, <1>3 DEF Stays, Process, Cleaning

\* An intent leaves the journal as an earlier process was killed.
LEMMA ReconcilesKept ==
  ASSUME IInv, NEW i \in Unresolved(journal), Clears(i), JournalRight(journal'), jobs' = jobs,
         journal'.status = journal.status, journal'.done = journal.done, io' = io, io.at = "none",
         run.phase = "reconcile",
         journal'.pending \subseteq journal.pending,
         run' = [run EXCEPT !.tried = @ \cup {i.path}]
  PROVE  Kept
<1>1. i.path \in Path
  BY OpenFacts DEF IInv
<1>2. Stays(run') /\ run' \in Process /\ run'.job \in DOMAIN jobs /\ run'.phase = "reconcile"
  BY <1>1, TriesFacts DEF Cleaning
<1>3. /\ TypeInv' /\ WriteInv' /\ OwnInv' /\ CommandInv' /\ Promised
      /\ io'.at = "none" /\ discord'.told = discord.told
  BY <1>2, ClearsKept DEF IInv, TypeInv
<1>4. JournalGrows
  BY DEF Clears, JournalGrows
<1>5. EntitledInv' /\ WordsInv'
  BY <1>2, <1>3, <1>4, StaysProcess
<1>6. PhaseInv'
  <2>1. /\ run'.resume /\ ~Old' /\ ~run'.told /\ journal'.status # "new"
        /\ journal'.pending = {}
    BY <1>2, PhaseFacts DEF IInv, PhaseInv, Stays, Old
  <2> QED BY <1>2, <1>3, <2>1 DEF PhaseInv
<1>7. CloseInv'
  BY <1>2 DEF IInv, CloseInv, Cleaning
<1>8. EndInv'
  BY <1>2, <1>3, <1>4, StaysEnd DEF IInv, Stays, Clears, Leaves
<1> QED BY <1>3, <1>5, <1>6, <1>7, <1>8 DEF Kept, IInv

LEMMA ReconcileKeeps ==
  ASSUME IInv, Reconcile
  PROVE  Kept
<1>1. run.phase = "reconcile" /\ io.at = "none" /\ UNCHANGED <<jobs, io>>
  BY DEF Reconcile, Phase
<1>2. /\ JournalRight(journal) /\ IsJournal(journal) /\ ~run.told /\ TypeInv /\ Sound
  BY <1>1, PhaseFacts DEF IInv, Sound
<1> DEFINE tries(i) == run' = [run EXCEPT !.tried = @ \cup {i.path}]
<1>3. PICK i \in journal.uncertain :
        \/ /\ log[i.path].is = "none"
           /\ journal' = [journal EXCEPT !.uncertain = @ \ {i}, !.failed = @ \ {i.case}]
           /\ Forget(i.path) /\ tries(i)
        \/ tries(i) /\ UNCHANGED <<journal, log, discord>>
        \/ /\ log[i.path].is \notin {"none", "sent", "lost"}
           /\ Settleable(journal, i.path, log[i.path].is, log[i.path].id)
           /\ journal' = Settle(journal, i, log[i.path].is, log[i.path].id)
           /\ Forget(i.path) /\ tries(i)
        \/ run' = Raise(run, "runtime", journal) /\ UNCHANGED <<journal, log, discord>>
  BY DEF Reconcile, Outcome
<1>4. i \in Unresolved(journal) /\ i.path \in Path
  BY <1>2, <1>3, OpenFacts DEF Unresolved
<1>5. CASE /\ log[i.path].is = "none" /\ Forget(i.path) /\ tries(i)
           /\ journal' = [journal EXCEPT !.uncertain = @ \ {i}, !.failed = @ \ {i.case}]
  <2>1. /\ journal'.uncertain = journal.uncertain \ {i} /\ journal'.pending = journal.pending
        /\ journal'.held = journal.held /\ journal'.deleted = journal.deleted
        /\ journal'.command = journal.command /\ journal'.baseline = journal.baseline
        /\ journal'.manual = journal.manual /\ journal'.authorized = journal.authorized
        /\ journal'.prompted = journal.prompted /\ journal'.status = journal.status
        /\ journal'.kept = journal.kept /\ journal'.complete = journal.complete
        /\ journal'.errors = journal.errors /\ IsJournal(journal')
        /\ journal'.done = journal.done
    BY <1>2, <1>5 DEF IsJournal, Fields
  <2>2. i \notin journal.pending
    BY <1>1 DEF IInv, PhaseInv
  <2>3. Unresolved(journal') = Unresolved(journal) \ {i}
    BY <2>1, <2>2 DEF Unresolved
  <2>4. JournalRight(journal')
    BY <1>2, <2>1, <2>3 DEF JournalRight
  <2>5. Clears(i)
    BY <1>1, <1>4, <1>5, <2>1, <2>3 DEF Clears, Leaves
  <2> QED BY <1>1, <1>4, <1>5, <2>1, <2>4, <2>5, ReconcilesKept
<1>6. CASE tries(i) /\ UNCHANGED <<journal, log, discord>>
  <2>1. Stays(run') /\ ~Cleaning(run') /\ run'.phase = "reconcile"
    BY <1>1, <1>4, <1>6, TriesFacts DEF Cleaning
  <2>2. Edited
    BY <1>6, SameEdited
  <2>3. CloseInv'
    BY <1>1, <1>6, <2>1 DEF IInv, CloseInv, Cleaning
  <2> QED BY <1>1, <1>6, <2>1, <2>2, <2>3, StaysKeeps
<1>7. CASE /\ log[i.path].is \notin {"none", "sent", "lost"}
           /\ Settleable(journal, i.path, log[i.path].is, log[i.path].id)
           /\ journal' = Settle(journal, i, log[i.path].is, log[i.path].id)
           /\ Forget(i.path) /\ tries(i)
  <2>1. /\ Clears(i) /\ JournalRight(journal') /\ journal'.status = journal.status
        /\ journal'.done = journal.done
    BY <1>1, <1>2, <1>4, <1>7, SettleFacts
  <2>2. journal'.pending = journal.pending \ {i}
    BY <1>2, <1>7 DEF Settle, IsJournal, Fields
  <2> QED BY <2>2, <1>1, <1>4, <1>7, <2>1, ReconcilesKept
<1>8. CASE run' = Raise(run, "runtime", journal) /\ UNCHANGED <<journal, log, discord>>
  <2>1. Raised(run') /\ Edited
    BY <1>1, <1>2, <1>8, RaisedFacts, SameEdited DEF Kinds
  <2> QED BY <1>1, <1>2, <1>8, <2>1, RaisedKeeps
<1> QED BY <1>3, <1>5, <1>6, <1>7, <1>8

LEMMA CleanUpKeeps ==
  ASSUME IInv, CleanUp
  PROVE  Kept
<1>1. io.at = "none" /\ Cleaning(run) /\ run.phase # "jobs" /\ run.phase # "connect"
      /\ run.phase \notin {"off", "over", "end"}
  BY DEF CleanUp, Cleaning
<1>2. ~run.told /\ TypeInv /\ run \in Process
  BY <1>1, PhaseFacts DEF TypeInv
<1>3. ASSUME NEW e \in Remains, Removable(e), Begin(<<"delete", e>>, <<"cleanup", e>>)
      PROVE  Kept
  <2>1. Begin(Deletion(e), <<"cleanup", e>>) /\ e \in Owned(journal)
    BY <1>3 DEF Deletion, Removable
  <2>2. Due(Deletion(e)) /\ Deletion(e) \in Path /\ e \in Grants
    BY <1>2, <2>1, DeletionDue
  <2>3. Flights(Deletion(e))
    BY <1>1, <1>2, <2>2 DEF Flights, Cleaning
  <2> QED BY <2>1, <2>2, <2>3, BeginKeeps
<1>4. ASSUME NEW e \in Remains, run' = [run EXCEPT !.tried = @ \cup {<<"delete", e>>}, !.errors = TRUE],
             UNCHANGED <<jobs, log, io, discord, journal>>
      PROVE  Kept
  <2>1. Deletion(e) \in Path
    BY <1>2, DeletionDue DEF Remains, Owned
  <2>2. run'.errors /\ run' = [run EXCEPT !.tried = run.tried \cup {Deletion(e)}, !.errors = TRUE]
    BY <1>2, <1>4 DEF Deletion, Process
  <2>3. Stays(run')
    BY <1>2, <2>1, <2>2, TriedProcess DEF Stays, Process
  <2>4. Edited
    BY <1>4, SameEdited
  <2>5. CloseInv'
    BY <1>1, <1>4, <2>2, <2>3 DEF IInv, CloseInv, Stays, Cleaning
  <2> QED BY <1>1, <1>4, <2>3, <2>4, <2>5, StaysKeeps
<1>5. ASSUME journal.command = "held", Begin(Uncommand, <<"cleanup", None>>)
      PROVE  Kept
  <2>1. Flights(Uncommand)
    BY <1>1, <1>2 DEF Flights, Cleaning
  <2>2. Due(Uncommand)
    BY <1>2, <1>5, PathsKnown DEF Due
  <2> QED BY <1>5, <2>1, <2>2, PathsKnown, BeginKeeps
<1> QED BY <1>3, <1>4, <1>5 DEF CleanUp, Quiet

LEMMA CleanedUpKeeps ==
  ASSUME IInv, CleanedUp
  PROVE  Kept
<1> DEFINE said == IF Old THEN journal.status
                   ELSE IF run.phase = "recover" /\ run.only /\ ~run.errors THEN "recovered"
                   ELSE Status
<1>1. /\ io.at = "none" /\ run.phase \in {"recover", "close"} /\ Remains = {}
      /\ journal.command = "held" => Uncommand \in run.tried
      /\ journal' = [journal EXCEPT !.errors = run.errors, !.status = said]
      /\ UNCHANGED <<jobs, log, io, discord>>
  BY DEF CleanedUp, Cleaning, Quiet
<1>2. /\ ~run.told /\ TypeInv /\ run \in Process /\ run.errors \in BOOLEAN
      /\ JournalRight(journal) /\ IsJournal(journal) /\ discord \in World
  BY <1>1, PhaseFacts DEF TypeInv, Process
<1>3. /\ JournalRight(journal') /\ BooksKept /\ JournalGrows
      /\ journal'.errors = run.errors /\ journal'.status = said
  <2>1. said = "new" => journal.status = "new"
    BY StatusFacts
  <2> HIDE DEF said
  <2> QED BY <1>1, <1>2, <2>1
          DEF BooksKept, JournalGrows, JournalRight, IsJournal, Fields, Unresolved
<1>4. ~run.errors => ~Left
  BY <1>1 DEF Left, Remains, Deletion, IInv, CloseInv, Cleaning
<1>5. Still
  BY <1>1, <1>3 DEF Still, DiscordKept
<1>6. CASE run.phase # "close" /\ run.errors /\ run' = Raise(run, "runtime", journal)
  <2>1. Raised(run')
    BY <1>1, <1>2, <1>6, RaisedFacts DEF Kinds
  <2>2. Edited
    BY <1>1, <1>3, <1>6, StatusFacts DEF Edited
  <2> QED BY <1>1, <1>2, <1>6, <2>1, <2>2, RaisedKeeps
<1>7. CASE run.phase = "close" /\ run' = To(run, "end")
  <2>1. journal'.status \in {journal.status, Status}
    BY <1>3, <1>7
  <2> HIDE DEF said
  <2> QED BY <1>1, <1>2, <1>3, <1>4, <1>5, <1>7, <2>1, PhaseKeeps
<1>8. CASE run.phase # "close" /\ ~run.errors /\ run' = To(run, IF run.only THEN "close" ELSE "prepare")
  <2>1. ~Old
    BY <1>1, <1>8 DEF IInv, EndInv, JobsInv
  <2>2. journal'.status = IF run.only THEN "recovered" ELSE journal.status
    BY <1>1, <1>3, <1>8, <2>1, StatusFacts
  <2> HIDE DEF said
  <2>3. CASE run.only
    BY <1>1, <1>2, <1>3, <1>4, <1>5, <1>8, <2>1, <2>2, <2>3, PhaseKeeps
  <2>4. CASE ~run.only
    BY <1>1, <1>2, <1>3, <1>4, <1>5, <1>8, <2>1, <2>2, <2>4, PhaseKeeps DEF Left
  <2> QED BY <2>3, <2>4
<1> QED BY <1>6, <1>7, <1>8 DEF CleanedUp

LEMMA NextJobKeeps ==
  ASSUME IInv, Edited, UNCHANGED <<jobs, log, io, discord>>, io.at = "none", ~run.told,
         run.phase = "jobs", jobs[run.job] \in journal'.done,
         run' = IF run.job = Len(jobs) THEN To(run, "close") ELSE NextJob(run)
  PROVE  Kept
<1>1. /\ TypeInv /\ run \in Process /\ Len(jobs) \in Nat /\ run.job \in 1..Len(jobs)
      /\ discord \in World /\ jobs \in Seq(JobNames)
  BY ScriptFacts DEF IInv, TypeInv
<1>2. Still
  BY DEF Still, Edited, DiscordKept
<1>3. CASE run.job = Len(jobs)
  <2>1. run' = [run EXCEPT !.phase = "close", !.tried = {}, !.errors = FALSE]
    BY <1>3 DEF To
  <2>2. /\ run' \in Process /\ run'.phase = "close" /\ run'.tried = {} /\ ~run'.errors
        /\ run'.job = run.job /\ run'.only = run.only /\ run'.resume = run.resume /\ ~run'.told
        /\ run'.raised = run.raised
    BY <1>1, <2>1 DEF Process, Phases
  <2>3. Walks(run')
    BY <2>2 DEF Walks, Same, Leaving
  <2>4. EntitledInv'
    BY <2>2 DEF EntitledInv, InJobs
  <2>5. Words' = Words
    BY <2>2 DEF Words
  <2>6. Old' = Old /\ Open' = Open /\ journal.done \subseteq journal'.done
    BY SameOpen DEF Old, Edited, BooksKept, JournalGrows
  <2>7. Ran'
    BY <1>1, <1>3, <2>6 DEF Ran, IInv, EndInv, JobsInv
  <2>8. run.raised = "no" => Open = {}
    BY DEF IInv, EndInv, JobsInv, Open, OpenPaths
  <2>9. JobsInv'
    BY <2>2, <2>6 DEF IInv, EndInv, JobsInv
  <2>10. journal'.status \notin {"completed", "recovered"} /\ journal'.status = journal.status
    BY DEF Edited, IInv, EndInv, StatusInv
  <2>11. Status' = "completed" => run.raised = "no"
    BY <2>2, <2>10 DEF Status
  <2>12. StatusInv'
    BY <2>2, <2>6, <2>7, <2>8, <2>10, <2>11 DEF StatusInv, AllRan
  <2> QED BY <1>1, <1>2, <2>3, <2>4, <2>5, <2>9, <2>12, WalksKeeps DEF Edited, EndInv
<1>4. CASE run.job # Len(jobs)
  <2>1. run' = NextJob(run)
    BY <1>4
  <2>2. run.job + 1 \in DOMAIN jobs
    BY <1>1, <1>4
  <2>3. /\ run' \in Process /\ run'.phase = "jobs" /\ run'.at = 1 /\ run'.resume = run.resume
        /\ run'.job = run.job + 1 /\ ~run'.told /\ run'.raised = run.raised
    <3>1. /\ run.job + 1 \in Nat /\ None \in Owners /\ 1 \in Nat \ {0}
          /\ {} \in SUBSET Path
      BY <1>1, PathsKnown
    <3>2. run' \in Process
      BY <1>1, <2>1, <3>1 DEF NextJob, Process
    <3> QED BY <1>1, <2>1, <3>2 DEF NextJob, Process
  <2>4. TypeInv'
    BY <1>1, <2>2, <2>3 DEF TypeInv, Edited
  <2>5. Old' = Old /\ ~Old /\ Words' = Words
    BY <1>1, <1>4, <2>3, OldFacts DEF Old, Words
  <2>6. EntitledInv'
    BY <2>3 DEF EntitledInv
  <2>7. WordsInv'
    BY <2>5 DEF IInv, WordsInv, Edited, JournalGrows
  <2>8. PhaseInv'
    <3>1. journal'.status # "new" /\ Earlier \subseteq journal'.baseline
      BY DEF IInv, PhaseInv, Edited, JournalGrows
    <3> QED BY <2>3, <2>5, <3>1 DEF PhaseInv
  <2>9. CloseInv'
    BY <2>3 DEF CloseInv, Cleaning
  <2>10. JobsInv'
    <3>1. journal.done \subseteq journal'.done /\ Unresolved(journal') = Unresolved(journal)
      BY DEF Edited, BooksKept, JournalGrows
    <3>2. \A k \in 1..(run'.job - 1) : jobs[k] \in journal'.done
      <4>1. run.job \in Nat /\ run'.job = run.job + 1
        BY <2>3 DEF IInv, TypeInv, Process
      <4>2. \A k \in 1..(run'.job - 1) : k = run.job \/ k \in 1..(run.job - 1)
        BY <4>1
      <4> QED BY <1>1, <2>3, <3>1, <4>2 DEF IInv, EndInv, JobsInv
    <3> QED BY <2>3, <3>1, <3>2 DEF IInv, EndInv, JobsInv
  <2>11. StatusInv'
    <3>1. journal'.status \notin {"completed", "recovered"} /\ Status' = journal'.status
      BY <2>3 DEF Edited, IInv, EndInv, StatusInv, Status
    <3> QED BY <2>3, <3>1 DEF StatusInv
  <2> QED BY <1>2, <2>4, <2>6, <2>7, <2>8, <2>9, <2>10, <2>11, StaysOpen DEF Kept, IInv, EndInv
<1> QED BY <1>3, <1>4

LEMMA JobStepKeeps ==
  ASSUME IInv, JobStep
  PROVE  Kept
<1>1. /\ run.phase = "jobs" /\ io.at = "none" /\ ~run.told /\ TypeInv
      /\ UNCHANGED <<jobs, log, io, discord>> /\ JournalRight(journal) /\ IsJournal(journal)
  BY DEF JobStep, Phase, Quiet, IInv, TypeInv, JournalRight
<1> DEFINE onward == run' = IF run.job = Len(jobs) THEN To(run, "close") ELSE NextJob(run)
<1>2. CASE journal' = journal /\ onward /\ jobs[run.job] \in journal.done
  BY <1>1, <1>2, SameEdited, NextJobKeeps
<1>3. CASE journal' = journal /\ run' = Raise(run, "runtime", journal)
  <2>1. Raised(run') /\ Edited
    BY <1>1, <1>3, RaisedFacts, SameEdited DEF Kinds
  <2> QED BY <1>1, <2>1, RaisedKeeps
<1>4. CASE journal' = [journal EXCEPT !.done = @ \cup {jobs[run.job]}] /\ onward
  <2>1. Edited /\ jobs[run.job] \in journal'.done
    BY <1>1, <1>4 DEF Edited, BooksKept, JournalGrows, JournalRight, IsJournal, Fields, Unresolved
  <2> QED BY <1>1, <1>4, <2>1, NextJobKeeps
<1> QED BY <1>2, <1>3, <1>4 DEF JobStep, Section

LEMMA EndKeeps ==
  ASSUME IInv, End
  PROVE  Kept
<1>1. /\ run.phase = "end" /\ io.at = "none" /\ run' = [Idle EXCEPT !.phase = "over"]
      /\ UNCHANGED <<jobs, log, io, discord>>
      /\ journal' = [journal EXCEPT !.status = Verdict]
  BY DEF End, Phase, Quiet
<1>2. /\ ~run.told /\ TypeInv /\ JournalRight(journal) /\ IsJournal(journal)
  BY <1>1, PhaseFacts
<1>3. /\ JournalRight(journal') /\ BooksKept /\ journal'.status = Verdict
      /\ journal'.done = journal.done
      /\ journal'.authorized = journal.authorized /\ journal'.manual = journal.manual
      /\ journal'.baseline = journal.baseline /\ journal'.prompted = journal.prompted
      /\ journal'.errors = journal.errors
  BY <1>1, <1>2 DEF JournalRight, IsJournal, Fields, BooksKept, Unresolved
<1>4. Still
  BY <1>1, <1>3 DEF Still, DiscordKept
<1>5. /\ run'.job = 1 /\ run'.phase = "over" /\ ~run'.resume /\ ~run'.told /\ run'.raised = "no"
      /\ run' \in Process
  <2>1. run' \in Process
    BY <1>1, IdleRight DEF Process, Phases
  <2> QED BY <1>1, <2>1 DEF Idle, Process
<1>6. TypeInv'
  BY <1>1, <1>2, <1>3, <1>5, ScriptFacts DEF TypeInv
<1>7. Verdict # "new" /\ (Verdict \in {"completed", "recovered"} =>
        Unresolved(journal) = {} /\ ~journal.errors /\ Verdict = Status)
  <2>1. journal.status # "new"
    BY <1>1 DEF IInv, PhaseInv
  <2> QED BY <2>1, StatusFacts DEF Verdict
<1>8. PhaseInv'
  BY <1>1, <1>3, <1>5, <1>7 DEF PhaseInv
<1>9. EntitledInv' /\ CloseInv'
  BY <1>5 DEF EntitledInv, InJobs, CloseInv, Cleaning
<1>10. WordsInv'
  <2>1. Old' = Old /\ Words' = Words
    BY <1>1, <1>2, <1>5 DEF Old, Words
  <2> QED BY <1>1, <1>3, <1>5, <1>7, <2>1 DEF IInv, WordsInv
<1>11. EndInv'
  <2>1. /\ Left' = Left /\ Unresolved(journal)' = Unresolved(journal) /\ Old' = Old /\ Open' = Open
        /\ Status' = Verdict
    BY <1>1, <1>3, <1>5, SameOpen DEF Left, BooksKept, Old, Status
  <2>2. JobsInv'
    BY <1>1, <1>5 DEF JobsInv
  <2>3. AllRan => AllRan'
    BY <1>1, <1>3, <2>1, StillFinished
  <2>4. Verdict = "completed" => AllRan /\ run.raised = "no"
    BY <1>1, <1>7, StatusFacts DEF IInv, EndInv, StatusInv
  <2>5. Verdict = "recovered" => ~Old /\ run.raised = "no"
    BY <1>7, StatusFacts DEF IInv, EndInv, StatusInv
  <2>6. Verdict \in {"completed", "recovered"} => Unresolved(journal) = {} /\ ~Left
    BY <1>1, <1>7, <2>4, <2>5 DEF IInv, CloseInv
  <2>7. StatusInv'
    BY <1>3, <1>5, <2>1, <2>3, <2>4, <2>5, <2>6 DEF StatusInv
  <2> QED BY <2>2, <2>7 DEF EndInv
<1> QED BY <1>4, <1>6, <1>8, <1>9, <1>10, <1>11, StaysOpen DEF Kept, IInv

-----------------------------------------------------------------------------
(* The theorems. *)

LEMMA InitIInv ==
  ASSUME Init
  PROVE  IInv /\ Promise!Init
<1>1. /\ jobs \in Sessions /\ journal = Empty /\ log = [p \in Path |-> Row("none", None)]
      /\ discord = [live |-> {History}, removed |-> Earlier, command |-> FALSE, done |-> {},
                     late |-> {}, told |-> 0]
      /\ run = Idle /\ io = NoIo
  BY DEF Init
<1>2. /\ Unresolved(journal) = {} /\ Open = {} /\ Owned(journal) = {} /\ journal.held = {}
      /\ journal.baseline = {} /\ journal.manual = {} /\ journal.command = "no"
      /\ journal.status = "new" /\ ~journal.prompted
  BY <1>1 DEF Empty, Unresolved, Open, OpenPaths, Owned
<1>3. JournalRight(journal)
  <2>1. IsJournal(journal) /\ journal.complete = <<>> /\ journal.kept = None
    BY <1>1 DEF IsJournal, Fields, Empty
  <2>2. DOMAIN journal.complete = {}
    BY <2>1
  <2>3. /\ journal.deleted = {} /\ journal.authorized = {} /\ ~journal.errors
        /\ journal.prompted \in BOOLEAN /\ journal.errors \in BOOLEAN
    BY <1>1 DEF Empty
  <2> QED BY <1>2, <2>1, <2>2, <2>3, PathsKnown DEF JournalRight
<1>4. \A p \in Path : log[p].is = "none"
  BY <1>1 DEF Row
<1>5. TypeInv
  <2>1. run.job \in DOMAIN jobs
    BY <1>1, RecorderAssumption DEF Idle
  <2>2. discord \in World
    BY <1>1, RecorderAssumption DEF World, Ids
  <2>3. log \in [Path -> [is : RowKinds, id : Owners]]
    BY <1>1, PathsKnown DEF Row, RowKinds
  <2> QED BY <1>1, <1>3, <2>1, <2>2, <2>3, IdleRight DEF TypeInv
<1>6. io.at = "none" /\ run.phase = "off" /\ ~run.told /\ ~run.resume
  BY <1>1 DEF NoIo, Idle
<1>7. WriteInv
  BY <1>1, <1>2, <1>4, <1>6 DEF WriteInv, LogInv, FlightInv
<1>8. OwnInv /\ CommandInv
  <2>1. \A p \in Path, answers \in SUBSET Answers, id \in Owners :
          ~AnsweredAs(p, answers, id)
    BY <1>4, <1>6 DEF AnsweredAs, Answers
  <2>2. /\ discord.live = {History} /\ discord.removed = Earlier /\ discord.done = {}
        /\ ~discord.command
    BY <1>1
  <2>3. HeldInv /\ IntentInv /\ ForeignInv
    BY <1>2, <2>2, RecorderAssumption DEF HeldInv, IntentInv, ForeignInv
  <2>4. AnswerInv
    BY <2>1, <2>2, PathsKnown, RecorderAssumption DEF AnswerInv, Loose, Answers
  <2>5. CommandInv
    BY <1>2, <2>1, <2>2, PathsKnown DEF CommandInv, Answers
  <2> QED BY <2>3, <2>4, <2>5 DEF OwnInv
<1>9. PhaseInv /\ EntitledInv /\ CloseInv
  BY <1>2, <1>6 DEF PhaseInv, EntitledInv, InJobs, CloseInv, Cleaning
<1>10. WordsInv
  <2>1. Words = 0
    BY <1>1, <1>6 DEF Words
  <2> QED BY <1>2, <2>1 DEF WordsInv
<1>12. EndInv
  <2>1. run.job = 1 /\ run.raised = "no" /\ Status = "new"
    BY <1>1, <1>2, <1>6 DEF Idle, Status
  <2> QED BY <1>2, <1>6, <2>1 DEF EndInv, JobsInv, StatusInv
<1>11. Promise!Init
  BY <1>1, <1>2 DEF Promise!Init, Carrying, Known
<1> QED BY <1>5, <1>7, <1>8, <1>9, <1>10, <1>11, <1>12 DEF IInv

LEMMA StutterKeeps ==
  ASSUME IInv, UNCHANGED vars
  PROVE  Kept
<1>0. UNCHANGED <<jobs, journal, log, discord, run, io, faults>>
  BY DEF vars
<1>1. IInv'
  <2>1. UNCHANGED <<Open, Old, Loose, Left, Words, InJob, Here>>
    BY <1>0 DEF Open, Old, Loose, Left, Words, InJob, Here, Script
  <2>2. TypeInv'
    BY <1>0 DEF IInv, TypeInv
  <2>3. WriteInv'
    BY <1>0, <2>1 DEF IInv, WriteInv, LogInv, FlightInv
  <2>4. HeldInv' /\ IntentInv' /\ ForeignInv'
    BY <1>0, <2>1 DEF IInv, OwnInv, HeldInv, IntentInv, ForeignInv
  <2>5. AnswerInv' /\ CommandInv'
    BY <1>0, <2>1 DEF IInv, OwnInv, AnswerInv, CommandInv, AnsweredAs
  <2>6. PhaseInv'
    BY <1>0, <2>1 DEF IInv, PhaseInv
  <2>7. EntitledInv' /\ WordsInv'
    BY <1>0, <2>1 DEF IInv, EntitledInv, InJobs, WordsInv
  <2>8. CloseInv'
    BY <1>0, <2>1 DEF IInv, CloseInv
  <2>9. EndInv'
    <3>1. JournalGrows
      BY <1>0 DEF JournalGrows
    <3> QED BY <1>0, <2>1, <3>1, StaysEnd DEF IInv, EndInv, JobsInv
  <2> QED
    BY <2>2, <2>3, <2>4, <2>5, <2>6, <2>7, <2>8, <2>9 DEF IInv, OwnInv
<1>2. UNCHANGED <<Open, Carrying, Known>>
  BY DEF vars, Open, Carrying, Known
<1> QED BY <1>1, <1>2 DEF Kept, Promised

LEMMA NextKeeps ==
  ASSUME IInv, [Next]_vars
  PROVE  Kept
<1>1. CASE Work
  BY <1>1, AttemptKeeps, ServeKeeps, ReceivedKeeps, LookKeeps, PromptKeeps, TellKeeps,
     SelectKeeps, VerifyKeeps, SkipKeeps, MarkKeeps, AuthorizeKeeps, KeepKeeps, AgainKeeps,
     CreateKeeps, RemoveKeeps, RemoveAllKeeps, DirectKeeps, HandlerKeeps, AuthenticateKeeps,
     ReconcileKeeps, ReconciledKeeps, CleanUpKeeps, CleanedUpKeeps, PrepareKeeps, ConnectKeeps,
     JobStepKeeps, EndKeeps DEF Work
<1>2. CASE Launch \/ Buy \/ Late \/ Lose \/ Fail \/ Break \/ Crash
  BY <1>2, LaunchKeeps, BuyKeeps, LateKeeps, LoseKeeps, FailKeeps, BreakKeeps, CrashKeeps
<1>3. CASE UNCHANGED vars
  BY <1>3, StutterKeeps
<1> QED BY <1>1, <1>2, <1>3 DEF Next

LEMMA SafeIInv ==
  ASSUME IInv
  PROVE  SessionAccounted
<1>1. /\ TypeInv /\ WriteInv /\ OwnInv /\ CommandInv /\ WordsInv /\ CloseInv /\ EndInv
  BY DEF IInv
<1>2. discord.live \cap Grants \subseteq
        journal.held \cup IF Create_ \in OpenPaths(journal) THEN Grants ELSE {}
  BY <1>1 DEF OwnInv, AnswerInv, Loose, WriteInv, LogInv, Open
<1>3. discord.command => journal.command = "held" \/ {Command, Uncommand} \cap OpenPaths(journal) # {}
  BY <1>1 DEF CommandInv, WriteInv, LogInv, Open
<1>4. Accounted
  BY <1>1, <1>2, <1>3 DEF Accounted, OwnInv, HeldInv, ForeignInv
<1>5. ToldOnce
  BY <1>1 DEF ToldOnce, WordsInv, Words, TypeInv, World
<1>6. HonestEnd
  <2>1. ASSUME journal.status = "completed"
        PROVE  Ran /\ Listed
    <3>1. Ran /\ Create_ \notin Open /\ Command \notin Open
      BY <1>1, <2>1 DEF EndInv, StatusInv, AllRan
    <3>2. discord.live \cap Grants \subseteq journal.held
      BY <1>2, <3>1 DEF Open
    <3>3. discord.command => journal.command = "held"
      BY <1>1, <3>1 DEF CommandInv, WriteInv, LogInv
    <3> QED BY <3>1, <3>2, <3>3 DEF Listed
  <2>2. ASSUME run.phase = "over", journal.status \in {"completed", "recovered"}
        PROVE  ~Remnant
    <3>1. Unresolved(journal) = {} /\ ~Left
      BY <1>1, <2>2 DEF EndInv, StatusInv
    <3>2. Open = {} /\ discord.done = {} /\ discord.late = {}
      BY <1>1, <3>1 DEF Open, OpenPaths, WriteInv, LogInv
    <3>3. discord.live \cap Grants = {}
      BY <1>2, <3>1, <3>2 DEF Left, Open
    <3>4. ~discord.command
      BY <1>1, <3>1, <3>2 DEF CommandInv, Left
    <3> QED BY <3>1, <3>2, <3>3, <3>4 DEF Remnant
  <2> QED BY <2>1, <2>2 DEF HonestEnd
<1> QED BY <1>4, <1>5, <1>6 DEF SessionAccounted

\* However a recorder is killed, loses answers and is resumed, every grant
\* and the command that Discord made for it is in its journal or under an
\* intent there, what is not its own is touched only as recorded, a person
\* is told to buy at most once; a journal that says the capture is complete
\* is of one whose jobs all reached their end, and lists whatever Discord
\* still has, also when the process was killed as it cleaned up; and a
\* process that ended by itself and says so left nothing behind (capture_mode,
\* begin_write, cleanup and finalize_capture in the capture script).
THEOREM SessionIsAccounted == Spec => []SessionAccounted
<1>1. Init => IInv
  BY InitIInv
<1>2. IInv /\ [Next]_vars => IInv'
  BY NextKeeps DEF Kept
<1>3. IInv => SessionAccounted
  BY SafeIInv
<1> QED BY <1>1, <1>2, <1>3, PTL DEF Spec

\* The journal and the log together implement Writes: a write is carried out
\* only under an intent that is on disk, at most once by each, and the intent
\* is forgotten only when its answer is known or it was not carried out
\* (begin_write, received and the receipts of the client).
THEOREM JournalImplementsWrites == Spec => ImplementsWrites
<1>1. Init => IInv /\ Promise!Init
  BY InitIInv
<1>2. IInv /\ [Next]_vars => IInv' /\ [Promise!Next]_<<Open, Carrying, Known>>
  BY NextKeeps DEF Kept, Promised
<1> QED BY <1>1, <1>2, PTL DEF Spec, ImplementsWrites, Promise!Spec

-----------------------------------------------------------------------------
(***************************************************************************)
(* The captures that need real subscriptions: what is bought and granted,   *)
(* and the cancellation that is owed.                                       *)
(***************************************************************************)
First == {"prepare", "upgrade"}
Once == {"prepare", "upgrade", "downgrade"}
Away == {"off", "baseline", "cancel", "verify"}
Both == {"read", "ask A", "answer A", "ask B", "answer B"}
OfUpgrade == {"interactions", "prepare", "command A", "settle A", "upgrade", "command B", "settle B",
              "cross tier", "create", "downgrade", "ask D", "command D", "settle D", "finish"}
OfLive == {"select A", "capture A", "select B", "classify"}
Standing == {"none", "renewing", "canceled", "ended"}
IsRead(s) == s.base["a"] # {"unread"} /\ s.base["b"] # {"unread"}

Stages ==
  [base : [Skus -> SUBSET (Ents \cup {"unread"})], prompted : SUBSET Instructions,
   confirmed : SUBSET Instructions, shown : SUBSET Instructions, managed : SUBSET Ents,
   a : Ents \cup {Unfound}, b : Ents \cup {Unfound}, required : BOOLEAN, started : BOOLEAN,
   verified : BOOLEAN, upgraded : BOOLEAN, downgraded : BOOLEAN,
   probe : {"none", "attempted", "created", "rejected", "removed"}, complete : BOOLEAN, done : BOOLEAN]
Readings == [rows : [Ents -> Standing], reports : SUBSET Skus]

\* What is so of Discord, the person and the last reading.
WorldOK ==
  /\ mode \in {"upgrade", "live"}
  /\ status \in [Ents -> Standing] /\ listed \in SUBSET Ents
  /\ heard \in SUBSET Instructions /\ told \in [Instructions -> 0..2] /\ sent \in {0, 1}
  /\ view \in Readings
  /\ \A i \in Once : told[i] <= 1
  /\ \A e \in listed : status[e] # "none"
  /\ \A e \in {"a0", "b0"} : status[e] # "none" => e \in listed

\* What a stage says of them, wherever the program is: ...
PromptsKept(s) ==
  /\ \A i \in Once : told[i] = 1 \/ i \in heard => i \in s.prompted
  /\ status["a1"] # "none" => "prepare" \in s.prompted
  /\ status["b1"] # "none" => "upgrade" \in s.prompted
  /\ s.prompted \cap First # {} \/ (mode = "live" /\ s.a # Unfound) => s.required
  /\ s.probe = "none" => sent = 0
  /\ s.verified => s.managed # {}
BasesKept(s) ==
  /\ s.prompted # {} \/ s.required => IsRead(s)
  /\ "a1" \notin s.base["a"] /\ "b1" \notin s.base["b"]
  /\ status["a0"] # "none" /\ s.base["a"] # {"unread"} => "a0" \in s.base["a"]
  /\ status["b0"] # "none" /\ s.base["b"] # {"unread"} => "b0" \in s.base["b"]
LiveKept(s) == mode = "live" =>
  s.a \in {Unfound, "a1"} /\ s.b \in {Unfound, "b1"} /\ s.managed \subseteq {s.a, s.b}
StageOK(s) == s \in Stages /\ PromptsKept(s) /\ BasesKept(s) /\ LiveKept(s)

\* ... and what the program may rely on where it is.
StandsAt(p, s) ==
  /\ p \in Away \cup Both \cup (IF mode = "upgrade" THEN OfUpgrade ELSE OfLive)
  /\ p \notin Away => IsRead(s)
  /\ s.started => p \in {"off", "cancel", "verify"}
  /\ s.done /\ mode = "upgrade" => p = "off" /\ s.verified
  /\ p \in {"ask A", "ask B", "capture A", "verify"} => s.required
  /\ p = "ask A" => "prepare" \notin s.prompted
  /\ p = "ask B" => "upgrade" \notin s.prompted
  /\ p = "ask D" => "downgrade" \notin s.prompted
  /\ p = "create" => sent = 0 /\ s.probe = "attempted"
  /\ mode = "live" =>
       /\ p \in {"ask A", "answer A", "select A"} => s.a = Unfound
       /\ p \in {"ask A", "answer A", "select A", "capture A", "ask B", "answer B", "select B"} => s.b = Unfound
       /\ p \in {"ask A", "answer A", "select A", "capture A"} => "upgrade" \notin s.prompted
       /\ p \in {"answer A", "select A"} => "prepare" \in s.prompted

CheckoutsInv == WorldOK /\ StageOK(stage) /\ StandsAt(pc, stage)

\* The rest of the state, while the program only moves on.
LEMMA ProceedsOK ==
  ASSUME WorldOK, NEW s, NEW to, StageOK(s), StandsAt(to, s), Proceed(to, s), Unasked, view' \in Readings
  PROVE  CheckoutsInv'
<1>1. /\ UNCHANGED <<mode, status, listed, heard, told, sent>> /\ stage' = s /\ pc' = to
  BY DEF Proceed, Unasked, world, person
<1>2. WorldOK'
  BY <1>1 DEF WorldOK
<1>3. StageOK(stage)'
  BY <1>1 DEF StageOK, PromptsKept, BasesKept, LiveKept
<1>4. StandsAt(pc, stage)'
  BY <1>1 DEF StandsAt
<1> QED BY <1>2, <1>3, <1>4 DEF CheckoutsInv

LEMMA BlindReads == Blind \in Readings
  BY DEF Blind, Readings, Standing

LEMMA SeenReads ==
  ASSUME WorldOK, NEW reports \in SUBSET Skus
  PROVE  /\ Seen(reports) \in Readings
         /\ \A e \in Ents : Seen(reports).rows[e] = IF e \in listed THEN status[e] ELSE "none"
         /\ Seen(reports).reports = reports
  BY DEF Seen, Readings, WorldOK, Standing

\* What is managed more, in the script that upgrades, is owed.
LEMMA ManagesOK ==
  ASSUME mode = "upgrade", NEW s, StageOK(s), IsRead(s), NEW es \in SUBSET Ents
  PROVE  LET m == Manage(s, es)
         IN  /\ StageOK(m)
             /\ m.prompted = s.prompted /\ m.base = s.base /\ m.started = s.started /\ m.done = s.done
             /\ m.probe = s.probe /\ (s.required => m.required) /\ m.managed = s.managed \cup es
<1> DEFINE m == Manage(s, es)
<1>1. CASE es = {}
  <2>1. m = s
    BY <1>1 DEF Manage
  <2> QED BY <1>1, <2>1
<1>2. CASE es # {}
  <2>1. m = [s EXCEPT !.managed = s.managed \cup es, !.required = TRUE, !.verified = FALSE]
    BY <1>2 DEF Manage
  <2>2. s \in Stages
    BY DEF StageOK
  <2>3. s.managed \cup es \in SUBSET Ents
    BY <2>2 DEF Stages
  <2>4. m \in Stages
    BY <2>1, <2>2, <2>3 DEF Stages
  <2>5. /\ m.prompted = s.prompted /\ m.base = s.base /\ m.started = s.started /\ m.done = s.done
        /\ m.probe = s.probe /\ m.required = TRUE /\ m.verified = FALSE /\ m.managed = s.managed \cup es
        /\ m.a = s.a /\ m.b = s.b
    BY <2>1, <2>2 DEF Stages
  <2>6. StageOK(m)
    <3> HIDE DEF m
    <3> QED BY <2>4, <2>5 DEF StageOK, PromptsKept, BasesKept, LiveKept, IsRead
  <2> QED BY <2>5, <2>6
<1> QED BY <1>1, <1>2

\* An error leaves nothing behind but the cancellation that is owed.
LEMMA FailsOK ==
  ASSUME WorldOK, NEW s, StageOK(s), mode = "upgrade" => ~s.done,
         Fails(s), Unasked, Forgets
  PROVE  CheckoutsInv'
<1> DEFINE t == [s EXCEPT !.complete = s.complete \/ mode = "upgrade"]
           to == IF unsure THEN "off" ELSE "cancel"
<1>1. s \in Stages
  BY DEF StageOK
<1>2. t \in Stages
  BY <1>1 DEF Stages
<1>3. /\ t.prompted = s.prompted /\ t.base = s.base /\ t.started = s.started /\ t.done = s.done
      /\ t.probe = s.probe /\ t.required = s.required /\ t.verified = s.verified /\ t.managed = s.managed
      /\ t.a = s.a /\ t.b = s.b
  BY <1>1 DEF Stages
<1>4. Proceed(to, t)
  BY DEF Fails
<1> HIDE DEF t
<1>5. StageOK(t)
  BY <1>2, <1>3 DEF StageOK, PromptsKept, BasesKept, LiveKept, IsRead
<1>6. to \in {"off", "cancel"}
  OBVIOUS
<1> HIDE DEF to
<1>7. StandsAt(to, t)
  BY <1>3, <1>6 DEF StandsAt, Away, Both, OfUpgrade, OfLive
<1>8. view' \in Readings
  BY BlindReads DEF Forgets
<1> QED BY <1>4, <1>5, <1>7, <1>8, ProceedsOK

-----------------------------------------------------------------------------
(* Discord and the person *)

\* What is not of the program's making touches no stage, and what the person
\* does he was told to do.
LEMMA WorldMovesOK ==
  ASSUME CheckoutsInv, UNCHANGED <<mode, told, stage, sent, pc, view>>,
         heard' \in SUBSET heard \/ heard' = heard,
         status' \in [Ents -> Standing], listed' \in SUBSET Ents,
         \A e \in Ents : status'[e] # "none" => status[e] # "none" \/ e \in {"a1", "b1"},
         \A e \in Ents : status[e] # "none" => status'[e] # "none",
         listed \subseteq listed', \A e \in listed' : status'[e] # "none",
         status'["a1"] # "none" => status["a1"] # "none" \/ "prepare" \in heard,
         status'["b1"] # "none" => status["b1"] # "none" \/ "upgrade" \in heard
  PROVE  CheckoutsInv'
<1>1. WorldOK'
  BY DEF CheckoutsInv, WorldOK, Ents
<1>2. PromptsKept(stage)'
  BY DEF CheckoutsInv, WorldOK, StageOK, PromptsKept, Once
<1>3. BasesKept(stage)'
  BY DEF CheckoutsInv, StageOK, BasesKept, IsRead, Ents
<1>4. StageOK(stage)'
  BY <1>2, <1>3 DEF CheckoutsInv, StageOK, LiveKept
<1>5. StandsAt(pc, stage)'
  BY DEF CheckoutsInv, StandsAt
<1> QED BY <1>1, <1>4, <1>5 DEF CheckoutsInv

LEMMA ObeysOK ==
  ASSUME CheckoutsInv, NEW i, NEW e \in Ents, NEW new \in {"renewing", "canceled"}, Obeys(i, e, new),
         status[e] = "none" => e = "a1" /\ i = "prepare"
  PROVE  CheckoutsInv'
<1>1. /\ status' = [status EXCEPT ![e] = new] /\ listed' = listed
      /\ heard' = IF i = "cancel" THEN heard ELSE heard \ {i}
      /\ UNCHANGED <<mode, told, stage, sent, pc, view>> /\ i \in heard
  BY DEF Obeys
<1>2. status \in [Ents -> Standing] /\ listed \in SUBSET Ents /\ \A x \in listed : status[x] # "none"
  BY DEF CheckoutsInv, WorldOK
<1>3. \A x \in Ents : status'[x] = IF x = e THEN new ELSE status[x]
  BY <1>1, <1>2
<1>4. status' \in [Ents -> Standing]
  BY <1>1, <1>2 DEF Standing
<1>5. heard' \in SUBSET heard
  BY <1>1
<1> QED BY <1>1, <1>2, <1>3, <1>4, <1>5, WorldMovesOK DEF Ents

LEMMA UpgradesOK ==
  ASSUME CheckoutsInv, NEW e \in Ents, Upgrades(e)
  PROVE  CheckoutsInv'
<1>1. PICK left \in {"ended", status[e]} : status' = [status EXCEPT ![e] = left, !["b1"] = "renewing"]
  BY DEF Upgrades
<1>2. /\ listed' = listed /\ heard' \in SUBSET heard /\ "upgrade" \in heard
      /\ status[e] \in {"renewing", "canceled"} /\ SkuOf(e) = "a"
      /\ UNCHANGED <<mode, told, stage, sent, pc, view>>
  BY DEF Upgrades
<1>3. status \in [Ents -> Standing] /\ listed \in SUBSET Ents /\ \A x \in listed : status[x] # "none"
  BY DEF CheckoutsInv, WorldOK
<1>4. e # "b1" /\ left \in Standing /\ left # "none" /\ "b1" \in Ents
  BY <1>2 DEF SkuOf, Standing, Ents
<1>5. \A x \in Ents : status'[x] = IF x = "b1" THEN "renewing" ELSE IF x = e THEN left ELSE status[x]
  BY <1>1, <1>3, <1>4
<1>6. status' \in [Ents -> Standing]
  BY <1>1, <1>3, <1>4 DEF Standing
<1> QED BY <1>2, <1>3, <1>4, <1>5, <1>6, WorldMovesOK DEF Ents

LEMMA WorldStep ==
  ASSUME CheckoutsInv,
         Subscribes \/ Downgrades \/ LookedInto
           \/ \E e \in Ents : Upgrades(e) \/ Cancels(e) \/ PeriodEnds(e) \/ IsListed(e)
  PROVE  CheckoutsInv'
<1>1. status \in [Ents -> Standing] /\ listed \in SUBSET Ents /\ \A x \in listed : status[x] # "none"
  BY DEF CheckoutsInv, WorldOK
<1>2. {"a0", "a1", "b0", "b1"} = Ents
  BY DEF Ents
<1>3. CASE Subscribes
  <2>1. \/ status["a1"] = "none" /\ Obeys("prepare", "a1", "renewing")
        \/ status["a0"] = "canceled" /\ Obeys("prepare", "a0", "renewing")
    BY <1>3 DEF Subscribes
  <2> QED BY <1>2, <2>1, ObeysOK
<1>4. CASE Downgrades
  <2>1. status["b1"] = "renewing" /\ Obeys("downgrade", "b1", "renewing")
    BY <1>4 DEF Downgrades
  <2> QED BY <1>2, <2>1, ObeysOK
<1>5. CASE LookedInto
  BY <1>1, <1>5, WorldMovesOK DEF LookedInto, world, person
<1>6. ASSUME NEW e \in Ents, Upgrades(e) PROVE CheckoutsInv'
  BY <1>6, UpgradesOK
<1>7. ASSUME NEW e \in Ents, Cancels(e) PROVE CheckoutsInv'
  <2>1. status[e] = "renewing" /\ Obeys("cancel", e, "canceled")
    BY <1>7 DEF Cancels
  <2> QED BY <2>1, ObeysOK
<1>8. ASSUME NEW e \in Ents, PeriodEnds(e) PROVE CheckoutsInv'
  <2>1. /\ status[e] = "canceled" /\ status' = [status EXCEPT ![e] = "ended"]
        /\ UNCHANGED <<mode, listed, told, stage, sent, pc, view, heard>>
    BY <1>8 DEF PeriodEnds, person
  <2>2. \A x \in Ents : status'[x] = IF x = e THEN "ended" ELSE status[x]
    BY <1>1, <2>1
  <2>3. status' \in [Ents -> Standing]
    BY <1>1, <2>1 DEF Standing
  <2> QED BY <1>1, <1>2, <2>1, <2>2, <2>3, WorldMovesOK
<1>9. ASSUME NEW e \in Ents, IsListed(e) PROVE CheckoutsInv'
  <2>1. /\ status[e] # "none" /\ listed' = listed \cup {e}
        /\ UNCHANGED <<mode, status, told, stage, sent, pc, view, heard>>
    BY <1>9 DEF IsListed, person
  <2> QED BY <1>1, <1>2, <2>1, WorldMovesOK
<1> QED BY <1>3, <1>4, <1>5, <1>6, <1>7, <1>8, <1>9

-----------------------------------------------------------------------------
(* Steps of the program that both scripts have *)

\* Where the program is, of what it can be sure.
LEMMA HereOK ==
  ASSUME CheckoutsInv
  PROVE  /\ WorldOK /\ StageOK(stage) /\ StandsAt(pc, stage) /\ stage \in Stages
         /\ pc \notin Away => IsRead(stage) /\ ~stage.started
         /\ pc # "off" /\ mode = "upgrade" => ~stage.done
         /\ pc \in OfUpgrade => mode = "upgrade"
         /\ pc \in OfLive => mode = "live"
<1>1. WorldOK /\ StageOK(stage) /\ StandsAt(pc, stage) /\ stage \in Stages
  BY DEF CheckoutsInv, StageOK
<1>2. mode \in {"upgrade", "live"}
  BY <1>1 DEF WorldOK
<1> QED BY <1>1, <1>2 DEF StandsAt, Away, Both, OfUpgrade, OfLive

LEMMA ErrorOK ==
  ASSUME CheckoutsInv, pc # "off", Error, Unasked, Forgets
  PROVE  CheckoutsInv'
<1>1. WorldOK /\ StageOK(stage) /\ (mode = "upgrade" => ~stage.done)
  BY HereOK
<1> QED BY <1>1, FailsOK DEF Error

\* A stage that keeps what was prompted, read and owed.
LEMMA SameOK ==
  ASSUME NEW s, NEW t, StageOK(s), t \in Stages, t.prompted = s.prompted, t.base = s.base,
         s.required => t.required, t.verified => t.managed # {}, t.probe = "none" => s.probe = "none",
         t.required /\ ~s.required => IsRead(s),
         mode = "live" => /\ t.a # Unfound => t.required
                          /\ t.a \in {Unfound, "a1"} /\ t.b \in {Unfound, "b1"} /\ t.managed \subseteq {t.a, t.b}
  PROVE  StageOK(t)
BY DEF StageOK, PromptsKept, BasesKept, LiveKept, IsRead

LEMMA SameAt ==
  ASSUME NEW s, NEW t, NEW p, StandsAt(p, s),
         t.prompted = s.prompted, t.base = s.base, t.started = s.started, t.done = s.done,
         t.probe = s.probe, t.required = s.required, t.verified = s.verified, t.a = s.a, t.b = s.b
  PROVE  StandsAt(p, t)
BY ZenonT(60) DEF StandsAt, IsRead

\* What is noted down of an instruction changes nothing else.
LEMMA NotedOK ==
  ASSUME NEW s, StageOK(s), NEW i \in Instructions
  PROVE  /\ StageOK([s EXCEPT !.confirmed = s.confirmed \cup {i}])
         /\ StageOK([s EXCEPT !.shown = s.shown \cup {i}])
         /\ \A p : StandsAt(p, s) => /\ StandsAt(p, [s EXCEPT !.confirmed = s.confirmed \cup {i}])
                               /\ StandsAt(p, [s EXCEPT !.shown = s.shown \cup {i}])
<1>1. s \in Stages
  BY DEF StageOK
<1>2. PromptsKept(s) /\ LiveKept(s)
  BY DEF StageOK
<1>3. ASSUME NEW t \in {[s EXCEPT !.confirmed = s.confirmed \cup {i}], [s EXCEPT !.shown = s.shown \cup {i}]}
      PROVE  StageOK(t) /\ \A p : StandsAt(p, s) => StandsAt(p, t)
  <2>1. t \in Stages
    BY <1>1 DEF Stages
  <2>2. /\ t.prompted = s.prompted /\ t.base = s.base /\ t.started = s.started /\ t.done = s.done
        /\ t.probe = s.probe /\ t.required = s.required /\ t.verified = s.verified /\ t.managed = s.managed
        /\ t.a = s.a /\ t.b = s.b
    BY <1>1 DEF Stages
  <2>3. StageOK(t)
    BY <2>1, <2>2, <1>2, SameOK DEF PromptsKept, LiveKept
  <2>4. \A p : StandsAt(p, s) => StandsAt(p, t)
    BY <2>2, SameAt
  <2> QED BY <2>3, <2>4
<1> QED BY <1>3

LEMMA ObligedOK ==
  ASSUME NEW s, StageOK(s), IsRead(s)
  PROVE  /\ StageOK(Obliged(s)) /\ Obliged(s).required = TRUE
         /\ Obliged(s).prompted = s.prompted /\ Obliged(s).base = s.base /\ Obliged(s).started = s.started
         /\ Obliged(s).done = s.done /\ Obliged(s).probe = s.probe /\ Obliged(s).a = s.a /\ Obliged(s).b = s.b
<1> DEFINE t == Obliged(s)
<1>1. s \in Stages
  BY DEF StageOK
<1>2. t \in Stages
  BY <1>1 DEF Obliged, Stages
<1>3. /\ t.prompted = s.prompted /\ t.base = s.base /\ t.started = s.started /\ t.done = s.done
      /\ t.probe = s.probe /\ t.required = TRUE /\ t.verified = FALSE /\ t.managed = s.managed
      /\ t.a = s.a /\ t.b = s.b
  BY <1>1 DEF Obliged, Stages
<1> HIDE DEF t
<1>4. StageOK(t)
  BY <1>2, <1>3, SameOK DEF StageOK, LiveKept
<1> QED BY <1>3, <1>4 DEF t

LEMMA KilledOK ==
  ASSUME CheckoutsInv, Killed
  PROVE  CheckoutsInv'
<1>1. pc # "off" /\ Forgets /\ Unasked /\ Proceed("off", stage)
  BY DEF Killed
<1>2. StandsAt("off", stage)
  BY <1>1, HereOK DEF StandsAt, Away
<1> QED BY <1>1, <1>2, HereOK, ProceedsOK, BlindReads DEF Forgets

LEMMA StartOK ==
  ASSUME CheckoutsInv, Start
  PROVE  CheckoutsInv'
<1>1. /\ UNCHANGED <<mode, status, listed, heard, told, sent, stage, view>> /\ pc = "off"
      /\ ~(stage.done /\ stage.verified)
      /\ pc' = IF stage.started \/ stage.verified \/ stage.done THEN "cancel" ELSE "baseline"
  BY DEF Start, world, person
<1>2. WorldOK' /\ StageOK(stage)'
  BY <1>1 DEF CheckoutsInv, WorldOK, StageOK, PromptsKept, BasesKept, LiveKept
<1>3. stage' = stage /\ mode' = mode /\ sent' = sent /\ pc' \in {"cancel", "baseline"}
  BY <1>1
<1>4. stage.started => pc' = "cancel"
  BY <1>1
<1>5. StandsAt(pc, stage)'
  BY <1>1, <1>3, <1>4, HereOK DEF StandsAt, Away, OfUpgrade, OfLive, Both
<1> QED BY <1>2, <1>5 DEF CheckoutsInv

LEMMA BaselineOK ==
  ASSUME CheckoutsInv, Baseline
  PROVE  CheckoutsInv'
<1>1. pc = "baseline" /\ Forgets /\ Unasked
  BY DEF Baseline
<1>2. view' \in Readings
  BY <1>1, BlindReads DEF Forgets
<1>3. WorldOK /\ StageOK(stage) /\ StandsAt(pc, stage) /\ stage \in Stages
  BY HereOK
<1>4. CASE Error
  BY <1>1, <1>4, ErrorOK
<1>5. ASSUME NEW k \in Skus, stage.base[k] = {"unread"},
             Proceed("baseline", [stage EXCEPT !.base[k] = {e \in listed : SkuOf(e) = k}])
      PROVE  CheckoutsInv'
  <2> DEFINE b == {e \in listed : SkuOf(e) = k}
             t == [stage EXCEPT !.base[k] = b]
  <2>1. b \subseteq Ents
    BY <1>3 DEF WorldOK
  <2>2. stage.base \in [Skus -> SUBSET (Ents \cup {"unread"})]
    BY <1>3 DEF Stages
  <2>3. t.base = [stage.base EXCEPT ![k] = b]
    BY <1>3 DEF Stages
  <2>4. t.base \in [Skus -> SUBSET (Ents \cup {"unread"})]
    BY <2>1, <2>2, <2>3
  <2>5. t = [stage EXCEPT !.base = [stage.base EXCEPT ![k] = b]]
    BY <1>3 DEF Stages
  <2>6. t \in Stages
    BY <1>3, <2>3, <2>4, <2>5 DEF Stages
  <2>7. /\ t.prompted = stage.prompted /\ t.started = stage.started /\ t.done = stage.done
        /\ t.probe = stage.probe /\ t.required = stage.required /\ t.verified = stage.verified
        /\ t.managed = stage.managed /\ t.a = stage.a /\ t.b = stage.b
    BY <1>3, <2>5 DEF Stages
  <2>8. ~IsRead(stage)
    BY <1>5 DEF IsRead, Skus
  <2>9. stage.prompted = {} /\ ~stage.required
    BY <1>3, <2>8 DEF StageOK, BasesKept
  <2>10. status["a1"] = "none" /\ status["b1"] = "none"
    BY <1>3, <2>9 DEF StageOK, PromptsKept
  <2>11. "a1" \notin listed /\ "b1" \notin listed
    BY <1>3, <2>10 DEF WorldOK
  <2>12. /\ status["a0"] # "none" => "a0" \in listed
         /\ status["b0"] # "none" => "b0" \in listed
    BY <1>3 DEF WorldOK
  <2>13. SkuOf("a0") = "a" /\ SkuOf("a1") = "a" /\ SkuOf("b0") = "b" /\ SkuOf("b1") = "b"
    BY DEF SkuOf
  <2>14. \A j \in Skus : t.base[j] = IF j = k THEN b ELSE stage.base[j]
    BY <2>2, <2>3
  <2> HIDE DEF t
  <2>15. BasesKept(t)
    <3>1. t.base["a"] = (IF k = "a" THEN b ELSE stage.base["a"])
          /\ t.base["b"] = (IF k = "b" THEN b ELSE stage.base["b"])
      BY <2>14 DEF Skus
    <3> QED BY <1>3, <2>7, <2>9, <2>11, <2>12, <2>13, <3>1 DEF StageOK, BasesKept, Skus
  <2>16. StageOK(t)
    BY <1>3, <2>6, <2>7, <2>15 DEF StageOK, PromptsKept, LiveKept
  <2>17. StandsAt("baseline", t)
    BY <1>1, <1>3, <2>7 DEF StandsAt, Away
  <2>18. Proceed("baseline", t)
    BY <1>5 DEF t
  <2> QED BY <1>1, <1>2, <1>3, <2>16, <2>17, <2>18, ProceedsOK
<1>6. ASSUME \A k \in Skus : stage.base[k] # {"unread"}, Proceed("read", stage)
      PROVE  CheckoutsInv'
  <2>1. IsRead(stage)
    BY <1>6 DEF IsRead, Skus
  <2>2. StandsAt("read", stage)
    BY <1>1, <1>3, <2>1 DEF StandsAt, Away, Both
  <2> QED BY <1>1, <1>2, <1>3, <1>6, <2>2, ProceedsOK
<1> QED BY <1>4, <1>5, <1>6 DEF Baseline

\* An instruction that is shown was never shown, and what it may start is owed.
LEMMA InstructsOK ==
  ASSUME CheckoutsInv, NEW i \in Once, i \notin stage.prompted, IsRead(stage), i \in First => stage.required,
         NEW to, StandsAt(to, Told(i, stage)), StandsAt("off", Told(i, stage)), Instruct(i, to), Forgets
  PROVE  CheckoutsInv'
<1> DEFINE t == Told(i, stage)
<1>1. WorldOK /\ StageOK(stage) /\ stage \in Stages
  BY HereOK
<1>2. Once \subseteq Instructions /\ i \in Instructions
  BY DEF Once, Instructions
<1>3. t = [stage EXCEPT !.prompted = stage.prompted \cup {i}]
  BY DEF Told
<1>4. t \in Stages
  BY <1>1, <1>2, <1>3 DEF Stages
<1>5. /\ t.prompted = stage.prompted \cup {i} /\ t.base = stage.base /\ t.started = stage.started
      /\ t.done = stage.done /\ t.probe = stage.probe /\ t.required = stage.required
      /\ t.verified = stage.verified /\ t.managed = stage.managed /\ t.a = stage.a /\ t.b = stage.b
  BY <1>1, <1>3 DEF Stages
<1>6. view' \in Readings
  BY BlindReads DEF Forgets
<1>7. told[i] = 0 /\ told \in [Instructions -> 0..2]
  <2>1. told[i] # 1 /\ told[i] <= 1 /\ told \in [Instructions -> 0..2]
    BY <1>1 DEF WorldOK, StageOK, PromptsKept
  <2> QED BY <2>1, <1>2
<1>8. stage.prompted \cap First # {} \/ i \in First => stage.required
  BY <1>1 DEF StageOK, PromptsKept
<1> HIDE DEF t
<1>9. StageOK(t)
  <2>1. PromptsKept(t)
    BY <1>1, <1>5, <1>8 DEF StageOK, PromptsKept
  <2>2. BasesKept(t)
    BY <1>1, <1>5 DEF StageOK, BasesKept, IsRead
  <2> QED BY <1>1, <1>4, <1>5, <2>1, <2>2 DEF StageOK, LiveKept
<1>10. CASE Unasked /\ Proceed("off", t)
  BY <1>1, <1>6, <1>9, <1>10, ProceedsOK DEF t
<1>11. CASE /\ heard' = heard \cup {i} /\ told' = [told EXCEPT ![i] = IF @ = 2 THEN 2 ELSE @ + 1]
            /\ Proceed(to, t)
  <2>1. /\ UNCHANGED <<mode, status, listed, sent>> /\ stage' = t /\ pc' = to
        /\ heard' = heard \cup {i}
    BY <1>11 DEF Proceed, world
  <2>2. told' = [told EXCEPT ![i] = 1]
    BY <1>7, <1>11
  <2>3. /\ told' \in [Instructions -> 0..2]
        /\ \A j \in Instructions : told'[j] = IF j = i THEN 1 ELSE told[j]
    BY <1>2, <1>7, <2>2
  <2>4. WorldOK'
    BY <1>1, <1>2, <1>6, <2>1, <2>3 DEF WorldOK
  <2>5. \A j \in Once : told'[j] = 1 \/ j \in heard' => j \in t.prompted
    BY <1>1, <1>2, <1>5, <2>1, <2>3 DEF StageOK, PromptsKept
  <2>6. PromptsKept(stage)'
    BY <1>9, <2>1, <2>5 DEF StageOK, PromptsKept
  <2>7. StageOK(stage)'
    BY <1>9, <2>1, <2>6 DEF StageOK, BasesKept, LiveKept
  <2>8. StandsAt(to, t)
    BY DEF t
  <2>9. StandsAt(pc, stage)'
    BY <2>1, <2>8 DEF StandsAt
  <2> QED BY <2>4, <2>7, <2>9 DEF CheckoutsInv
<1> QED BY <1>10, <1>11 DEF Instruct, t

\* The person confirms a checkout, or a command of his is captured.
LEMMA ConfirmsOK ==
  ASSUME CheckoutsInv, pc # "off", NEW i \in Instructions, NEW to, StandsAt(to, stage), Confirm(i, to)
  PROVE  CheckoutsInv'
<1> DEFINE t == [stage EXCEPT !.confirmed = @ \cup {i}]
<1>1. Forgets /\ Unasked /\ (Proceed(to, t) \/ Error)
  BY DEF Confirm
<1>2. t = [stage EXCEPT !.confirmed = stage.confirmed \cup {i}]
  OBVIOUS
<1> HIDE DEF t
<1>3. WorldOK /\ StageOK(stage)
  BY HereOK
<1>4. StageOK(t) /\ StandsAt(to, t)
  BY <1>2, <1>3, NotedOK
<1>5. view' \in Readings
  BY <1>1, BlindReads DEF Forgets
<1>6. CASE Proceed(to, t)
  BY <1>1, <1>3, <1>4, <1>5, <1>6, ProceedsOK
<1>7. CASE Error
  BY <1>1, <1>7, ErrorOK
<1> QED BY <1>1, <1>6, <1>7

LEMMA InteractsOK ==
  ASSUME CheckoutsInv, pc # "off", mode = "upgrade", NEW i \in Instructions, NEW to, StandsAt(to, stage), Interact(i, to)
  PROVE  CheckoutsInv'
<1> DEFINE t == [stage EXCEPT !.shown = @ \cup {i}]
<1>1. Forgets /\ Unasked /\ (Proceed(to, t) \/ Proceed("off", stage))
  BY DEF Interact
<1>2. t = [stage EXCEPT !.shown = stage.shown \cup {i}]
  OBVIOUS
<1> HIDE DEF t
<1>3. WorldOK /\ StageOK(stage) /\ StandsAt(pc, stage)
  BY HereOK
<1>4. StageOK(t) /\ StandsAt(to, t)
  BY <1>2, <1>3, NotedOK
<1>5. view' \in Readings
  BY <1>1, BlindReads DEF Forgets
<1>6. CASE Proceed(to, t)
  BY <1>1, <1>3, <1>4, <1>5, <1>6, ProceedsOK
<1>7. CASE Proceed("off", stage)
  <2>1. StandsAt("off", stage)
    BY <1>3 DEF StandsAt, Away
  <2> QED BY <1>1, <1>3, <1>5, <1>7, <2>1, ProceedsOK
<1> QED BY <1>1, <1>6, <1>7

-----------------------------------------------------------------------------
(* Steps of the script that upgrades *)

\* Between two of its steps it relies on nothing but what it has read.
LEMMA UpgradeAt ==
  ASSUME mode = "upgrade", NEW s, IsRead(s), ~s.started, ~s.done, NEW to \in OfUpgrade \ {"create", "ask D"}
  PROVE  StandsAt(to, s)
<1>1. to \notin Away /\ to \notin Both
  BY DEF OfUpgrade, Away, Both
<1> QED BY <1>1 DEF StandsAt, Away, Both, OfUpgrade

LEMMA UpgradeHere ==
  ASSUME CheckoutsInv, pc \in OfUpgrade \/ (pc \notin Away /\ mode = "upgrade")
  PROVE  /\ mode = "upgrade" /\ pc # "off" /\ IsRead(stage) /\ ~stage.started /\ ~stage.done
         /\ WorldOK /\ StageOK(stage) /\ StandsAt(pc, stage) /\ stage \in Stages
BY HereOK DEF OfUpgrade, Away

LEMMA RecoversOf == \A v : Recover(v) \in SUBSET Ents
BY DEF Recover

\* The entitlement that stands for A or for B is one, and is noted with what else it is.
LEMMA SetsOK ==
  ASSUME mode = "upgrade", NEW s, StageOK(s), NEW e \in Ents \cup {Unfound}
  PROVE  /\ StageOK([s EXCEPT !.a = e])
         /\ StageOK([s EXCEPT !.b = e, !.upgraded = TRUE])
         /\ StageOK([s EXCEPT !.downgraded = TRUE]) /\ StageOK([s EXCEPT !.complete = TRUE])
         /\ \A p \in {"attempted", "removed"} : StageOK([s EXCEPT !.probe = p])
<1>1. s \in Stages
  BY DEF StageOK
<1>2. PromptsKept(s)
  BY DEF StageOK
<1>3. s.verified => s.managed # {}
  BY <1>2 DEF PromptsKept
<1>4. StageOK([s EXCEPT !.a = e])
  <2> DEFINE t == [s EXCEPT !.a = e]
  <2>1. t \in Stages
    BY <1>1 DEF Stages
  <2>2. /\ t.prompted = s.prompted /\ t.base = s.base /\ t.required = s.required
        /\ t.verified = s.verified /\ t.managed = s.managed /\ (t.probe = "none" => s.probe = "none")
    BY <1>1 DEF Stages
  <2> HIDE DEF t
  <2>3. StageOK(t)
    BY <1>3, <2>1, <2>2, SameOK
  <2> QED BY <2>3 DEF t
<1>5. StageOK([s EXCEPT !.b = e, !.upgraded = TRUE])
  <2> DEFINE t == [s EXCEPT !.b = e, !.upgraded = TRUE]
  <2>1. t \in Stages
    BY <1>1 DEF Stages
  <2>2. /\ t.prompted = s.prompted /\ t.base = s.base /\ t.required = s.required
        /\ t.verified = s.verified /\ t.managed = s.managed /\ (t.probe = "none" => s.probe = "none")
    BY <1>1 DEF Stages
  <2> HIDE DEF t
  <2>3. StageOK(t)
    BY <1>3, <2>1, <2>2, SameOK
  <2> QED BY <2>3 DEF t
<1>6. StageOK([s EXCEPT !.downgraded = TRUE])
  <2> DEFINE t == [s EXCEPT !.downgraded = TRUE]
  <2>1. t \in Stages
    BY <1>1 DEF Stages
  <2>2. /\ t.prompted = s.prompted /\ t.base = s.base /\ t.required = s.required
        /\ t.verified = s.verified /\ t.managed = s.managed /\ (t.probe = "none" => s.probe = "none")
    BY <1>1 DEF Stages
  <2> HIDE DEF t
  <2>3. StageOK(t)
    BY <1>3, <2>1, <2>2, SameOK
  <2> QED BY <2>3 DEF t
<1>7. StageOK([s EXCEPT !.complete = TRUE])
  <2> DEFINE t == [s EXCEPT !.complete = TRUE]
  <2>1. t \in Stages
    BY <1>1 DEF Stages
  <2>2. /\ t.prompted = s.prompted /\ t.base = s.base /\ t.required = s.required
        /\ t.verified = s.verified /\ t.managed = s.managed /\ (t.probe = "none" => s.probe = "none")
    BY <1>1 DEF Stages
  <2> HIDE DEF t
  <2>3. StageOK(t)
    BY <1>3, <2>1, <2>2, SameOK
  <2> QED BY <2>3 DEF t
<1>8. ASSUME NEW p \in {"attempted", "removed"} PROVE StageOK([s EXCEPT !.probe = p])
  <2> DEFINE t == [s EXCEPT !.probe = p]
  <2>1. t \in Stages
    BY <1>1 DEF Stages
  <2>2. /\ t.prompted = s.prompted /\ t.base = s.base /\ t.required = s.required
        /\ t.verified = s.verified /\ t.managed = s.managed /\ (t.probe = "none" => s.probe = "none")
    BY <1>1 DEF Stages
  <2> HIDE DEF t
  <2>3. StageOK(t)
    BY <1>3, <2>1, <2>2, SameOK
  <2> QED BY <2>3 DEF t
<1> QED BY <1>4, <1>5, <1>6, <1>7, <1>8

LEMMA ReadOK ==
  ASSUME CheckoutsInv, Read
  PROVE  CheckoutsInv'
<1>1. pc = "read" /\ mode = "upgrade" /\ Unasked
  BY DEF Read
<1>2. /\ pc # "off" /\ IsRead(stage) /\ ~stage.started /\ ~stage.done
      /\ WorldOK /\ StageOK(stage) /\ StandsAt(pc, stage) /\ stage \in Stages
  BY <1>1, UpgradeHere DEF Away
<1>3. CASE Forgets /\ Error
  BY <1>1, <1>2, <1>3, ErrorOK
<1>4. ASSUME NEW reports \in SUBSET Skus, view' = Seen(reports),
             Proceed("interactions", Manage(stage, Recover(view')))
      PROVE  CheckoutsInv'
  <2> DEFINE m == Manage(stage, Recover(view'))
  <2>0. Recover(view') \in SUBSET Ents
    BY RecoversOf
  <2>1. StageOK(m) /\ m.base = stage.base /\ m.started = stage.started /\ m.done = stage.done
    BY <1>1, <1>2, <2>0, ManagesOK
  <2>2. Proceed("interactions", m)
    BY <1>4
  <2> HIDE DEF m
  <2>3. StandsAt("interactions", m)
    BY <1>1, <1>2, <2>1, UpgradeAt DEF OfUpgrade, IsRead
  <2>4. view' \in Readings
    BY <1>2, <1>4, SeenReads
  <2> QED BY <1>1, <1>2, <2>1, <2>2, <2>3, <2>4, ProceedsOK
<1> QED BY <1>3, <1>4 DEF Read

LEMMA InteractionsOK ==
  ASSUME CheckoutsInv, Interactions
  PROVE  CheckoutsInv'
<1>1. pc = "interactions"
  BY DEF Interactions
<1>2. /\ mode = "upgrade" /\ pc # "off" /\ IsRead(stage) /\ ~stage.started /\ ~stage.done
      /\ WorldOK /\ StageOK(stage) /\ StandsAt(pc, stage) /\ stage \in Stages
  BY <1>1, UpgradeHere DEF OfUpgrade
<1>3. view \in Readings
  BY <1>2 DEF WorldOK
<1>4. ASSUME NEW to \in {"upgrade", "prepare"}, UNCHANGED view, Unasked, Proceed(to, stage)
      PROVE  CheckoutsInv'
  <2>1. StandsAt(to, stage)
    BY <1>2, UpgradeAt DEF OfUpgrade
  <2> QED BY <1>2, <1>3, <1>4, <2>1, ProceedsOK
<1>5. ASSUME NEW i \in stage.prompted, UNCHANGED view, Unasked,
             Proceed("interactions", [stage EXCEPT !.shown = stage.shown \cup {i}])
      PROVE  CheckoutsInv'
  <2>1. i \in Instructions
    BY <1>2 DEF Stages
  <2>2. /\ StageOK([stage EXCEPT !.shown = stage.shown \cup {i}])
        /\ StandsAt("interactions", [stage EXCEPT !.shown = stage.shown \cup {i}])
    BY <1>1, <1>2, <2>1, NotedOK
  <2> QED BY <1>2, <1>3, <1>5, <2>2, ProceedsOK
<1>6. ASSUME Forgets, Unasked, Proceed("off", stage)
      PROVE  CheckoutsInv'
  <2>1. StandsAt("off", stage)
    BY <1>2 DEF StandsAt, Away
  <2> QED BY <1>2, <1>6, <2>1, ProceedsOK, BlindReads DEF Forgets
<1> QED BY <1>4, <1>5, <1>6 DEF Interactions

LEMMA CurrentOf ==
  ASSUME CheckoutsInv
  PROVE  Current \in SUBSET Ents
BY DEF Current, ActiveOf

LEMMA FoundOf ==
  ASSUME NEW v
  PROVE  /\ ReadyA(v) \in Ents \cup {Unfound, Conflict} /\ Replacement(v) \in Ents \cup {Unfound, Conflict}
         /\ Unfound \notin Ents /\ Conflict \notin Ents /\ Unfound # Conflict
<1>1. Unfound \notin Ents /\ Conflict \notin Ents /\ Unfound # Conflict
  BY DEF Unfound, Conflict, Ents
<1>2. ReadyA(v) \in Ents \cup {Unfound, Conflict}
  <2> DEFINE ready == {e \in ActiveOf(v, "a") : Linked(v, e) /\ v.rows[e] = "renewing"}
  <2>1. ready \subseteq Ents
    BY DEF ActiveOf
  <2>2. ready # {} => (CHOOSE e \in ready : TRUE) \in Ents
    BY <2>1
  <2>3. ReadyA(v) \in {Conflict, Unfound} \/ (ready # {} /\ ReadyA(v) = CHOOSE e \in ready : TRUE)
    BY DEF ReadyA
  <2> QED BY <2>2, <2>3
<1>3. Replacement(v) \in Ents \cup {Unfound, Conflict}
  <2> DEFINE act == ActiveOf(v, "b")
  <2>1. act \subseteq Ents
    BY DEF ActiveOf
  <2>2. act # {} => (CHOOSE e \in act : TRUE) \in Ents
    BY <2>1
  <2>3. Replacement(v) \in {Conflict, Unfound} \/ (act # {} /\ Replacement(v) = CHOOSE e \in act : TRUE)
    BY DEF Replacement
  <2> QED BY <2>2, <2>3
<1> QED BY <1>1, <1>2, <1>3

\* What may go on, in the script that upgrades, from a step that is not the last.
Free(s) == StageOK(s) /\ IsRead(s) /\ ~s.started /\ ~s.done

LEMMA FreeGoes ==
  ASSUME WorldOK, mode = "upgrade", NEW s, Free(s), NEW to \in OfUpgrade \ {"create", "ask D"},
         Proceed(to, s), Unasked, Forgets
  PROVE  CheckoutsInv'
<1>1. StandsAt(to, s)
  BY UpgradeAt DEF Free
<1> QED BY <1>1, ProceedsOK, BlindReads DEF Forgets, Free

LEMMA FreeFails ==
  ASSUME WorldOK, NEW s, Free(s), Fails(s), Unasked, Forgets
  PROVE  CheckoutsInv'
BY FailsOK DEF Free

LEMMA FreeManages ==
  ASSUME mode = "upgrade", NEW s, Free(s), NEW es \in SUBSET Ents
  PROVE  Free(Manage(s, es)) /\ Manage(s, es).prompted = s.prompted
<1> DEFINE m == Manage(s, es)
<1>1. /\ StageOK(m) /\ m.base = s.base /\ m.started = s.started /\ m.done = s.done /\ m.prompted = s.prompted
  BY ManagesOK DEF Free
<1> HIDE DEF m
<1>2. Free(m) /\ m.prompted = s.prompted
  BY <1>1 DEF Free, IsRead
<1> QED BY <1>2 DEF m

LEMMA FreeSets ==
  ASSUME mode = "upgrade", NEW s, Free(s), NEW e \in Ents \cup {Unfound}
  PROVE  /\ Free([s EXCEPT !.a = e]) /\ [s EXCEPT !.a = e].prompted = s.prompted
         /\ Free([s EXCEPT !.b = e, !.upgraded = TRUE])
         /\ Free([s EXCEPT !.downgraded = TRUE])
         /\ \A p \in {"attempted", "removed"} : Free([s EXCEPT !.probe = p])
<1>1. s \in Stages
  BY DEF Free, StageOK
<1>2. ASSUME NEW t, StageOK(t), t.base = s.base, t.started = s.started, t.done = s.done
      PROVE  Free(t)
  BY <1>2 DEF Free, IsRead
<1>3. Free([s EXCEPT !.a = e]) /\ [s EXCEPT !.a = e].prompted = s.prompted
  <2> DEFINE t == [s EXCEPT !.a = e]
  <2>1. t.base = s.base /\ t.started = s.started /\ t.done = s.done /\ t.prompted = s.prompted
    BY <1>1 DEF Stages
  <2>2. StageOK(t)
    BY SetsOK DEF Free
  <2> HIDE DEF t
  <2>3. Free(t) /\ t.prompted = s.prompted
    BY <1>2, <2>1, <2>2
  <2> QED BY <2>3 DEF t
<1>4. Free([s EXCEPT !.b = e, !.upgraded = TRUE])
  <2> DEFINE t == [s EXCEPT !.b = e, !.upgraded = TRUE]
  <2>1. t.base = s.base /\ t.started = s.started /\ t.done = s.done
    BY <1>1 DEF Stages
  <2>2. StageOK(t)
    BY SetsOK DEF Free
  <2> HIDE DEF t
  <2>3. Free(t)
    BY <1>2, <2>1, <2>2
  <2> QED BY <2>3 DEF t
<1>5. Free([s EXCEPT !.downgraded = TRUE])
  <2> DEFINE t == [s EXCEPT !.downgraded = TRUE]
  <2>1. t.base = s.base /\ t.started = s.started /\ t.done = s.done
    BY <1>1 DEF Stages
  <2>2. StageOK(t)
    BY SetsOK DEF Free
  <2> HIDE DEF t
  <2>3. Free(t)
    BY <1>2, <2>1, <2>2
  <2> QED BY <2>3 DEF t
<1>6. ASSUME NEW p \in {"attempted", "removed"} PROVE Free([s EXCEPT !.probe = p])
  <2> DEFINE t == [s EXCEPT !.probe = p]
  <2>1. t.base = s.base /\ t.started = s.started /\ t.done = s.done
    BY <1>1 DEF Stages
  <2>2. StageOK(t)
    BY SetsOK DEF Free
  <2> HIDE DEF t
  <2>3. Free(t)
    BY <1>2, <2>1, <2>2
  <2> QED BY <2>3 DEF t
<1> QED BY <1>3, <1>4, <1>5, <1>6

LEMMA FreeHere ==
  ASSUME CheckoutsInv, pc \in OfUpgrade \/ (pc \notin Away /\ mode = "upgrade")
  PROVE  Free(stage) /\ mode = "upgrade" /\ WorldOK /\ pc # "off"
BY UpgradeHere DEF Free

\* The person is asked for A, and may be only once.
LEMMA AsksOK ==
  ASSUME WorldOK, mode = "upgrade", NEW s, Free(s), NEW to,
         \/ to = "ask A" /\ "prepare" \notin s.prompted
         \/ to = "ask B" /\ "upgrade" \notin s.prompted,
         Proceed(to, Obliged(s)), Unasked, Forgets
  PROVE  CheckoutsInv'
<1> DEFINE o == Obliged(s)
<1>1. /\ StageOK(o) /\ o.required = TRUE /\ o.prompted = s.prompted /\ o.base = s.base
      /\ o.started = s.started /\ o.done = s.done
  BY ObligedOK DEF Free
<1> HIDE DEF o
<1>2. to \in {"ask A", "ask B"} /\ IsRead(o) /\ ~o.started /\ ~o.done
  BY <1>1 DEF Free, IsRead
<1>3. StandsAt(to, o)
  BY <1>1, <1>2 DEF StandsAt, Away, Both
<1>4. view' \in Readings
  BY BlindReads DEF Forgets
<1> QED BY <1>1, <1>3, <1>4, ProceedsOK DEF o

LEMMA PrepareAOK ==
  ASSUME CheckoutsInv, PrepareA
  PROVE  CheckoutsInv'
<1> DEFINE kept == [Manage(stage, Current) EXCEPT !.a = IF Current = {} THEN @ ELSE CHOOSE e \in Current : TRUE]
           ready == ReadyA(view)
<1>1. pc = "prepare" /\ Unasked /\ Forgets
  BY DEF PrepareA
<1>2. Free(stage) /\ mode = "upgrade" /\ WorldOK /\ pc # "off"
  BY <1>1, FreeHere DEF OfUpgrade
<1>3. \/ Error \/ Fails(kept)
      \/ ready \in Ents /\ Proceed("upgrade", [Manage(kept, {ready}) EXCEPT !.a = ready])
      \/ "prepare" \in stage.prompted /\ Proceed("settle A", kept)
      \/ "prepare" \notin stage.prompted /\ Proceed("ask A", Obliged(kept))
  BY DEF PrepareA
<1>4. Free(kept) /\ kept.prompted = stage.prompted
  <2> DEFINE m == Manage(stage, Current)
             x == IF Current = {} THEN m.a ELSE CHOOSE e \in Current : TRUE
  <2>1. Current \in SUBSET Ents
    BY CurrentOf
  <2>2. Free(m) /\ m.prompted = stage.prompted
    BY <1>2, <2>1, FreeManages
  <2>3. m.a \in Ents \cup {Unfound}
    BY <2>2 DEF Free, StageOK, Stages
  <2>4. x \in Ents \cup {Unfound}
    BY <2>1, <2>3
  <2>5. kept = [m EXCEPT !.a = x]
    OBVIOUS
  <2> HIDE DEF x, m, kept
  <2>6. Free([m EXCEPT !.a = x]) /\ [m EXCEPT !.a = x].prompted = m.prompted
    BY <1>2, <2>2, <2>4, FreeSets
  <2> QED BY <2>2, <2>5, <2>6
<1> HIDE DEF kept
<1>5. CASE Error
  BY <1>1, <1>2, <1>5, ErrorOK
<1>6. CASE Fails(kept)
  BY <1>1, <1>2, <1>4, <1>6, FreeFails
<1>7. CASE ready \in Ents /\ Proceed("upgrade", [Manage(kept, {ready}) EXCEPT !.a = ready])
  <2> HIDE DEF ready
  <2>1. {ready} \in SUBSET Ents
    BY <1>7
  <2>2. Free(Manage(kept, {ready}))
    BY <1>2, <1>4, <2>1, FreeManages
  <2>3. Free([Manage(kept, {ready}) EXCEPT !.a = ready])
    BY <1>2, <1>7, <2>2, FreeSets
  <2>4. "upgrade" \in OfUpgrade \ {"create", "ask D"}
    BY DEF OfUpgrade
  <2> QED BY <1>1, <1>2, <1>7, <2>3, <2>4, FreeGoes
<1>8. CASE "prepare" \in stage.prompted /\ Proceed("settle A", kept)
  <2>1. "settle A" \in OfUpgrade \ {"create", "ask D"}
    BY DEF OfUpgrade
  <2> QED BY <1>1, <1>2, <1>4, <1>8, <2>1, FreeGoes
<1>9. CASE "prepare" \notin stage.prompted /\ Proceed("ask A", Obliged(kept))
  BY <1>1, <1>2, <1>4, <1>9, AsksOK
<1> QED BY <1>3, <1>5, <1>6, <1>7, <1>8, <1>9

LEMMA ToldOf ==
  ASSUME NEW s \in Stages, NEW i \in Instructions
  PROVE  LET t == Told(i, s)
         IN  /\ t.prompted = s.prompted \cup {i} /\ t.base = s.base /\ t.started = s.started
             /\ t.done = s.done /\ t.probe = s.probe /\ t.required = s.required
             /\ t.verified = s.verified /\ t.managed = s.managed /\ t.a = s.a /\ t.b = s.b
BY DEF Told, Stages

LEMMA AsksStep ==
  ASSUME CheckoutsInv, AskA \/ AskB \/ AskD
  PROVE  CheckoutsInv'
<1>1. PICK i \in Once, to \in {"answer A", "answer B", "command D"} :
        /\ Forgets /\ Instruct(i, to)
        /\ \/ pc = "ask A" /\ i = "prepare" /\ to = "answer A"
           \/ pc = "ask B" /\ i = "upgrade" /\ to = "answer B"
           \/ pc = "ask D" /\ i = "downgrade" /\ to = "command D"
  <2>1. CASE AskA
    BY <2>1 DEF AskA, Once
  <2>2. CASE AskB
    BY <2>2 DEF AskB, Once
  <2>3. CASE AskD
    BY <2>3 DEF AskD, Once
  <2> QED BY <2>1, <2>2, <2>3
<1>2. \/ pc = "ask A" /\ i = "prepare" /\ to = "answer A"
      \/ pc = "ask B" /\ i = "upgrade" /\ to = "answer B"
      \/ pc = "ask D" /\ i = "downgrade" /\ to = "command D"
  BY <1>1
<1>3. pc \notin Away /\ i \in Instructions
  BY <1>2 DEF Away, Instructions
<1>4. /\ WorldOK /\ StandsAt(pc, stage) /\ stage \in Stages /\ IsRead(stage) /\ ~stage.started
      /\ (mode = "upgrade" => ~stage.done) /\ (pc = "ask D" => mode = "upgrade")
  BY <1>3, HereOK DEF OfUpgrade, Away
<1>5. i \notin stage.prompted /\ (i \in First => stage.required)
  BY <1>2, <1>4 DEF StandsAt, First
<1> DEFINE t == Told(i, stage)
<1>6. /\ t.prompted = stage.prompted \cup {i} /\ t.base = stage.base /\ t.started = stage.started
      /\ t.done = stage.done /\ t.a = stage.a /\ t.b = stage.b
  BY <1>3, <1>4, ToldOf
<1> HIDE DEF t
<1>7. IsRead(t) /\ ~t.started /\ (mode = "upgrade" => ~t.done)
  BY <1>4, <1>6 DEF IsRead
<1>8. StandsAt("off", t)
  BY <1>7 DEF StandsAt, Away
<1>9. mode = "live" => StandsAt(to, t)
  <2>1. CASE pc = "ask A"
    BY <1>2, <1>4, <1>6, <1>7, <2>1 DEF StandsAt, Away, Both
  <2>2. CASE pc = "ask B"
    BY <1>2, <1>4, <1>6, <1>7, <2>2 DEF StandsAt, Away, Both
  <2> QED BY <1>2, <1>4, <2>1, <2>2
<1>10. mode = "upgrade" => StandsAt(to, t)
  BY <1>2, <1>7 DEF StandsAt, Away, Both, OfUpgrade
<1>11. mode \in {"upgrade", "live"}
  BY <1>4 DEF WorldOK
<1> QED BY <1>1, <1>4, <1>5, <1>8, <1>9, <1>10, <1>11, InstructsOK DEF t

LEMMA AnswersStep ==
  ASSUME CheckoutsInv, AnswerA \/ AnswerB
  PROVE  CheckoutsInv'
<1>1. CASE AnswerA
  <2> DEFINE to == IF mode = "upgrade" THEN "command A" ELSE "select A"
  <2>1. pc = "answer A" /\ Confirm("prepare", to) /\ "prepare" \in Instructions
    BY <1>1 DEF AnswerA, Instructions
  <2>2. mode \in {"upgrade", "live"} /\ StandsAt(pc, stage) /\ IsRead(stage) /\ ~stage.started /\ pc # "off"
        /\ (mode = "upgrade" => ~stage.done)
    BY <2>1, HereOK DEF Away, WorldOK
  <2>3. StandsAt(to, stage)
    BY <2>1, <2>2 DEF StandsAt, Away, Both, OfUpgrade, OfLive
  <2> QED BY <2>1, <2>2, <2>3, ConfirmsOK
<1>2. CASE AnswerB
  <2> DEFINE to == IF mode = "upgrade" THEN "command B" ELSE "select B"
  <2>1. pc = "answer B" /\ Confirm("upgrade", to) /\ "upgrade" \in Instructions
    BY <1>2 DEF AnswerB, Instructions
  <2>2. mode \in {"upgrade", "live"} /\ StandsAt(pc, stage) /\ IsRead(stage) /\ ~stage.started /\ pc # "off"
        /\ (mode = "upgrade" => ~stage.done)
    BY <2>1, HereOK DEF Away, WorldOK
  <2>3. StandsAt(to, stage)
    BY <2>1, <2>2 DEF StandsAt, Away, Both, OfUpgrade, OfLive
  <2> QED BY <2>1, <2>2, <2>3, ConfirmsOK
<1> QED BY <1>1, <1>2

LEMMA CommandsStep ==
  ASSUME CheckoutsInv, CommandA \/ CommandB \/ CommandD
  PROVE  CheckoutsInv'
<1>1. PICK i \in Instructions, to \in {"settle A", "settle B", "settle D"} :
        Interact(i, to) /\ pc \in {"command A", "command B", "command D"}
  BY DEF CommandA, CommandB, CommandD, Instructions
<1>2. /\ mode = "upgrade" /\ pc # "off" /\ IsRead(stage) /\ ~stage.started /\ ~stage.done
  BY <1>1, UpgradeHere DEF OfUpgrade
<1>3. to \in OfUpgrade \ {"create", "ask D"}
  BY <1>1 DEF OfUpgrade
<1>4. StandsAt(to, stage)
  BY <1>2, <1>3, UpgradeAt
<1> QED BY <1>1, <1>2, <1>4, InteractsOK

-----------------------------------------------------------------------------
\* What a reading of a settle leaves, before what was found is noted.
LEMMA SettlesOK ==
  ASSUME CheckoutsInv, NEW at \in {"settle A", "settle B", "settle D"}, pc = at, Forgets, Unasked,
         NEW reports \in SUBSET Skus, NEW s, s = Manage(stage, Recover(Seen(reports)))
  PROVE  /\ Free(s) /\ mode = "upgrade" /\ WorldOK
         /\ Fails(s) => CheckoutsInv'
         /\ Proceed(at, s) => CheckoutsInv'
<1>1. pc \in OfUpgrade /\ at \in OfUpgrade \ {"create", "ask D"}
  BY DEF OfUpgrade
<1>2. Free(stage) /\ mode = "upgrade" /\ WorldOK
  BY <1>1, FreeHere
<1>3. Recover(Seen(reports)) \in SUBSET Ents
  BY RecoversOf
<1>4. Free(s)
  BY <1>2, <1>3, FreeManages
<1> QED BY <1>1, <1>2, <1>4, FreeFails, FreeGoes

LEMMA SettleAOK ==
  ASSUME CheckoutsInv, SettleA
  PROVE  CheckoutsInv'
<1>1. pc = "settle A" /\ Forgets /\ Unasked
  BY DEF SettleA, SettleAt
<1>2. \/ Error
      \/ \E reports \in SUBSET Skus : \E s \in {Manage(stage, Recover(Seen(reports)))} :
           \/ Fails(s) \/ Proceed("settle A", s)
           \/ \E e \in Ents : Proceed("upgrade", [Manage(s, {e}) EXCEPT !.a = e])
  BY DEF SettleA, SettleAt
<1>3. CASE Error
  BY <1>1, <1>3, ErrorOK
<1>4. ASSUME NEW reports \in SUBSET Skus, NEW s, s = Manage(stage, Recover(Seen(reports)))
      PROVE  /\ Fails(s) \/ Proceed("settle A", s) => CheckoutsInv'
             /\ \A e \in Ents : Proceed("upgrade", [Manage(s, {e}) EXCEPT !.a = e]) => CheckoutsInv'
  <2>1. /\ Free(s) /\ mode = "upgrade" /\ WorldOK
        /\ Fails(s) => CheckoutsInv'
        /\ Proceed("settle A", s) => CheckoutsInv'
    BY <1>1, <1>4, SettlesOK
  <2>2. ASSUME NEW e \in Ents, Proceed("upgrade", [Manage(s, {e}) EXCEPT !.a = e]) PROVE CheckoutsInv'
    <3>1. Free(Manage(s, {e}))
      BY <2>1, FreeManages
    <3>2. Free([Manage(s, {e}) EXCEPT !.a = e])
      BY <2>1, <3>1, FreeSets
    <3>3. "upgrade" \in OfUpgrade \ {"create", "ask D"}
      BY DEF OfUpgrade
    <3> QED BY <1>1, <2>1, <2>2, <3>2, <3>3, FreeGoes
  <2> QED BY <2>1, <2>2
<1> QED BY <1>2, <1>3, <1>4

LEMMA SettleBOK ==
  ASSUME CheckoutsInv, SettleB
  PROVE  CheckoutsInv'
<1>1. pc = "settle B" /\ Forgets /\ Unasked
  BY DEF SettleB, SettleAt
<1>2. \/ Error
      \/ \E reports \in SUBSET Skus : \E s \in {Manage(stage, Recover(Seen(reports)))} :
           \/ Fails(s) \/ Proceed("settle B", s)
           \/ \E e \in Ents : Proceed("cross tier", [Manage(s, {e}) EXCEPT !.b = e, !.upgraded = TRUE])
  BY DEF SettleB, SettleAt
<1>3. CASE Error
  BY <1>1, <1>3, ErrorOK
<1>4. ASSUME NEW reports \in SUBSET Skus, NEW s, s = Manage(stage, Recover(Seen(reports)))
      PROVE  /\ Fails(s) \/ Proceed("settle B", s) => CheckoutsInv'
             /\ \A e \in Ents : Proceed("cross tier", [Manage(s, {e}) EXCEPT !.b = e, !.upgraded = TRUE])
                                => CheckoutsInv'
  <2>1. /\ Free(s) /\ mode = "upgrade" /\ WorldOK
        /\ Fails(s) => CheckoutsInv'
        /\ Proceed("settle B", s) => CheckoutsInv'
    BY <1>1, <1>4, SettlesOK
  <2>2. ASSUME NEW e \in Ents, Proceed("cross tier", [Manage(s, {e}) EXCEPT !.b = e, !.upgraded = TRUE])
        PROVE  CheckoutsInv'
    <3>1. Free(Manage(s, {e}))
      BY <2>1, FreeManages
    <3>2. Free([Manage(s, {e}) EXCEPT !.b = e, !.upgraded = TRUE])
      BY <2>1, <3>1, FreeSets
    <3>3. "cross tier" \in OfUpgrade \ {"create", "ask D"}
      BY DEF OfUpgrade
    <3> QED BY <1>1, <2>1, <2>2, <3>2, <3>3, FreeGoes
  <2> QED BY <2>1, <2>2
<1> QED BY <1>2, <1>3, <1>4

LEMMA SettleDOK ==
  ASSUME CheckoutsInv, SettleD
  PROVE  CheckoutsInv'
<1>1. pc = "settle D" /\ Forgets /\ Unasked
  BY DEF SettleD, SettleAt
<1>2. \/ Error
      \/ \E reports \in SUBSET Skus : \E s \in {Manage(stage, Recover(Seen(reports)))} :
           \/ Fails(s) \/ Proceed("settle D", s) \/ Proceed("finish", s)
           \/ Proceed("finish", [s EXCEPT !.downgraded = TRUE])
  BY DEF SettleD, SettleAt
<1>3. CASE Error
  BY <1>1, <1>3, ErrorOK
<1>4. ASSUME NEW reports \in SUBSET Skus, NEW s, s = Manage(stage, Recover(Seen(reports)))
      PROVE  /\ Fails(s) \/ Proceed("settle D", s) => CheckoutsInv'
             /\ Proceed("finish", s) \/ Proceed("finish", [s EXCEPT !.downgraded = TRUE]) => CheckoutsInv'
  <2>1. /\ Free(s) /\ mode = "upgrade" /\ WorldOK
        /\ Fails(s) => CheckoutsInv'
        /\ Proceed("settle D", s) => CheckoutsInv'
    BY <1>1, <1>4, SettlesOK
  <2>2. Free([s EXCEPT !.downgraded = TRUE])
    BY <2>1, FreeSets
  <2>3. "finish" \in OfUpgrade \ {"create", "ask D"}
    BY DEF OfUpgrade
  <2> QED BY <1>1, <2>1, <2>2, <2>3, FreeGoes
<1> QED BY <1>2, <1>3, <1>4

LEMMA UpgradeToBOK ==
  ASSUME CheckoutsInv, UpgradeToB
  PROVE  CheckoutsInv'
<1>1. pc = "upgrade" /\ Forgets /\ Unasked
  BY DEF UpgradeToB
<1>2. Free(stage) /\ mode = "upgrade" /\ WorldOK
  BY <1>1, FreeHere DEF OfUpgrade
<1>3. \/ Proceed("cross tier", stage) \/ Proceed("settle B", stage)
      \/ "upgrade" \notin stage.prompted /\ Proceed("ask B", Obliged(stage))
  BY DEF UpgradeToB
<1>4. {"cross tier", "settle B"} \subseteq OfUpgrade \ {"create", "ask D"}
  BY DEF OfUpgrade
<1> QED BY <1>1, <1>2, <1>3, <1>4, FreeGoes, AsksOK

LEMMA CrossTierOK ==
  ASSUME CheckoutsInv, CrossTier
  PROVE  CheckoutsInv'
<1>1. pc = "cross tier" /\ Forgets /\ Unasked
  BY DEF CrossTier
<1>2. Free(stage) /\ mode = "upgrade" /\ WorldOK /\ pc # "off"
  BY <1>1, FreeHere DEF OfUpgrade
<1>3. \/ Error \/ Proceed("downgrade", stage) \/ Proceed("downgrade", [stage EXCEPT !.probe = "removed"])
      \/ stage.probe = "none" /\ Proceed("create", [stage EXCEPT !.probe = "attempted"])
  BY DEF CrossTier
<1>4. "downgrade" \in OfUpgrade \ {"create", "ask D"}
  BY DEF OfUpgrade
<1>5. Free([stage EXCEPT !.probe = "removed"]) /\ Free([stage EXCEPT !.probe = "attempted"])
  BY <1>2, FreeSets
<1>6. CASE stage.probe = "none" /\ Proceed("create", [stage EXCEPT !.probe = "attempted"])
  <2> DEFINE t == [stage EXCEPT !.probe = "attempted"]
  <2>1. sent = 0
    BY <1>2, <1>6 DEF Free, StageOK, PromptsKept
  <2>2. t.probe = "attempted" /\ StageOK(t) /\ IsRead(t) /\ ~t.started /\ ~t.done
    BY <1>2, <1>5 DEF Free, StageOK, Stages
  <2> HIDE DEF t
  <2>3. StandsAt("create", t)
    BY <1>2, <2>1, <2>2 DEF StandsAt, Away, Both, OfUpgrade
  <2>4. view' \in Readings
    BY <1>1, BlindReads DEF Forgets
  <2> QED BY <1>1, <1>2, <1>6, <2>2, <2>3, <2>4, ProceedsOK DEF t
<1> QED BY <1>1, <1>2, <1>3, <1>4, <1>5, <1>6, FreeGoes, ErrorOK

LEMMA SendCreateOK ==
  ASSUME CheckoutsInv, SendCreate
  PROVE  CheckoutsInv'
<1>1. pc = "create" /\ Forgets /\ Unasked /\ sent' = sent + 1 /\ UNCHANGED <<mode, status, listed, heard, told>>
  BY DEF SendCreate, world, Unasked, person
<1>2. Free(stage) /\ mode = "upgrade" /\ WorldOK /\ StandsAt(pc, stage)
  BY <1>1, FreeHere, HereOK DEF OfUpgrade
<1>3. sent = 0 /\ stage.probe = "attempted" /\ stage \in Stages
  BY <1>1, <1>2 DEF StandsAt, Free, StageOK
<1>4. PICK p \in {"attempted", "created", "rejected"} : stage' = [stage EXCEPT !.probe = p]
  <2>1. PICK answer \in {"created", "rejected", "lost"} : stage' = Attempted(answer)
    BY DEF SendCreate
  <2> QED BY <1>3, <2>1 DEF Attempted
<1>5. pc' \in {"off", "cross tier"}
  BY DEF SendCreate
<1> DEFINE t == [stage EXCEPT !.probe = p]
<1>6. t \in Stages
  BY <1>3 DEF Stages
<1>7. /\ t.prompted = stage.prompted /\ t.base = stage.base /\ t.started = stage.started
      /\ t.done = stage.done /\ t.probe = p /\ t.required = stage.required
      /\ t.verified = stage.verified /\ t.managed = stage.managed /\ t.a = stage.a /\ t.b = stage.b
  BY <1>3 DEF Stages
<1>8. stage' = t
  BY <1>4
<1> HIDE DEF t
<1>9. WorldOK'
  BY <1>1, <1>2, <1>3, BlindReads DEF WorldOK, Forgets
<1>10. StageOK(stage)'
  BY <1>1, <1>2, <1>6, <1>7, <1>8 DEF StageOK, PromptsKept, BasesKept, LiveKept, IsRead, Free
<1>11. StandsAt(pc, stage)'
  BY <1>1, <1>2, <1>5, <1>7, <1>8 DEF StandsAt, Free, IsRead, Away, Both, OfUpgrade
<1> QED BY <1>9, <1>10, <1>11 DEF CheckoutsInv

LEMMA ScheduleDowngradeOK ==
  ASSUME CheckoutsInv, ScheduleDowngrade
  PROVE  CheckoutsInv'
<1>1. pc = "downgrade" /\ Forgets /\ Unasked
  BY DEF ScheduleDowngrade
<1>2. Free(stage) /\ mode = "upgrade" /\ WorldOK /\ pc # "off"
  BY <1>1, FreeHere DEF OfUpgrade
<1>3. \/ Error \/ Proceed("finish", stage) \/ Proceed("settle D", stage)
      \/ "downgrade" \notin stage.prompted /\ Proceed("ask D", stage)
  BY DEF ScheduleDowngrade
<1>4. {"finish", "settle D"} \subseteq OfUpgrade \ {"create", "ask D"}
  BY DEF OfUpgrade
<1>5. CASE "downgrade" \notin stage.prompted /\ Proceed("ask D", stage)
  <2>1. StandsAt("ask D", stage)
    BY <1>2, <1>5 DEF StandsAt, Away, Both, OfUpgrade, Free
  <2> QED BY <1>1, <1>2, <1>5, <2>1, ProceedsOK, BlindReads DEF Forgets, Free
<1> QED BY <1>1, <1>2, <1>3, <1>4, <1>5, FreeGoes, ErrorOK

LEMMA FinishOK ==
  ASSUME CheckoutsInv, Finish
  PROVE  CheckoutsInv'
<1> DEFINE t == [stage EXCEPT !.complete = TRUE]
<1>1. pc = "finish" /\ Forgets /\ Unasked /\ Proceed("cancel", t)
  BY DEF Finish
<1>2. Free(stage) /\ mode = "upgrade" /\ WorldOK /\ stage \in Stages
  BY <1>1, FreeHere, HereOK DEF OfUpgrade
<1>3. StageOK(t)
  BY <1>2, SetsOK DEF Free
<1>4. t.started = stage.started /\ t.done = stage.done
  BY <1>2 DEF Stages
<1> HIDE DEF t
<1>5. StandsAt("cancel", t)
  BY <1>2, <1>4 DEF StandsAt, Away, Free
<1> QED BY <1>1, <1>2, <1>3, <1>5, ProceedsOK, BlindReads DEF Forgets

-----------------------------------------------------------------------------
(* Steps of the live script, and the cancellation *)

\* What is new to the program was started in the capture.
LEMMA NewOf ==
  ASSUME WorldOK, StageOK(stage), IsRead(stage), NEW e \in listed, New(e)
  PROVE  e = IF SkuOf(e) = "a" THEN "a1" ELSE "b1"
<1>1. e \in Ents /\ status[e] # "none"
  BY DEF WorldOK
<1>2. /\ status["a0"] # "none" => "a0" \in stage.base["a"]
      /\ status["b0"] # "none" => "b0" \in stage.base["b"]
  BY DEF StageOK, BasesKept, IsRead
<1>3. e # "a0" /\ e # "b0"
  BY <1>1, <1>2 DEF New, SkuOf
<1> QED BY <1>1, <1>3 DEF Ents, SkuOf

LEMMA LivePrepareOK ==
  ASSUME CheckoutsInv, LivePrepare
  PROVE  CheckoutsInv'
<1>1. pc = "read" /\ mode = "live" /\ Forgets /\ Unasked
  BY DEF LivePrepare
<1>2. /\ WorldOK /\ StageOK(stage) /\ StandsAt(pc, stage) /\ IsRead(stage) /\ ~stage.started /\ pc # "off"
      /\ stage \in Stages
  BY <1>1, HereOK DEF Away
<1>3. view' \in Readings
  BY <1>1, BlindReads DEF Forgets
<1>4. CASE Error
  BY <1>1, <1>2, <1>4, ErrorOK
<1>5. CASE stage.b # Unfound /\ Proceed("classify", stage)
  <2>1. StandsAt("classify", stage)
    BY <1>1, <1>2 DEF StandsAt, Away, Both, OfLive
  <2> QED BY <1>1, <1>2, <1>3, <1>5, <2>1, ProceedsOK
<1>6. ASSUME NEW to \in {"select B", "answer B"}, stage.b = Unfound, Proceed(to, stage)
      PROVE  CheckoutsInv'
  <2>1. StandsAt(to, stage)
    BY <1>1, <1>2, <1>6 DEF StandsAt, Away, Both, OfLive
  <2> QED BY <1>1, <1>2, <1>3, <1>6, <2>1, ProceedsOK
<1>7. CASE /\ stage.b = Unfound /\ "upgrade" \notin stage.prompted /\ stage.a # Unfound
           /\ Proceed("capture A", stage)
  <2>1. stage.required
    BY <1>1, <1>2, <1>7 DEF StageOK, PromptsKept
  <2>2. StandsAt("capture A", stage)
    BY <1>1, <1>2, <1>7, <2>1 DEF StandsAt, Away, Both, OfLive
  <2> QED BY <1>1, <1>2, <1>3, <1>7, <2>2, ProceedsOK
<1>8. ASSUME NEW to \in {"select A", "answer A"}, stage.b = Unfound, "upgrade" \notin stage.prompted,
             stage.a = Unfound, "prepare" \in stage.prompted, Proceed(to, stage)
      PROVE  CheckoutsInv'
  <2>1. StandsAt(to, stage)
    BY <1>1, <1>2, <1>8 DEF StandsAt, Away, Both, OfLive
  <2> QED BY <1>1, <1>2, <1>3, <1>8, <2>1, ProceedsOK
<1>9. CASE /\ stage.b = Unfound /\ "upgrade" \notin stage.prompted /\ stage.a = Unfound
           /\ "prepare" \notin stage.prompted /\ Proceed("ask A", Obliged(stage))
  <2> DEFINE o == Obliged(stage)
  <2>1. /\ StageOK(o) /\ o.required = TRUE /\ o.prompted = stage.prompted /\ o.base = stage.base
        /\ o.started = stage.started /\ o.done = stage.done /\ o.a = stage.a /\ o.b = stage.b
    BY <1>2, ObligedOK
  <2> HIDE DEF o
  <2>2. StandsAt("ask A", o)
    BY <1>1, <1>2, <1>9, <2>1 DEF StandsAt, Away, Both, IsRead
  <2> QED BY <1>1, <1>2, <1>3, <1>9, <2>1, <2>2, ProceedsOK DEF o
<1>10. \/ Error
       \/ stage.b # Unfound /\ Proceed("classify", stage)
       \/ \E to \in {"select B", "answer B"} : stage.b = Unfound /\ Proceed(to, stage)
       \/ /\ stage.b = Unfound /\ "upgrade" \notin stage.prompted /\ stage.a # Unfound
          /\ Proceed("capture A", stage)
       \/ \E to \in {"select A", "answer A"} :
            /\ stage.b = Unfound /\ "upgrade" \notin stage.prompted
            /\ stage.a = Unfound /\ "prepare" \in stage.prompted /\ Proceed(to, stage)
       \/ /\ stage.b = Unfound /\ "upgrade" \notin stage.prompted /\ stage.a = Unfound
          /\ "prepare" \notin stage.prompted /\ Proceed("ask A", Obliged(stage))
  BY DEF LivePrepare
<1> QED BY <1>4, <1>5, <1>6, <1>7, <1>8, <1>9, <1>10

LEMMA SelectAOK ==
  ASSUME CheckoutsInv, SelectA
  PROVE  CheckoutsInv'
<1>1. pc = "select A" /\ SelectNew("a", "capture A") /\ Forgets /\ Unasked
  BY DEF SelectA, SelectNew
<1>2. /\ WorldOK /\ StageOK(stage) /\ StandsAt(pc, stage) /\ IsRead(stage) /\ ~stage.started /\ pc # "off"
      /\ stage \in Stages /\ mode = "live"
  BY <1>1, HereOK DEF Away, OfLive
<1>3. \/ Error
      \/ \E e \in listed : /\ SkuOf(e) = "a" /\ New(e)
                           /\ Proceed("capture A", [[stage EXCEPT !.a = e] EXCEPT !.managed = @ \cup {e}])
  BY <1>1 DEF SelectNew
<1>4. CASE Error
  BY <1>1, <1>2, <1>4, ErrorOK
<1>5. ASSUME NEW e \in listed, SkuOf(e) = "a", New(e),
             Proceed("capture A", [[stage EXCEPT !.a = e] EXCEPT !.managed = @ \cup {e}])
      PROVE  CheckoutsInv'
  <2> DEFINE t == [[stage EXCEPT !.a = e] EXCEPT !.managed = @ \cup {e}]
  <2>1. e = "a1" /\ e \in Ents
    BY <1>2, <1>5, NewOf DEF Ents
  <2>2. t = [stage EXCEPT !.a = e, !.managed = stage.managed \cup {e}]
    BY <1>2 DEF Stages
  <2>3. stage.managed \cup {e} \in SUBSET Ents
    BY <1>2, <2>1 DEF Stages
  <2>4. t \in Stages
    BY <1>2, <2>1, <2>2, <2>3 DEF Stages
  <2>5. /\ t.prompted = stage.prompted /\ t.base = stage.base /\ t.started = stage.started
        /\ t.done = stage.done /\ t.probe = stage.probe /\ t.required = stage.required
        /\ t.verified = stage.verified /\ t.managed = stage.managed \cup {e} /\ t.a = e /\ t.b = stage.b
    BY <1>2, <2>2 DEF Stages
  <2> HIDE DEF t
  <2>6. "prepare" \in stage.prompted /\ "upgrade" \notin stage.prompted /\ stage.b = Unfound /\ stage.a = Unfound
    BY <1>1, <1>2 DEF StandsAt
  <2>7. stage.required
    BY <1>2, <2>6 DEF StageOK, PromptsKept, First
  <2>8. stage.managed \subseteq {Unfound}
    BY <1>2, <2>6 DEF StageOK, LiveKept
  <2>9. Unfound \notin Ents /\ stage.managed \subseteq Ents
    BY <1>2 DEF Stages, Unfound, Ents
  <2>10. t.managed \subseteq {t.a, t.b}
    BY <2>5, <2>8, <2>9
  <2>11. StageOK(t)
    BY <1>2, <2>1, <2>4, <2>5, <2>6, <2>7, <2>10, SameOK
  <2>12. StandsAt("capture A", t)
    BY <1>2, <2>5, <2>6, <2>7 DEF StandsAt, Away, Both, OfLive, IsRead
  <2> QED BY <1>1, <1>2, <1>5, <2>11, <2>12, ProceedsOK, BlindReads DEF Forgets, t
<1> QED BY <1>3, <1>4, <1>5

LEMMA SelectBOK ==
  ASSUME CheckoutsInv, SelectB
  PROVE  CheckoutsInv'
<1>1. pc = "select B" /\ SelectNew("b", "classify") /\ Forgets /\ Unasked
  BY DEF SelectB, SelectNew
<1>2. /\ WorldOK /\ StageOK(stage) /\ StandsAt(pc, stage) /\ IsRead(stage) /\ ~stage.started /\ pc # "off"
      /\ stage \in Stages /\ mode = "live"
  BY <1>1, HereOK DEF Away, OfLive
<1>3. \/ Error
      \/ \E e \in listed : /\ SkuOf(e) = "b" /\ New(e)
                           /\ Proceed("classify", [[stage EXCEPT !.b = e] EXCEPT !.managed = @ \cup {e}])
  BY <1>1 DEF SelectNew
<1>4. CASE Error
  BY <1>1, <1>2, <1>4, ErrorOK
<1>5. ASSUME NEW e \in listed, SkuOf(e) = "b", New(e),
             Proceed("classify", [[stage EXCEPT !.b = e] EXCEPT !.managed = @ \cup {e}])
      PROVE  CheckoutsInv'
  <2> DEFINE t == [[stage EXCEPT !.b = e] EXCEPT !.managed = @ \cup {e}]
  <2>1. e = "b1" /\ e \in Ents
    BY <1>2, <1>5, NewOf DEF Ents
  <2>2. t = [stage EXCEPT !.b = e, !.managed = stage.managed \cup {e}]
    BY <1>2 DEF Stages
  <2>3. stage.managed \cup {e} \in SUBSET Ents
    BY <1>2, <2>1 DEF Stages
  <2>4. t \in Stages
    BY <1>2, <2>1, <2>2, <2>3 DEF Stages
  <2>5. /\ t.prompted = stage.prompted /\ t.base = stage.base /\ t.started = stage.started
        /\ t.done = stage.done /\ t.probe = stage.probe /\ t.required = stage.required
        /\ t.verified = stage.verified /\ t.managed = stage.managed \cup {e} /\ t.a = stage.a /\ t.b = e
    BY <1>2, <2>2 DEF Stages
  <2> HIDE DEF t
  <2>6. stage.b = Unfound
    BY <1>1, <1>2 DEF StandsAt
  <2>7. /\ stage.a # Unfound => stage.required
        /\ stage.a \in {Unfound, "a1"} /\ stage.managed \subseteq {stage.a, Unfound}
    BY <1>2, <2>6 DEF StageOK, PromptsKept, LiveKept
  <2>8. Unfound \notin Ents /\ stage.managed \subseteq Ents
    BY <1>2 DEF Stages, Unfound, Ents
  <2>9. t.managed \subseteq {t.a, t.b}
    BY <2>5, <2>7, <2>8
  <2>10. StageOK(t)
    BY <1>2, <2>1, <2>4, <2>5, <2>7, <2>9, SameOK
  <2>11. StandsAt("classify", t)
    BY <1>2, <2>5 DEF StandsAt, Away, Both, OfLive, IsRead
  <2> QED BY <1>1, <1>2, <1>5, <2>10, <2>11, ProceedsOK, BlindReads DEF Forgets, t
<1> QED BY <1>3, <1>4, <1>5

LEMMA CaptureAOK ==
  ASSUME CheckoutsInv, CaptureA
  PROVE  CheckoutsInv'
<1>1. pc = "capture A" /\ Forgets /\ Unasked /\ (Error \/ Proceed("ask B", stage))
  BY DEF CaptureA
<1>2. /\ WorldOK /\ StageOK(stage) /\ StandsAt(pc, stage) /\ IsRead(stage) /\ ~stage.started /\ pc # "off"
      /\ mode = "live"
  BY <1>1, HereOK DEF Away, OfLive
<1>3. StandsAt("ask B", stage)
  BY <1>1, <1>2 DEF StandsAt, Away, Both
<1> QED BY <1>1, <1>2, <1>3, ErrorOK, ProceedsOK, BlindReads DEF Forgets

\* The end of a capture is noted.
LEMMA DoneOK ==
  ASSUME NEW s, StageOK(s), NEW d \in BOOLEAN
  PROVE  LET t == [s EXCEPT !.done = d]
         IN  /\ StageOK(t) /\ t.base = s.base /\ t.prompted = s.prompted /\ t.started = s.started /\ t.done = d
             /\ t.required = s.required /\ t.verified = s.verified /\ t.a = s.a /\ t.b = s.b
<1> DEFINE t == [s EXCEPT !.done = d]
<1>1. s \in Stages
  BY DEF StageOK
<1>2. t \in Stages
  BY <1>1 DEF Stages
<1>3. /\ t.prompted = s.prompted /\ t.base = s.base /\ t.started = s.started /\ t.done = d
      /\ t.probe = s.probe /\ t.required = s.required /\ t.verified = s.verified /\ t.managed = s.managed
      /\ t.a = s.a /\ t.b = s.b
  BY <1>1 DEF Stages
<1> HIDE DEF t
<1>4. StageOK(t)
  BY <1>2, <1>3, SameOK DEF StageOK, PromptsKept, LiveKept
<1> QED BY <1>3, <1>4 DEF t

LEMMA ClassifyOK ==
  ASSUME CheckoutsInv, Classify
  PROVE  CheckoutsInv'
<1> DEFINE t == [stage EXCEPT !.done = TRUE]
<1>1. pc = "classify" /\ Forgets /\ Unasked /\ (Error \/ Proceed("cancel", t))
  BY DEF Classify
<1>2. WorldOK /\ StageOK(stage) /\ StandsAt(pc, stage) /\ pc # "off" /\ mode = "live"
  BY <1>1, HereOK DEF OfLive
<1>3. StageOK(t)
  BY <1>2, DoneOK
<1> HIDE DEF t
<1>4. StandsAt("cancel", t)
  BY <1>2 DEF StandsAt, Away
<1> QED BY <1>1, <1>2, <1>3, <1>4, ErrorOK, ProceedsOK, BlindReads DEF Forgets

\* Where the program has ended, a capture is done only when its cancellation is verified.
LEMMA FinishedOK ==
  ASSUME mode \in {"upgrade", "live"}, NEW s, StageOK(s)
  PROVE  /\ StageOK(Finished(s)) /\ StandsAt("off", Finished(s))
         /\ Finished(s).verified = s.verified /\ Finished(s).managed = s.managed
<1>1. CASE mode = "live"
  <2>1. Finished(s) = s
    BY <1>1 DEF Finished
  <2> QED BY <1>1, <2>1 DEF StandsAt, Away
<1>2. CASE mode = "upgrade"
  <2> DEFINE d == s.complete /\ s.verified
             t == [s EXCEPT !.done = d]
  <2>1. s \in Stages
    BY DEF StageOK
  <2>2. d \in BOOLEAN /\ (d => s.verified)
    BY <2>1 DEF Stages
  <2>3. Finished(s) = t
    BY <1>2 DEF Finished
  <2>4. t.managed = s.managed
    BY <2>1 DEF Stages
  <2> HIDE DEF d
  <2>5. StageOK(t) /\ t.done = d /\ t.verified = s.verified
    BY <2>2, DoneOK
  <2> HIDE DEF t
  <2>6. StandsAt("off", t)
    BY <1>2, <2>2, <2>5 DEF StandsAt, Away
  <2> QED BY <2>3, <2>4, <2>5, <2>6
<1> QED BY <1>1, <1>2

LEMMA CancelOK ==
  ASSUME CheckoutsInv, Cancel
  PROVE  CheckoutsInv'
<1> DEFINE t == [stage EXCEPT !.started = TRUE]
<1>1. pc = "cancel" /\ Forgets
  BY DEF Cancel
<1>2. WorldOK /\ StageOK(stage) /\ StandsAt(pc, stage) /\ stage \in Stages /\ (mode = "upgrade" => ~stage.done)
  BY <1>1, HereOK
<1>3. view' \in Readings
  BY <1>1, BlindReads DEF Forgets
<1>4. \/ Unasked /\ Proceed("off", Finished(stage))
      \/ /\ stage.required /\ heard' = heard \cup {"cancel"} /\ told' = [told EXCEPT !["cancel"] = 1]
         /\ Proceed("verify", t)
      \/ Unasked /\ Proceed("off", t)
  BY DEF Cancel
<1>5. t \in Stages
  BY <1>2 DEF Stages
<1>6. /\ t.prompted = stage.prompted /\ t.base = stage.base /\ t.started = TRUE
      /\ t.done = stage.done /\ t.probe = stage.probe /\ t.required = stage.required
      /\ t.verified = stage.verified /\ t.managed = stage.managed /\ t.a = stage.a /\ t.b = stage.b
  BY <1>2 DEF Stages
<1> HIDE DEF t
<1>7. StageOK(t)
  BY <1>2, <1>5, <1>6, SameOK DEF StageOK, PromptsKept, LiveKept
<1>8. CASE Unasked /\ Proceed("off", Finished(stage))
  <2>1. StageOK(Finished(stage)) /\ StandsAt("off", Finished(stage))
    BY <1>2, FinishedOK DEF WorldOK
  <2> QED BY <1>2, <1>3, <1>8, <2>1, ProceedsOK
<1>9. CASE Unasked /\ Proceed("off", t)
  <2>1. StandsAt("off", t)
    BY <1>2, <1>6 DEF StandsAt, Away
  <2> QED BY <1>2, <1>3, <1>7, <1>9, <2>1, ProceedsOK
<1>10. CASE /\ stage.required /\ heard' = heard \cup {"cancel"} /\ told' = [told EXCEPT !["cancel"] = 1]
            /\ Proceed("verify", t)
  <2>1. /\ UNCHANGED <<mode, status, listed, sent>> /\ stage' = t /\ pc' = "verify"
        /\ heard' = heard \cup {"cancel"} /\ told' = [told EXCEPT !["cancel"] = 1] /\ stage.required
    BY <1>10 DEF Proceed, world
  <2>2. told \in [Instructions -> 0..2] /\ heard \in SUBSET Instructions
    BY <1>2 DEF WorldOK
  <2>3. /\ told' \in [Instructions -> 0..2] /\ heard' \in SUBSET Instructions
        /\ \A j \in Once : told'[j] = told[j] /\ (j \in heard' => j \in heard)
    BY <2>1, <2>2 DEF Instructions, Once
  <2>4. WorldOK'
    BY <1>2, <1>3, <2>1, <2>3 DEF WorldOK
  <2>5. PromptsKept(stage)'
    BY <1>2, <1>7, <2>1, <2>3 DEF StageOK, PromptsKept
  <2>6. StageOK(stage)'
    BY <1>7, <2>1, <2>5 DEF StageOK, BasesKept, LiveKept
  <2>7. StandsAt(pc, stage)'
    BY <1>2, <1>6, <2>1 DEF StandsAt, Away
  <2> QED BY <2>4, <2>6, <2>7 DEF CheckoutsInv
<1> QED BY <1>4, <1>8, <1>9, <1>10

\* What a verification leaves.
LEMMA VerifiedOK ==
  ASSUME NEW s, StageOK(s), s.required, NEW v \in BOOLEAN, v => s.managed # {}
  PROVE  LET t == [s EXCEPT !.verified = v]
         IN  StageOK(t) /\ t.verified = v /\ t.managed = s.managed
<1> DEFINE t == [s EXCEPT !.verified = v]
<1>1. s \in Stages
  BY DEF StageOK
<1>2. t \in Stages
  BY <1>1 DEF Stages
<1>3. /\ t.prompted = s.prompted /\ t.base = s.base /\ t.verified = v
      /\ t.probe = s.probe /\ t.required = s.required /\ t.managed = s.managed
      /\ t.a = s.a /\ t.b = s.b
  BY <1>1 DEF Stages
<1>4. t.verified => t.managed # {}
  BY <1>3
<1>5. mode = "live" => /\ s.a # Unfound => s.required
                       /\ s.a \in {Unfound, "a1"} /\ s.b \in {Unfound, "b1"} /\ s.managed \subseteq {s.a, s.b}
  BY DEF StageOK, PromptsKept, LiveKept
<1> HIDE DEF t
<1>6. StageOK(t)
  BY <1>2, <1>3, <1>4, <1>5, SameOK
<1> QED BY <1>3, <1>6 DEF t

LEMMA CanceledOf ==
  ASSUME NEW v, NEW es \in SUBSET Ents
  PROVE  /\ Canceled(v, es) \in BOOLEAN
         /\ Canceled(v, es) => es # {} /\ \A e \in es : v.rows[e] \in {"canceled", "ended"}
BY DEF Canceled, CancellationVerified

\* What the lists show as ended or canceled is so.
LEMMA SeenCanceled ==
  ASSUME WorldOK, NEW reports \in SUBSET Skus, NEW es \in SUBSET Ents, Canceled(Seen(reports), es)
  PROVE  \A e \in es : status[e] \in {"canceled", "ended"}
<1>1. \A e \in Ents : Seen(reports).rows[e] = IF e \in listed THEN status[e] ELSE "none"
  BY SeenReads
<1>2. \A e \in es : Seen(reports).rows[e] \in {"canceled", "ended"}
  BY CanceledOf
<1> QED BY <1>1, <1>2

\* The verification of the script that upgrades: what was started and is listed is recovered.
LEMMA VerifyCanceledOK ==
  ASSUME CheckoutsInv, VerifyCanceled
  PROVE  CheckoutsInv' /\ VerifiesRightly
<1>1. pc = "verify" /\ mode = "upgrade" /\ Forgets /\ Unasked
  BY DEF VerifyCanceled
<1>2. WorldOK /\ StageOK(stage) /\ StandsAt(pc, stage) /\ stage \in Stages
  BY <1>1, HereOK
<1>3. stage.required /\ IsRead(stage)
  BY <1>1, <1>2 DEF StandsAt, StageOK, BasesKept
<1>4. PICK reports \in SUBSET Skus :
        LET v == Seen(reports)  s == Manage(stage, Recover(v))
        IN  Proceed("off", Finished([s EXCEPT !.verified = Canceled(v, s.managed)]))
  BY DEF VerifyCanceled
<1> DEFINE v == Seen(reports)
           s == Manage(stage, Recover(v))
           ok == Canceled(v, s.managed)
           t == [s EXCEPT !.verified = ok]
<1>5. Recover(v) \in SUBSET Ents
  BY RecoversOf
<1>6. StageOK(s) /\ s.required /\ s.managed = stage.managed \cup Recover(v)
  BY <1>1, <1>2, <1>3, <1>5, ManagesOK
<1>7. Proceed("off", Finished(t))
  BY <1>4
<1>8. \A e \in Started \cap listed : e \in Recover(v)
  <2> SUFFICES ASSUME NEW e \in Started \cap listed
               PROVE  e \in Recover(v)
    OBVIOUS
  <2>1. e \in {"a1", "b1"} /\ status[e] # "none" /\ e \in Ents
    BY DEF Started, Ents
  <2>2. v.rows[e] # "none"
    BY <1>2, <2>1, SeenReads
  <2>3. New(e)
    BY <1>2, <2>1 DEF New, SkuOf, StageOK, BasesKept
  <2>4. (IF SkuOf(e) = "a" THEN "prepare" ELSE "upgrade") \in stage.prompted
    BY <1>2, <2>1 DEF StageOK, PromptsKept, SkuOf
  <2> HIDE DEF v
  <2> QED BY <2>1, <2>2, <2>3, <2>4 DEF Recover
<1>9. s.managed \in SUBSET Ents
  BY <1>6 DEF StageOK, Stages
<1>10. ok => \A e \in s.managed : status[e] \in {"canceled", "ended"}
  BY <1>2, <1>9, SeenCanceled
<1>11. ok \in BOOLEAN /\ (ok => s.managed # {})
  BY <1>9, CanceledOf
<1> HIDE DEF v, s, ok
<1>12. StageOK(t) /\ t.verified = ok /\ t.managed = s.managed
  BY <1>6, <1>11, VerifiedOK
<1> HIDE DEF t
<1>13. /\ StageOK(Finished(t)) /\ StandsAt("off", Finished(t))
       /\ Finished(t).verified = ok /\ Finished(t).managed = s.managed
  BY <1>1, <1>12, FinishedOK
<1>14. CheckoutsInv'
  BY <1>1, <1>2, <1>7, <1>13, ProceedsOK, BlindReads DEF Forgets
<1>15. VerifiesRightly
  <2>1. stage' = Finished(t)
    BY <1>7 DEF Proceed
  <2> QED BY <1>6, <1>8, <1>10, <1>13, <2>1 DEF VerifiesRightly
<1> QED BY <1>14, <1>15

\* That of the live script: A is found, and so is B if it was asked for.
LEMMA LiveVerifyOK ==
  ASSUME CheckoutsInv, LiveVerify
  PROVE  CheckoutsInv' /\ VerifiesRightly
<1>1. pc = "verify" /\ mode = "live" /\ Forgets /\ Unasked
  BY DEF LiveVerify
<1>2. WorldOK /\ StageOK(stage) /\ StandsAt(pc, stage) /\ stage \in Stages
  BY <1>1, HereOK
<1>3. stage.required /\ IsRead(stage)
  BY <1>1, <1>2 DEF StandsAt, StageOK, BasesKept
<1> DEFINE new(v, k) == {e \in Ents : SkuOf(e) = k /\ v.rows[e] # "none" /\ New(e)}
           found(v, k, was) == IF was = Unfound /\ Cardinality(new(v, k)) = 1 THEN CHOOSE e \in new(v, k) : TRUE ELSE was
           left(a, b, ok) == [stage EXCEPT !.a = a, !.b = b, !.managed = @ \cup ({a, b} \ {Unfound}), !.verified = ok]
           right(v, a, b) == /\ a # Unfound /\ ("upgrade" \in stage.prompted => b # Unfound)
                             /\ Canceled(v, {a, b} \ {Unfound})
<1>4. PICK reports \in SUBSET Skus :
        LET v == Seen(reports)  a == found(v, "a", stage.a)  b == found(v, "b", stage.b)
        IN  Proceed("off", left(a, b, right(v, a, b)))
  BY DEF LiveVerify
<1> DEFINE v == Seen(reports)
           a == found(v, "a", stage.a)
           b == found(v, "b", stage.b)
           managed == {a, b} \ {Unfound}
           ok == right(v, a, b)
           t == left(a, b, ok)
<1>5. Proceed("off", t)
  BY <1>4
<1>6. stage.a \in {Unfound, "a1"} /\ stage.b \in {Unfound, "b1"} /\ stage.managed \subseteq {stage.a, stage.b}
  BY <1>1, <1>2 DEF StageOK, LiveKept
<1>7. \A e \in Ents : v.rows[e] # "none" => e \in listed
  BY <1>2, SeenReads
<1>8. a \in {stage.a, "a1"} /\ (stage.a # Unfound => a = stage.a)
  <2>1. \A e \in new(v, "a") : e = "a1"
    BY <1>2, <1>3, <1>7, NewOf
  <2>2. Cardinality(new(v, "a")) = 1 => new(v, "a") # {}
    BY FS_EmptySet
  <2>3. Cardinality(new(v, "a")) = 1 => (CHOOSE e \in new(v, "a") : TRUE) = "a1"
    BY <2>1, <2>2
  <2> QED BY <2>3
<1>9. b \in {stage.b, "b1"} /\ (stage.b # Unfound => b = stage.b)
  <2>1. \A e \in new(v, "b") : e = "b1"
    BY <1>2, <1>3, <1>7, NewOf DEF SkuOf
  <2>2. Cardinality(new(v, "b")) = 1 => new(v, "b") # {}
    BY FS_EmptySet
  <2>3. Cardinality(new(v, "b")) = 1 => (CHOOSE e \in new(v, "b") : TRUE) = "b1"
    BY <2>1, <2>2
  <2> QED BY <2>3
<1> HIDE DEF a, b, v
<1>10. managed \in SUBSET Ents /\ Unfound \notin Ents /\ "a1" \in Ents /\ "b1" \in Ents
  BY <1>6, <1>8, <1>9 DEF Ents, Unfound
<1>11. stage.managed \subseteq managed
  <2>1. stage.managed \subseteq Ents
    BY <1>2 DEF Stages
  <2> QED BY <1>6, <1>8, <1>9, <1>10, <2>1
<1>12. ok => \A e \in managed : status[e] \in {"canceled", "ended"}
  BY <1>2, <1>10, SeenCanceled DEF v
<1>13. ok \in BOOLEAN /\ (ok => managed # {} /\ a # Unfound /\ ("upgrade" \in stage.prompted => b # Unfound))
  BY <1>10, CanceledOf
<1> HIDE DEF ok, managed
<1>14. t = [stage EXCEPT !.a = a, !.b = b, !.managed = stage.managed \cup managed, !.verified = ok]
  BY DEF managed
<1>15. a \in Ents \cup {Unfound} /\ b \in Ents \cup {Unfound} /\ stage.managed \cup managed \in SUBSET Ents
  BY <1>2, <1>6, <1>8, <1>9, <1>10 DEF Stages
<1> HIDE DEF t
<1>16. t \in Stages
  BY <1>2, <1>13, <1>14, <1>15 DEF Stages
<1>17. /\ t.prompted = stage.prompted /\ t.base = stage.base /\ t.probe = stage.probe
       /\ t.required = stage.required /\ t.verified = ok /\ t.managed = stage.managed \cup managed
       /\ t.a = a /\ t.b = b
  BY <1>2, <1>14 DEF Stages
<1>18. t.managed = managed /\ managed \subseteq {a, b}
  BY <1>11, <1>17 DEF managed
<1>19. StageOK(t)
  BY <1>2, <1>3, <1>6, <1>8, <1>9, <1>13, <1>16, <1>17, <1>18, SameOK
<1>20. t.started = stage.started /\ t.done = stage.done
  BY <1>2, <1>14 DEF Stages
<1>21. StandsAt("off", t)
  BY <1>1 DEF StandsAt, Away
<1>22. CheckoutsInv'
  BY <1>1, <1>2, <1>5, <1>19, <1>21, ProceedsOK, BlindReads DEF Forgets
<1>23. VerifiesRightly
  <2>1. stage' = t
    BY <1>5 DEF Proceed
  <2>2. \A e \in Started : ok => e \in managed
    <3> SUFFICES ASSUME NEW e \in Started, ok
                 PROVE  e \in managed
      OBVIOUS
    <3>1. e \in {"a1", "b1"} /\ status[e] # "none"
      BY DEF Started
    <3>2. e = "b1" => "upgrade" \in stage.prompted
      BY <1>2, <3>1 DEF StageOK, PromptsKept
    <3>3. a = "a1" /\ (e = "b1" => b = "b1")
      BY <1>6, <1>8, <1>9, <1>13, <3>2
    <3> QED BY <1>10, <3>1, <3>3 DEF managed
  <2> QED BY <1>12, <1>17, <1>18, <2>1, <2>2 DEF VerifiesRightly
<1> QED BY <1>22, <1>23

-----------------------------------------------------------------------------
\* No other step calls a cancellation verified.
LEMMA ManagesVerified ==
  ASSUME NEW s \in Stages, NEW es
  PROVE  Manage(s, es).verified => s.verified
BY DEF Manage, Stages

LEMMA InitOK ==
  ASSUME CheckoutsInit
  PROVE  CheckoutsInv
<1>1. mode \in {"upgrade", "live"}
  BY CheckoutsAssumption DEF CheckoutsInit
<1>2. /\ status \in [Ents -> Standing] /\ listed = {e \in Ents : status[e] # "none"}
      /\ status["a1"] = "none" /\ status["b1"] = "none"
      /\ heard = {} /\ told = [i \in Instructions |-> 0] /\ sent = 0 /\ pc = "off" /\ view = Blind
  BY DEF CheckoutsInit, Standing
<1>3. stage = [base |-> [k \in Skus |-> {"unread"}], prompted |-> {}, confirmed |-> {},
               shown |-> {}, managed |-> {}, a |-> "none", b |-> "none",
               required |-> FALSE, started |-> FALSE, verified |-> FALSE, upgraded |-> FALSE,
               downgraded |-> FALSE, probe |-> "none", complete |-> FALSE, done |-> FALSE]
  BY DEF CheckoutsInit
<1>4. stage \in Stages
  BY <1>3 DEF Stages, Unfound
<1>5. /\ stage.base["a"] = {"unread"} /\ stage.base["b"] = {"unread"} /\ stage.prompted = {}
      /\ stage.managed = {} /\ stage.a = Unfound /\ stage.b = Unfound
      /\ ~stage.required /\ ~stage.started /\ ~stage.verified /\ ~stage.done
  BY <1>3 DEF Skus, Unfound
<1>6. WorldOK
  BY <1>1, <1>2, BlindReads DEF WorldOK, Once, Instructions, Ents
<1>7. told["prepare"] = 0 /\ told["upgrade"] = 0 /\ told["downgrade"] = 0
  BY <1>2 DEF Instructions
<1>8. StageOK(stage)
  BY <1>2, <1>4, <1>5, <1>7 DEF StageOK, PromptsKept, BasesKept, LiveKept, Once
<1>9. StandsAt(pc, stage)
  BY <1>2, <1>5 DEF StandsAt, Away
<1> QED BY <1>6, <1>8, <1>9 DEF CheckoutsInv

LEMMA InvStep ==
  ASSUME CheckoutsInv, [CheckoutsNext]_checkoutVars
  PROVE  CheckoutsInv'
<1>1. CASE UNCHANGED checkoutVars
  <2>1. UNCHANGED <<mode, status, listed, heard, told, stage, sent, pc, view>>
    BY <1>1 DEF checkoutVars
  <2>2. WorldOK'
    BY <2>1 DEF CheckoutsInv, WorldOK
  <2>3. StageOK(stage)'
    BY <2>1 DEF CheckoutsInv, StageOK, PromptsKept, BasesKept, LiveKept
  <2>4. StandsAt(pc, stage)'
    BY <2>1 DEF CheckoutsInv, StandsAt
  <2> QED BY <2>2, <2>3, <2>4 DEF CheckoutsInv
<1>2. CASE Subscribes \/ Downgrades \/ LookedInto
             \/ \E e \in Ents : Upgrades(e) \/ Cancels(e) \/ PeriodEnds(e) \/ IsListed(e)
  BY <1>2, WorldStep
<1>3. CASE Start \/ Killed \/ Baseline \/ Cancel \/ VerifyCanceled \/ LiveVerify
  BY <1>3, StartOK, KilledOK, BaselineOK, CancelOK, VerifyCanceledOK, LiveVerifyOK
<1>4. CASE Read \/ Interactions \/ PrepareA \/ UpgradeToB \/ CrossTier \/ SendCreate \/ ScheduleDowngrade \/ Finish
  BY <1>4, ReadOK, InteractionsOK, PrepareAOK, UpgradeToBOK, CrossTierOK, SendCreateOK, ScheduleDowngradeOK, FinishOK
<1>5. CASE AskA \/ AnswerA \/ CommandA \/ AskB \/ AnswerB \/ CommandB \/ AskD \/ CommandD
  BY <1>5, AsksStep, AnswersStep, CommandsStep
<1>6. CASE SettleA \/ SettleB \/ SettleD
  BY <1>6, SettleAOK, SettleBOK, SettleDOK
<1>7. CASE LivePrepare \/ SelectA \/ CaptureA \/ SelectB \/ Classify
  BY <1>7, LivePrepareOK, SelectAOK, CaptureAOK, SelectBOK, ClassifyOK
<1> QED BY <1>1, <1>2, <1>3, <1>4, <1>5, <1>6, <1>7 DEF CheckoutsNext

LEMMA InvNeverReissues ==
  ASSUME CheckoutsInv
  PROVE  NeverReissued
<1>1. WorldOK /\ StageOK(stage) /\ StandsAt(pc, stage)
  BY DEF CheckoutsInv
<1>2. \A i \in {"prepare", "upgrade", "downgrade"} : told[i] <= 1
  BY <1>1 DEF WorldOK, Once
<1>3. sent <= 1
  BY <1>1 DEF WorldOK
<1>4. stage.started => pc \in {"off", "cancel", "verify"}
  BY <1>1 DEF StandsAt
<1>5. Started # {} => stage.required
  BY <1>1 DEF StageOK, PromptsKept, Started, First
<1>6. stage.done /\ mode = "upgrade" => stage.verified /\ stage.managed # {}
  BY <1>1 DEF StandsAt, StageOK, PromptsKept
<1> QED BY <1>2, <1>3, <1>4, <1>5, <1>6 DEF NeverReissued

LEMMA FailsKeep ==
  ASSUME stage \in Stages, NEW s, s.verified => stage.verified, s \in Stages, Fails(s)
  PROVE  stage'.verified => stage.verified
BY DEF Fails, Proceed, Stages

LEMMA FindsKeep ==
  ASSUME CheckoutsInv, PrepareA \/ SettleA \/ SettleB \/ SettleD
  PROVE  stage'.verified => stage.verified
<1>1. pc \in {"prepare", "settle A", "settle B", "settle D"}
  BY DEF PrepareA, SettleA, SettleB, SettleD, SettleAt
<1>2. stage \in Stages /\ Free(stage) /\ mode = "upgrade"
  BY <1>1, HereOK, FreeHere DEF OfUpgrade
<1>3. ASSUME NEW s \in Stages, s.verified => stage.verified, NEW e \in Ents
      PROVE  /\ Fails(s) => (stage'.verified => stage.verified)
             /\ \A to : \/ Proceed(to, s) \/ Proceed(to, Obliged(s)) \/ Proceed(to, [s EXCEPT !.downgraded = TRUE])
                       \/ Proceed(to, [Manage(s, {e}) EXCEPT !.a = e])
                       \/ Proceed(to, [Manage(s, {e}) EXCEPT !.b = e, !.upgraded = TRUE])
                       => (stage'.verified => stage.verified)
  <2>1. Fails(s) => (stage'.verified => stage.verified)
    BY <1>2, <1>3, FailsKeep
  <2>2. Manage(s, {e}) \in Stages /\ (Manage(s, {e}).verified => stage.verified)
    <3>1. Manage(s, {e}) = [s EXCEPT !.managed = s.managed \cup {e}, !.required = TRUE, !.verified = FALSE]
      BY DEF Manage
    <3>2. s.managed \cup {e} \in SUBSET Ents
      BY <1>3 DEF Stages
    <3> QED BY <1>3, <3>1, <3>2 DEF Stages
  <2>3. ASSUME NEW to, NEW t, Proceed(to, t), t.verified => stage.verified
        PROVE  stage'.verified => stage.verified
    BY <2>3 DEF Proceed
  <2>4. Obliged(s).verified = FALSE /\ [s EXCEPT !.downgraded = TRUE].verified = s.verified
    BY <1>3 DEF Obliged, Stages
  <2> DEFINE m == Manage(s, {e})
  <2>5. [m EXCEPT !.a = e].verified = m.verified /\ [m EXCEPT !.b = e, !.upgraded = TRUE].verified = m.verified
    <3> HIDE DEF m
    <3> QED BY <2>2 DEF Stages, m
  <2> QED BY <1>3, <2>1, <2>2, <2>3, <2>4, <2>5
<1>4. CASE Error
  BY <1>2, <1>4, FailsKeep DEF Error
<1>5. ASSUME PrepareA PROVE stage'.verified => stage.verified
  <2> DEFINE m == Manage(stage, Current)
             kept == [m EXCEPT !.a = IF Current = {} THEN @ ELSE CHOOSE e \in Current : TRUE]
  <2>1. Current \in SUBSET Ents
    BY CurrentOf
  <2>2. StageOK(m) /\ (m.verified => stage.verified)
    BY <1>2, <2>1, FreeManages, ManagesVerified DEF Free
  <2>3. kept \in Stages /\ (kept.verified => stage.verified)
    <3>1. m \in Stages
      BY <2>2 DEF StageOK
    <3>2. (IF Current = {} THEN m.a ELSE CHOOSE e \in Current : TRUE) \in Ents \cup {Unfound}
      BY <2>1, <3>1 DEF Stages
    <3> HIDE DEF m
    <3> QED BY <2>2, <3>1, <3>2 DEF Stages
  <2>4. \/ Error \/ Fails(kept)
        \/ \E e \in Ents : Proceed("upgrade", [Manage(kept, {e}) EXCEPT !.a = e])
        \/ Proceed("settle A", kept) \/ Proceed("ask A", Obliged(kept))
    BY <1>5 DEF PrepareA
  <2> HIDE DEF kept
  <2>5. "a0" \in Ents
    BY DEF Ents
  <2> QED BY <1>3, <1>4, <2>3, <2>4, <2>5
<1>6. ASSUME SettleA \/ SettleB \/ SettleD PROVE stage'.verified => stage.verified
  <2>1. \/ Error
        \/ \E reports \in SUBSET Skus : \E s \in {Manage(stage, Recover(Seen(reports)))} :
             \/ Fails(s) \/ \E to : Proceed(to, s)
             \/ \E e \in Ents : \/ Proceed("upgrade", [Manage(s, {e}) EXCEPT !.a = e])
                              \/ Proceed("cross tier", [Manage(s, {e}) EXCEPT !.b = e, !.upgraded = TRUE])
             \/ Proceed("finish", [s EXCEPT !.downgraded = TRUE])
    <3>1. CASE SettleA
      BY <3>1 DEF SettleA, SettleAt
    <3>2. CASE SettleB
      BY <3>2 DEF SettleB, SettleAt
    <3>3. CASE SettleD
      BY <3>3 DEF SettleD, SettleAt
    <3> QED BY <1>6, <3>1, <3>2, <3>3
  <2>2. ASSUME NEW reports \in SUBSET Skus, NEW s, s = Manage(stage, Recover(Seen(reports)))
        PROVE  s \in Stages /\ (s.verified => stage.verified)
    <3>1. Recover(Seen(reports)) \in SUBSET Ents
      BY RecoversOf
    <3> QED BY <1>2, <2>2, <3>1, FreeManages, ManagesVerified DEF Free, StageOK
  <2>3. "a0" \in Ents
    BY DEF Ents
  <2> QED BY <1>3, <1>4, <2>1, <2>2, <2>3
<1> QED BY <1>5, <1>6

\* No other step calls a cancellation verified.
LEMMA OthersKeep ==
  ASSUME CheckoutsInv, CheckoutsNext, ~VerifyCanceled, ~LiveVerify
  PROVE  stage'.verified => stage.verified
<1>0. stage \in Stages
  BY HereOK
<1>1. CASE Subscribes \/ Downgrades \/ LookedInto \/ Start
             \/ \E e \in Ents : Upgrades(e) \/ Cancels(e) \/ PeriodEnds(e) \/ IsListed(e)
  BY <1>1 DEF Subscribes, Downgrades, LookedInto, Start, Upgrades, Cancels, PeriodEnds, IsListed, Obeys
<1>2. CASE Error
  BY <1>0, <1>2, FailsKeep DEF Error
<1>3. CASE Killed \/ Baseline \/ Cancel \/ Classify \/ CaptureA \/ LivePrepare
  BY <1>0, <1>2, <1>3 DEF Killed, Baseline, Cancel, Classify, CaptureA, LivePrepare, Proceed, Finished, Obliged, Stages
<1>4. CASE SelectA \/ SelectB
  BY <1>0, <1>2, <1>4 DEF SelectA, SelectB, SelectNew, Proceed, Stages
<1>5. CASE AskA \/ AskB \/ AskD
  BY <1>0, <1>5 DEF AskA, AskB, AskD, Instruct, Told, Proceed, Stages
<1>6. CASE AnswerA \/ AnswerB \/ CommandA \/ CommandB \/ CommandD
  BY <1>0, <1>2, <1>6 DEF AnswerA, AnswerB, CommandA, CommandB, CommandD, Confirm, Interact, Proceed, Stages
<1>7. CASE Read \/ Interactions
  BY <1>0, <1>2, <1>7, ManagesVerified DEF Read, Interactions, Proceed, Stages
<1>8. CASE UpgradeToB \/ CrossTier \/ ScheduleDowngrade \/ Finish
  <2>1. CASE UpgradeToB
    BY <1>0, <2>1 DEF UpgradeToB, Proceed, Obliged, Stages
  <2>2. CASE CrossTier
    <3>1. \/ Error \/ stage' = stage \/ stage' = [stage EXCEPT !.probe = "attempted"]
          \/ stage' = [stage EXCEPT !.probe = "removed"]
      BY <2>2 DEF CrossTier, Proceed
    <3> QED BY <1>0, <1>2, <3>1 DEF Stages
  <2>3. CASE ScheduleDowngrade
    <3>1. Error \/ stage' = stage
      BY <2>3 DEF ScheduleDowngrade, Proceed
    <3> QED BY <1>2, <3>1
  <2>4. CASE Finish
    BY <1>0, <2>4 DEF Finish, Proceed, Stages
  <2> QED BY <1>8, <2>1, <2>2, <2>3, <2>4
<1>9. CASE SendCreate
  BY <1>0, <1>9 DEF SendCreate, Attempted, Stages
<1>10. CASE PrepareA \/ SettleA \/ SettleB \/ SettleD
  BY <1>0, <1>10, FindsKeep
<1> QED BY <1>1, <1>3, <1>4, <1>5, <1>6, <1>7, <1>8, <1>9, <1>10 DEF CheckoutsNext

\* However often the capture is killed, nothing is bought or granted twice, and
\* what was started and is not cancelled is owed and never called cancelled.
THEOREM EvidenceAlwaysTrue == CheckoutsSpec => EvidenceTrue
<1>1. CheckoutsInit => CheckoutsInv
  BY InitOK
<1>2. CheckoutsInv /\ [CheckoutsNext]_checkoutVars => CheckoutsInv'
  BY InvStep
<1>3. CheckoutsInv => NeverReissued
  BY InvNeverReissues
<1>4. CheckoutsInv /\ [CheckoutsNext]_checkoutVars => [VerifiesRightly]_checkoutVars
  <2> SUFFICES ASSUME CheckoutsInv, CheckoutsNext
               PROVE  VerifiesRightly
    OBVIOUS
  <2>1. CASE VerifyCanceled \/ LiveVerify
    BY <2>1, VerifyCanceledOK, LiveVerifyOK
  <2>2. CASE ~VerifyCanceled /\ ~LiveVerify
    BY <2>2, OthersKeep DEF VerifiesRightly
  <2> QED BY <2>1, <2>2
<1> QED BY <1>1, <1>2, <1>3, <1>4, PTL DEF CheckoutsSpec, EvidenceTrue
=============================================================================
