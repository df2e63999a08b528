------------------------------- MODULE Recorder -------------------------------
(***************************************************************************)
(* The recorders of monetization evidence (the capture and reference       *)
(* scripts): a program that makes and removes test grants of a real        *)
(* Discord application, may be killed at any point, and must neither lose  *)
(* a grant it made, nor repeat a write whose outcome it does not know, nor *)
(* touch an entitlement that is not its own.                               *)
(*                                                                         *)
(* The journal (manifest.json) is saved by every step that changes it and  *)
(* at no await do memory and disk differ, so one variable stands for both. *)
(* The rows of requests and rest are kept only for the writes the journal  *)
(* still holds: log is the last attempt of each, and its answer.           *)
(***************************************************************************)
EXTENDS Integers, FiniteSets, Sequences

-----------------------------------------------------------------------------
(* The jobs, as data: for each the sequence of its steps, in the order of  *)
(* its source.  Requests that only read, windows that only observe and the *)
(* interactions a person makes in between are one "look", however many     *)
(* follow each other: what matters of them is that they may fail, and that *)
(* a list that cannot be used ends a part of the job.                      *)

Exit == 99  \* a jump out of the job, which is then done

\* What a step does, the variable of the job it reads or binds, where the
\* job goes on when the answer is not the hoped one (relative), the handler
\* of its `finally' (relative, 0 for none), and the name of a case whose
\* completion is remembered.
Step(do, slot, no) == [do |-> do, slot |-> slot, no |-> no, fin |-> 0, case |-> "-"]

Look(no) == Step("look", "-", no)
Create(slot, no) == Step("create", slot, no)
Required == [Step("create", "first", 1) EXCEPT !.case = "required"]
Remove(slot, no) == Step("remove", slot, no)
RemoveAll == Step("removeAll", "-", 1)
Consume(slot) == Step("consume", slot, 1)
Absent(do) == Step(do, "nothing", 1)   \* a mutation of an id nobody has
Mark(case) == [Step("mark", "last", 1) EXCEPT !.case = case]
SkipIf(case, no) == [Step("skip", "last", no) EXCEPT !.case = case]
Verify(state) == Step("verify", state, 1)
Guarded(step, case) == [step EXCEPT !.case = case]
Finally(step, at) == [step EXCEPT !.fin = at]

\* negative(): a probe that should be refused is removed if it is not.
Probe == Create("last", 2)
Undo == Guarded(Remove("last", 1), "confirmed")

Rejections ==
  <<Probe, Undo,
    Look(3), Absent("consume"), Absent("delete"),
    Create("last", 4), Consume("last"), Look(1), Remove("last", 1),
    Look(Exit), Step("authorize", "-", Exit), Step("delete", "source", 1), Look(1)>>

Duplicates ==
  <<Create("first", Exit), Look(1),
    Create("last", 1), Create("last", 1), Look(1),
    RemoveAll, Look(1), Remove("first", 1),
    Create("last", 3), Create("-", 1), Remove("last", 1),
    Create("last", 2), Remove("last", 1),
    RemoveAll>>

CrossScope ==
  <<Look(Exit),
    Finally(Create("first", 1), 3), Finally(Create("last", 1), 2), Finally(Look(1), 1),
    Step("release", "first", 1), Step("release", "last", 1),
    Create("last", Exit), Look(1), Remove("last", 1)>>

Pagination ==
  <<Look(Exit), Create("last", Exit), Remove("last", 1), Look(Exit),
    Create("last", 3), Guarded(Remove("last", 2), "history"), Step("again", "-", -2),
    Look(1)>>

\* capture_guild: what an interrupted run left is removed first, and the
\* grant is written down before anything is done with it.
Guild ==
  <<Step("resume", "-", 1), Look(Exit), Create("last", Exit),
    Step("keep", "last", 1),
    Finally(Look(1), 3), Finally(Remove("last", 1), 2), Finally(Look(1), 1),
    Step("cleanup", "last", 1)>>

DuplicateAfterEnd ==
  <<SkipIf("after end", 3), Look(4), Guarded(Create("last", 1), "after end"),
    Finally(Look(1), 1), Step("cleanup", "last", 1)>>

\* A watch polls until it sees its transition, and is then not repeated. Of
\* what follows a natural end only the duplicate writes.
PollWatch == <<Look(7)>>
RecordTransition == DuplicateAfterEnd \o <<Mark("watched")>>
Watch == <<SkipIf("watched", 9), Look(8)>> \o PollWatch \o RecordTransition

ConsumeHistory ==
  <<Look(Exit), SkipIf("consume first", 2), Guarded(Consume("history"), "consume first"),
    Look(Exit), SkipIf("consume repeat", 2), Guarded(Consume("history"), "consume repeat"),
    Look(1)>>

Lifecycle == Watch \o ConsumeHistory

\* _deleted_purchase: one consumable is bought by hand; it is deleted and
\* then consumed twice, each after a fresh look at it.
DeletedPurchase ==
  <<SkipIf("bought", Exit), Look(1), Step("prompt", "-", 1), Step("select", "-", 1),
    SkipIf("delete", 3), Verify("live"), Guarded(Step("delete", "bought", 1), "delete"),
    Verify("removed"),
    SkipIf("consume", 3), Verify("removed"), Guarded(Consume("bought"), "consume"), Look(1),
    SkipIf("repeat", 3), Verify("removed"), Guarded(Consume("bought"), "repeat"), Look(1),
    Mark("bought")>>

\* The first recorder: a session of subscriptions and one of purchases.
OldSubscriptions ==
  <<Look(1), Required, Look(1), Create("last", 1), Create("last", 1), Look(1),
    Guarded(RemoveAll, "confirmed"), Look(1), Remove("first", 1), Look(1),
    Create("last", 1), Look(1)>>

OldPurchases ==
  <<Look(1), Step("prompt", "-", 1), Step("select", "-", 1), Look(1),
    Consume("bought"), Look(1), Consume("bought"), Look(1)>>

Plan(job) ==
  CASE job = "rejections" -> Rejections
    [] job = "duplicates" -> Duplicates
    [] job = "cross_scope" -> CrossScope
    [] job = "pagination" -> Pagination
    [] job = "guild" -> Guild
    [] job = "lifecycle" -> Lifecycle
    [] job = "checkouts" -> DeletedPurchase
    [] job = "subscriptions" -> OldSubscriptions
    [] job = "purchases" -> OldPurchases

JobNames == {"rejections", "duplicates", "cross_scope", "pagination", "guild",
             "lifecycle", "checkouts", "subscriptions", "purchases"}
OldJobs == {"subscriptions", "purchases"}

-----------------------------------------------------------------------------
(* The sessions.                                                           *)

CONSTANTS
  Grants,     \* ids of test grants
  Earlier,    \* of them, those an earlier session made and removed
  History,    \* an old entitlement of the owner, in earlier evidence
  Purchase,   \* the entitlement a person buys when told to
  None,
  Sessions,   \* the sequences of jobs that are started; the first recorder does one
  MaxFaults,  \* bound: crashes, lost answers, failed reads, refusals, odd creates
  MaxTries    \* attempts of a rate-limited request, six in the code

ASSUME RecorderAssumption ==
  /\ Grants \subseteq Nat /\ IsFiniteSet(Grants) /\ Earlier \subseteq Grants /\ History \notin Grants /\ Purchase \notin Grants
  /\ None \notin Grants \cup {History, Purchase} /\ History # Purchase
  /\ Sessions \subseteq Seq(JobNames)
  /\ \A s \in Sessions : s # <<>> /\ \A k \in DOMAIN s : s[k] \in OldJobs => Len(s) = 1
  /\ MaxFaults \in Nat /\ MaxTries \in Nat \ {0}

VARIABLES
  jobs,     \* the configuration of the session, kept in the journal
  journal,  \* manifest.json
  log,      \* path -> last row of requests.jsonl, with its row of rest.jsonl
  discord,  \* what Discord has, and what the person at it was told
  run,      \* the running process
  io,       \* its write in flight
  faults    \* faults so far

vars == <<jobs, journal, log, discord, run, io, faults>>

Ids == Grants \cup {History, Purchase}
Create_ == <<"create", None>>
Command == <<"command", None>>
Uncommand == <<"uncommand", None>>
Path == {Create_, Command, Uncommand} \cup ({"delete", "consume"} \X (Ids \cup {None}))
Old == jobs[1] \in OldJobs

NoIo == [path |-> None, case |-> None, at |-> "none", answer |-> "none", id |-> None, tries |-> 0]
Idle == [phase |-> "off", only |-> FALSE, resume |-> FALSE, job |-> 1, at |-> 1,
         first |-> None, last |-> None, raised |-> "no", tried |-> {}, errors |-> FALSE,
         told |-> FALSE]
Row(is, id) == [is |-> is, id |-> id]

\* prepare_journal of a new session.
Empty ==
  [held |-> {}, deleted |-> {}, command |-> "no", pending |-> {}, uncertain |-> {},
   baseline |-> {}, manual |-> {}, kept |-> None, authorized |-> {}, prompted |-> FALSE,
   done |-> {}, failed |-> {}, complete |-> <<>>, errors |-> FALSE, status |-> "new"]

Init ==
  /\ jobs \in Sessions /\ journal = Empty /\ log = [p \in Path |-> Row("none", None)]
  /\ discord = [live |-> {History}, removed |-> Earlier, command |-> FALSE, done |-> {},
                late |-> {}, told |-> 0]
  /\ run = Idle /\ io = NoIo /\ faults = 0

\* ---------------------------------------------------------------- journal
Owned(j) == j.held \cup j.deleted
Unresolved(j) == j.uncertain \cup j.pending   \* pending: one write at most
OpenPaths(j) == {i.path : i \in Unresolved(j)}
Cleaning(r) == r.phase \in {"recover", "close"}

\* begin_write: nothing is written while the outcome of a write is unknown,
\* but cleanup may write what is not itself unknown.
Refused(path) ==
  /\ Unresolved(journal) # {}
  /\ Cleaning(run) => path \in OpenPaths(journal)

\* The status the process holds, which the next save writes. A capture that
\* ended says how before it cleans up; "completed" stands for with blockers,
\* too. A lost write and a recovery have said so already.
Status ==
  IF run.phase \notin {"close", "end"} \/ journal.status \in {"uncertain_write", "recovered"}
  THEN journal.status
  ELSE IF run.raised = "no" THEN "completed"
  ELSE IF run.raised = "cancel" /\ ~Old THEN "interrupted" ELSE "incomplete"

\* Every save is of the whole journal.
Intent(path, case) == [path |-> path, case |-> case]
BeginWrite(path, case) ==
  [journal EXCEPT !.uncertain = Unresolved(journal), !.pending = {Intent(path, case)},
                  !.status = Status]

SettleableAnyId(j, path, answer, id) ==
  (path = Create_ /\ answer \in {"ok", "odd"}) => answer = "ok"
\* received_create infers ownership only of an id it can have made.
Settleable(j, path, answer, id) ==
  (path = Create_ /\ answer \in {"ok", "odd"})
    => answer = "ok" /\ id \notin j.baseline \cup j.manual \cup Owned(j)

Confirmed(path, answer) == answer = "ok" \/ (answer = "gone" /\ ~(Old /\ path = Uncommand))
OnceCases == {"after end", "consume first", "consume repeat", "delete", "consume", "repeat"}

Put(f, x, y) == [z \in DOMAIN f \cup {x} |-> IF z = x THEN y ELSE f[z]]
Settle(j, i, answer, id) ==
  LET what == i.path[1]  on == i.path[2]  ok == answer = "ok"
      gone == Confirmed(i.path, answer)
  IN  [j EXCEPT
        !.pending = @ \ {i}, !.uncertain = @ \ {i},
        !.held = IF what = "create" /\ ok THEN @ \cup {id}
                 ELSE IF what = "delete" /\ gone THEN @ \ {on} ELSE @,
        !.deleted = IF what = "delete" /\ gone /\ on \in j.held THEN @ \cup {on} ELSE @,
        !.command = IF what = "command" /\ ok THEN "held"
                    ELSE IF what = "uncommand" /\ gone THEN "deleted" ELSE @,
        !.failed = @ \ {i.case},
        !.complete = IF i.case[1] = "once"
                     THEN Put(@, i.case[2], IF ok THEN id ELSE None) ELSE @]

\* An answered write leaves the journal, and the log and Discord's account
\* of it with it.
Forget(path) ==
  /\ log' = [log EXCEPT ![path] = Row("none", None)]
  /\ discord' = [discord EXCEPT !.done = @ \ {path}]

\* ------------------------------------------------------------ the process
Script == Plan(jobs[run.job])
InJob == run.phase = "jobs" /\ run.at <= Len(Script)
Here == Script[run.at]
Case == IF Here.case \in OnceCases THEN <<"once", Here.case>> ELSE <<jobs[run.job], run.at>>
Slot(s) ==
  CASE s = "first" -> run.first [] s = "last" -> run.last [] s = "history" -> History
    [] s = "source" -> History [] s = "bought" -> Purchase [] OTHER -> None

Fault == faults < MaxFaults /\ faults' = faults + 1
NoFault == UNCHANGED faults
Kinds == {"runtime", "client", "cancel"}
Failing(case) == IF Old THEN journal ELSE [journal EXCEPT !.failed = @ \cup {case}]
Losing(case) == IF Old THEN journal ELSE [Failing(case) EXCEPT !.status = "uncertain_write"]

To(r, phase) == [r EXCEPT !.phase = phase, !.tried = {}, !.errors = FALSE]

\* A checkout that finds something it cannot accept is blocked.
Blocked(r, kind, j) ==
  InJob /\ jobs[r.job] = "checkouts" /\ kind = "runtime" /\ Unresolved(j) = {}

\* An exception leaves the job, through the handler of its `finally'; then
\* it ends the capture. A process without the application's identity has
\* nothing to clean up with.
Raise(r, kind, j) ==
  IF InJob /\ Here.fin # 0 THEN [r EXCEPT !.at = @ + Here.fin, !.raised = kind]
  ELSE IF Blocked(r, kind, j) THEN [r EXCEPT !.at = Exit]
  ELSE To([r EXCEPT !.raised = kind], IF r.phase \in {"app", "close"} THEN "end" ELSE "close")

Handler == {"release", "cleanup"}
\* On to the step k further; past its handlers an exception goes on.
Go(r, k) ==
  LET n == IF k = Exit THEN Exit ELSE r.at + k IN
  IF r.raised # "no" /\ ~(n <= Len(Script) /\ Script[n].do \in Handler)
  THEN To(r, "close") ELSE [r EXCEPT !.at = n, !.tried = {}]

\* ---------------------------------------------------------------- a write
Begin(path, case) ==
  /\ io.at = "none"
  /\ IF Refused(path)
     THEN /\ run' = IF Cleaning(run) THEN [run EXCEPT !.tried = @ \cup {path}, !.errors = TRUE]
                    ELSE Raise(run, "runtime", journal)
          /\ UNCHANGED <<journal, log, io>>
     ELSE /\ journal' = BeginWrite(path, case)
          /\ log' = [log EXCEPT ![path] = Row("none", None)]
          /\ io' = [NoIo EXCEPT !.path = path, !.case = case, !.at = "begun"]
          /\ UNCHANGED run
  /\ UNCHANGED <<jobs, discord>> /\ NoFault

Attempt ==
  /\ io.at = "begun"
  /\ log' = [log EXCEPT ![io.path] = Row("sent", None)]
  /\ io' = [io EXCEPT !.at = "sent", !.tries = @ + 1]
  /\ UNCHANGED <<jobs, journal, discord, run>> /\ NoFault

\* What Discord does with a write it accepts, and what it then answers. Ids
\* increase. A create may answer an id that exists, or without proof of what
\* it made.
Unused == Grants \ (discord.live \cup discord.removed)
Fresh == {g \in Unused : \A h \in Unused : g <= h}
Carried(path) ==
  LET what == path[1]  on == path[2]  d == [discord EXCEPT !.done = @ \cup {path}]
      Made == {[d EXCEPT !.live = @ \cup {g}] : g \in Fresh}
  IN  CASE what = "create" -> Made
        [] what = "command" -> {[d EXCEPT !.command = TRUE]}
        [] what = "uncommand" -> {[d EXCEPT !.command = FALSE]}
        [] what = "delete" /\ on \in discord.live ->
             {[d EXCEPT !.live = @ \ {on}, !.removed = @ \cup {on}]}
        [] OTHER -> {d}
Missing(path) ==
  \/ path = Uncommand /\ ~discord.command
  \/ path[1] = "delete" /\ path[2] \notin discord.live
  \/ path[1] = "consume" /\ path[2] = None

Answer(answer, id) == io' = [io EXCEPT !.at = "answered", !.answer = answer, !.id = id]
Serve ==
  /\ io.at = "sent"
  /\ \/ Answer("refused", None) /\ UNCHANGED discord /\ Fault
     \/ io.path = Create_ /\ Unused = {} /\ Answer("refused", None) /\ UNCHANGED discord /\ NoFault
     \/ Answer("limited", None) /\ UNCHANGED discord /\ Fault
     \/ Missing(io.path) /\ Answer("gone", None) /\ UNCHANGED discord /\ NoFault
     \/ ~Missing(io.path) /\ \E d \in Carried(io.path) :
          /\ discord' = d
          /\ IF io.path = Create_
             THEN \E id \in Fresh : \/ Answer("ok", id) /\ NoFault
                                    \/ Answer("odd", id) /\ Fault
             ELSE Answer("ok", None) /\ NoFault
     \/ /\ io.path = Create_ /\ \E id \in Grants \ Unused : Answer("ok", id)
        /\ discord' = [discord EXCEPT !.done = @ \cup {Create_}] /\ Fault
  /\ UNCHANGED <<jobs, journal, log, run>>

\* A request whose sender is gone may still arrive.
Late ==
  /\ \E p \in discord.late : \E d \in Carried(p) :
       discord' = [d EXCEPT !.late = @ \ {p}]
  /\ UNCHANGED <<jobs, journal, log, run, io>> /\ NoFault
Orphaned == [discord EXCEPT !.late = @ \cup IF io.at = "sent" THEN {io.path} ELSE {}]

\* The answer is on disk before it is used; a rate limit sends again.
Receive ==
  /\ io.at = "answered"
  /\ log' = [log EXCEPT ![io.path] = Row(io.answer, io.id)]
  /\ io' = IF io.answer = "limited" /\ io.tries < MaxTries
           THEN [io EXCEPT !.at = "begun"] ELSE [io EXCEPT !.at = "received"]
  /\ UNCHANGED <<jobs, journal, discord, run>> /\ NoFault

\* A write that failed stays in the journal. Cleanup goes on to the next
\* resource, unless it was interrupted.
Abandon(kind) ==
  /\ journal' = Losing(io.case) /\ io' = NoIo
  /\ run' = IF Cleaning(run) /\ kind # "cancel"
            THEN [run EXCEPT !.tried = @ \cup {io.path}, !.errors = TRUE]
            ELSE Raise(run, kind, journal)
  /\ UNCHANGED jobs

\* A lost connection, a timeout or an interrupt: before or after Discord
\* carried the write out, or in the pause before it is sent.
Lose ==
  /\ io.at \in {"begun", "sent", "answered"}
  /\ \E kind \in IF io.at = "begun" THEN {"cancel"} ELSE {"client", "cancel"} : Abandon(kind)
  /\ log' = IF io.at = "begun" THEN log ELSE [log EXCEPT ![io.path] = Row("lost", None)]
  /\ discord' = Orphaned /\ Fault

\* What the caller of a settled write does next.
Must(step, answer) == step.case \in {"required", "confirmed"} /\ answer # "ok"
Unmet(answer) == Here.do = "create" \/ (Here.case = "history" /\ answer # "ok")
Continue(r, answer, id) ==
  IF Cleaning(r)
  THEN [r EXCEPT !.tried = @ \cup {io.path},
                 !.errors = @ \/ ~Confirmed(io.path, answer) \/ (Old /\ answer # "ok")]
  ELSE IF r.phase = "connect"
  THEN IF answer = "ok" THEN To([r EXCEPT !.at = 1], "jobs") ELSE Raise(r, "runtime", journal')
  ELSE IF Must(Here, answer) THEN Raise(r, "runtime", journal')
  ELSE CASE Here.do = "removeAll" -> [r EXCEPT !.tried = @ \cup {io.path}]
         [] Here.do = "resume" -> r
         [] Here.do = "create" /\ answer = "ok" ->
              Go([r EXCEPT !.first = IF Here.slot = "first" THEN id ELSE @,
                           !.last = IF Here.slot = "last" THEN id ELSE @], 1)
         [] OTHER -> Go(r, IF Unmet(answer) THEN Here.no ELSE 1)

Received ==
  /\ io.at = "received"
  /\ IF io.answer = "limited" \/ ~Settleable(journal, io.path, io.answer, io.id)
     THEN Abandon("runtime") /\ UNCHANGED <<log, discord>>
     ELSE /\ journal' = Settle(journal, Intent(io.path, io.case), io.answer, io.id)
          /\ Forget(io.path) /\ io' = NoIo
          /\ run' = Continue(run, io.answer, io.id) /\ UNCHANGED jobs
  /\ NoFault

\* ---------------------------------------------------------------- the jobs
Quiet == UNCHANGED <<jobs, log, io>>
At(do) == io.at = "none" /\ InJob /\ ~run.told /\ Here.do = do
Move(k) == run' = Go(run, k) /\ UNCHANGED <<journal, discord>> /\ NoFault /\ Quiet

\* Reading, observing or waiting for a person, which may fail or go wrong
\* without an exception (a gap in the gateway's events), or find nothing
\* the job can go on with.
Reading == At("look") \/ At("select") \/ At("verify")
Fail ==
  /\ Reading
  /\ \/ \E kind \in Kinds : run' = Raise(run, kind, journal)
     \/ ~Old /\ run' = Go(run, 1) /\ Here.do = "look"
  /\ journal' = Failing(Case) /\ UNCHANGED discord /\ Fault /\ Quiet
Look_ ==
  /\ At("look")
  /\ \E k \in {1, Here.no} : run' = Go(run, k)
  /\ journal' = [journal EXCEPT !.failed = @ \ {Case}] /\ UNCHANGED discord /\ NoFault /\ Quiet

\* Tells the person to buy, once: the flag is on disk before the words.
Prompt ==
  /\ At("prompt")
  /\ IF Old \/ ~journal.prompted
     THEN run' = [run EXCEPT !.told = TRUE] /\ journal' = [journal EXCEPT !.prompted = ~Old]
     ELSE run' = Go(run, 1) /\ UNCHANGED journal
  /\ UNCHANGED discord /\ NoFault /\ Quiet
Tell ==
  /\ io.at = "none" /\ run.told
  /\ discord' = [discord EXCEPT !.told = @ + 1]
  /\ run' = Go([run EXCEPT !.told = FALSE], 1)
  /\ UNCHANGED journal /\ NoFault /\ Quiet
Buy ==
  /\ discord.told > 0 /\ Purchase \notin discord.live \cup discord.removed
  /\ discord' = [discord EXCEPT !.live = @ \cup {Purchase}]
  /\ UNCHANGED <<journal, run>> /\ NoFault /\ Quiet

\* The one entitlement that is new since the baseline is the person's.
NewSince(baseline) == (discord.live \cup discord.removed) \ baseline
Select ==
  /\ At("select")
  /\ IF \/ Purchase \in journal.manual
        \/ NewSince(journal.baseline \cup Owned(journal)) = {Purchase} /\ Purchase \in discord.live
     THEN run' = Go(run, 1) /\ journal' = [journal EXCEPT !.manual = @ \cup {Purchase}]
     ELSE run' = Raise(run, "runtime", journal) /\ UNCHANGED journal
  /\ UNCHANGED discord /\ NoFault /\ Quiet
Verify_ ==
  /\ At("verify")
  /\ run' = IF Purchase \in (IF Here.slot = "live" THEN discord.live ELSE discord.removed)
            THEN Go(run, 1) ELSE Raise(run, "runtime", journal)
  /\ journal' = [journal EXCEPT !.failed = @ \ {Case}] /\ UNCHANGED discord /\ NoFault /\ Quiet

\* What is remembered of earlier runs of the job.
Complete(case) == case \in DOMAIN journal.complete
Skip ==
  /\ At("skip")
  /\ run' = IF Complete(Here.case)
            THEN Go([run EXCEPT !.last = IF Here.case = "after end" THEN journal.complete[Here.case]
                                          ELSE @], Here.no)
            ELSE Go(run, 1)
  /\ UNCHANGED <<journal, discord>> /\ NoFault /\ Quiet
\* A watch in which something failed is not complete.
Mark_ ==
  /\ At("mark") /\ run' = Go(run, 1)
  /\ journal' = IF Here.case = "watched" /\ journal.failed # {} THEN journal
                ELSE [journal EXCEPT !.complete = Put(@, Here.case, None)]
  /\ UNCHANGED discord /\ NoFault /\ Quiet
Authorize ==
  /\ At("authorize") /\ run' = Go(run, 1)
  /\ journal' = [journal EXCEPT !.authorized = @ \cup {History}]
  /\ UNCHANGED discord /\ NoFault /\ Quiet
Keep ==
  /\ \/ At("keep") /\ journal' = [journal EXCEPT !.kept = run.last]
     \/ At("resume") /\ journal.kept \notin journal.held
        /\ journal' = [journal EXCEPT !.kept = None]
  /\ run' = Go(run, 1) /\ UNCHANGED discord /\ NoFault /\ Quiet
Again == At("again") /\ Move(Here.no)

\* require_entitlement_ownership.
Removable(e) == e \in Owned(journal) /\ e \notin journal.baseline \cup journal.manual
Remains == {e \in journal.held : <<"delete", e>> \notin run.tried}
CreateStep == At("create") /\ Begin(Create_, Case)
RemoveStep ==
  /\ At("remove")
  /\ IF Removable(Slot(Here.slot)) THEN Begin(<<"delete", Slot(Here.slot)>>, Case)
     ELSE /\ run' = Raise(run, "runtime", journal)
          /\ UNCHANGED <<journal, discord>> /\ NoFault /\ Quiet
RemoveAllStep ==
  /\ At("removeAll")
  /\ \/ \E e \in Remains : Begin(<<"delete", e>>, <<"each", e>>)
     \/ Remains = {} /\ Move(1)
DirectStep ==
  \E do \in {"consume", "delete"} : At(do) /\ Begin(<<do, Slot(Here.slot)>>, Case)
\* In a handler, the grant goes if the journal still holds it; _cleanup
\* leaves it when a write is unresolved.
HandlerStep ==
  /\ \E do \in Handler \cup {"resume"} : At(do)
  /\ LET e == IF Here.do = "resume" THEN journal.kept ELSE Slot(Here.slot)
         goes == e \in journal.held /\ ~(Here.do # "release" /\ journal.pending # {})
     IN  IF goes THEN Begin(<<"delete", e>>, Case) ELSE Here.do \in Handler /\ Move(1)

\* ----------------------------------------------------------------- the run
Phase(p) == io.at = "none" /\ run.phase = p
\* A request of a phase that only reads fails.
Break ==
  /\ \E p \in {"app", "prepare", "connect"} : Phase(p)
  /\ \E kind \in Kinds : run' = Raise(run, kind, journal)
  /\ UNCHANGED <<journal, discord>> /\ Fault /\ Quiet

Launch ==
  /\ run.phase \in {"off", "over"}
  /\ \E resume, only \in BOOLEAN :
       /\ resume = (journal.status # "new") /\ (only => resume)
       /\ resume => ~Old
       /\ run' = [Idle EXCEPT !.phase = "app", !.resume = resume, !.only = only]
  /\ journal' = [journal EXCEPT !.status = IF Old THEN "incomplete" ELSE "running"]
  /\ UNCHANGED discord /\ NoFault /\ Quiet

\* authenticate_application, and the first step of reconcile.
Authenticate ==
  /\ Phase("app")
  /\ run' = To(run, IF Old THEN "prepare" ELSE "reconcile")
  /\ journal' = IF Old THEN journal
                ELSE [journal EXCEPT !.uncertain = Unresolved(journal), !.pending = {}]
  /\ UNCHANGED discord /\ NoFault /\ Quiet

\* Only the last attempt of a write counts: without one it was not sent, and
\* without its answer it stays unknown.
OutcomeOfReceipt(row) ==
  IF row.is \in {"none", "sent", "lost"} THEN "unsent" ELSE "answered"
Outcome(row) ==
  CASE row.is = "none" -> "unsent" [] row.is \in {"sent", "lost"} -> "unknown"
    [] OTHER -> "answered"

\* One intent a step; the code takes the oldest first.
Reconcile ==
  /\ Phase("reconcile")
  /\ \E i \in journal.uncertain :
       LET row == log[i.path] IN
       /\ i.path \notin run.tried
       /\ CASE Outcome(row) = "unsent" ->
                 /\ journal' = [journal EXCEPT !.uncertain = @ \ {i}, !.failed = @ \ {i.case}]
                 /\ Forget(i.path) /\ run' = [run EXCEPT !.tried = @ \cup {i.path}]
            [] Outcome(row) = "unknown" ->
                 /\ run' = [run EXCEPT !.tried = @ \cup {i.path}]
                 /\ UNCHANGED <<journal, log, discord>>
            [] OTHER ->
                 IF Settleable(journal, i.path, row.is, row.id)
                 THEN /\ journal' = Settle(journal, i, row.is, row.id)
                      /\ Forget(i.path) /\ run' = [run EXCEPT !.tried = @ \cup {i.path}]
                 ELSE run' = Raise(run, "runtime", journal) /\ UNCHANGED <<journal, log, discord>>
  /\ UNCHANGED <<jobs, io>> /\ NoFault
Reconciled ==
  /\ Phase("reconcile") /\ OpenPaths(journal) \subseteq run.tried
  /\ run' = IF journal.uncertain # {} /\ ~run.only THEN Raise(run, "runtime", journal)
            ELSE To(run, IF run.resume THEN "recover" ELSE "prepare")
  /\ UNCHANGED <<journal, discord>> /\ NoFault /\ Quiet

\* cleanup: every grant the journal holds, then the command.
CleanUp ==
  /\ io.at = "none" /\ Cleaning(run)
  /\ \/ \E e \in Remains :
          IF Removable(e) THEN Begin(<<"delete", e>>, <<"cleanup", e>>)
          ELSE /\ run' = [run EXCEPT !.tried = @ \cup {<<"delete", e>>}, !.errors = TRUE]
               /\ UNCHANGED <<journal, discord>> /\ NoFault /\ Quiet
     \/ Remains = {} /\ journal.command = "held" /\ Uncommand \notin run.tried
        /\ Begin(Uncommand, <<"cleanup", None>>)
CleanedUp ==
  /\ io.at = "none" /\ Cleaning(run) /\ Remains = {}
  /\ journal.command = "held" => Uncommand \in run.tried
  /\ journal' = [journal EXCEPT !.errors = run.errors, !.status =
                    IF Old THEN @
                    ELSE IF run.phase = "recover" /\ run.only /\ ~run.errors THEN "recovered"
                    ELSE Status]
  /\ run' = IF run.phase = "close" THEN To(run, "end")
            ELSE IF run.errors THEN Raise(run, "runtime", journal)
            ELSE To(run, IF run.only THEN "close" ELSE "prepare")
  /\ UNCHANGED discord /\ NoFault /\ Quiet

\* prepare_capture: what is listed and not the session's own is no grant of
\* the session, whatever a create may answer.
Prepare ==
  /\ Phase("prepare")
  /\ journal' = [journal EXCEPT
       !.baseline = @ \cup ((discord.live \cup discord.removed) \ Owned(journal))]
  /\ run' = To(run, "connect") /\ UNCHANGED discord /\ NoFault /\ Quiet
Connect ==
  /\ Phase("connect")
  /\ IF discord.command
     THEN run' = Raise(run, "runtime", journal) /\ UNCHANGED <<journal, discord>> /\ NoFault /\ Quiet
     ELSE Begin(Command, <<"setup", None>>)

\* A section that is done is left alone, except a checkout that did not
\* reach its end and a session that only watches.
Section(j) ==
  /\ jobs[j] \in journal.done
  /\ ~(jobs[j] = "checkouts" /\ ~Complete("bought")) /\ jobs # <<"lifecycle">>
NextJob(r) == [r EXCEPT !.job = @ + 1, !.at = 1, !.first = None, !.last = None, !.tried = {}]
JobStep ==
  /\ Phase("jobs") /\ ~run.told
  /\ \/ /\ run.at = 1 /\ Section(run.job) /\ UNCHANGED journal
        /\ run' = IF run.job = Len(jobs) THEN To(run, "close") ELSE NextJob(run)
     \/ /\ run.at > Len(Script)
        /\ IF journal.failed # {}
           THEN run' = Raise(run, "runtime", journal) /\ UNCHANGED journal
           ELSE /\ journal' = [journal EXCEPT !.done = @ \cup {jobs[run.job]}]
                /\ run' = IF run.job = Len(jobs) THEN To(run, "close") ELSE NextJob(run)
  /\ UNCHANGED discord /\ NoFault /\ Quiet

\* finalize_capture names the worst of what is left.
Verdict ==
  IF Unresolved(journal) # {} THEN "uncertain_write"
  ELSE IF journal.errors THEN "cleanup_required" ELSE Status
End ==
  /\ Phase("end")
  /\ journal' = [journal EXCEPT !.status = Verdict] /\ run' = [Idle EXCEPT !.phase = "over"]
  /\ UNCHANGED discord /\ NoFault /\ Quiet

Crash ==
  /\ run.phase \notin {"off", "over"} /\ run' = Idle /\ io' = NoIo /\ discord' = Orphaned
  /\ UNCHANGED <<jobs, journal, log>> /\ Fault

Work == Attempt \/ Serve \/ Receive \/ Received \/ Look_ \/ Prompt \/ Tell \/ Select \/ Verify_
        \/ Skip \/ Mark_ \/ Authorize \/ Keep \/ Again \/ CreateStep \/ RemoveStep
        \/ RemoveAllStep \/ DirectStep \/ HandlerStep \/ Authenticate \/ Reconcile \/ Reconciled
        \/ CleanUp \/ CleanedUp \/ Prepare \/ Connect \/ JobStep \/ End
Next == Work \/ Launch \/ Buy \/ Late \/ Lose \/ Fail \/ Break \/ Crash
Spec == Init /\ [][Next]_vars

\* ------------------------------------------------------------ properties
\* Every grant and the command that Discord made for the session is in the
\* journal, or the write that made it is: a crash or a lost answer loses
\* none. What is not the session's own is touched only as recorded.
Accounted ==
  /\ discord.live \cap Grants \subseteq
       journal.held \cup IF Create_ \in OpenPaths(journal) THEN Grants ELSE {}
  /\ discord.removed \cap Grants \subseteq Owned(journal) \cup Earlier
  /\ discord.command =>
       journal.command = "held" \/ {Command, Uncommand} \cap OpenPaths(journal) # {}
  /\ Owned(journal) \cap (journal.baseline \cup journal.manual \cup Earlier) = {}
  /\ History \in discord.removed => History \in journal.authorized
  /\ Purchase \in discord.removed => Purchase \in journal.manual /\ journal.prompted

\* However often the program is killed and resumed, a person is told to buy
\* at most once.
ToldOnce == discord.told <= 1

\* A journal that says the capture is complete may be of a process that was
\* killed while it cleaned up; but every job reached its end, and what Discord
\* still has is in the journal's own lists, for a recovery to remove. Once the
\* process has ended by itself, a capture or a recovery that says it is
\* complete left nothing behind: no unknown write, no grant and no command.
Ran == \A k \in DOMAIN jobs : jobs[k] \in journal.done
Listed == discord.live \cap Grants \subseteq journal.held
          /\ (discord.command => journal.command = "held")
Remnant == \/ Unresolved(journal) # {} \/ discord.late # {}
           \/ discord.live \cap Grants # {} \/ discord.command
HonestEnd ==
  /\ journal.status = "completed" => Ran /\ Listed
  /\ run.phase = "over" /\ journal.status \in {"completed", "recovered"} => ~Remnant

SessionAccounted == Accounted /\ ToldOnce /\ HonestEnd

\* Writes are carried out under an intent on disk, once, and forgotten only
\* when answered.
Open == OpenPaths(journal)
Carrying == discord.done
Known == {p \in Open : log[p].is \notin {"none", "sent", "lost"}}
Promise == INSTANCE Writes WITH open <- Open, done <- Carrying, known <- Known
ImplementsWrites == Promise!Spec
=============================================================================
