-------------------------------- MODULE Pages --------------------------------
(***************************************************************************)
(* preview/__init__.py, _pages.py, _actions.py, _action_plans.py and the   *)
(* screenshot of _capture.py: one preview session of an Env, from entry to *)
(* teardown. Browser tabs open pages and post actions, the test shows,     *)
(* refreshes and photographs, the bot changes the world whenever a task    *)
(* awaits, and anyone may close.                                           *)
(*                                                                         *)
(* A page is its viewer, its last published status, the numbers it has     *)
(* spent, its latest action, its dialog, and the viewers its receipts are  *)
(* about; a projection is drawn anew by every publication and is left out. *)
(***************************************************************************)
EXTENDS Integers, FiniteSets

CONSTANTS
  Tabs,         \* contexts the browsers may open, each once
  Viewers,      \* the allowlist
  First,        \* viewers[0]
  MaxPages,     \* _MAX_PAGES
  MaxSequence,  \* bound on the actions of a page
  MaxCaptures,  \* bound on the screenshots
  Dialogs       \* modals the bot may answer with

Python == "python"
Nobody == "nobody"
None   == "none"
Contexts == Tabs \cup {Python}

\* A viewer, a dialog and a tab are told from the marks that stand for none.
ASSUME PagesAssumption ==
  /\ First \in Viewers
  /\ {MaxPages, MaxSequence, MaxCaptures} \subseteq Nat
  /\ {None, Nobody} \cap (Viewers \cup Dialogs \cup Contexts) = {} /\ Python \notin Tabs

VARIABLES
  phase,      \* new, starting, active, closing, closed
  entering,   \* __aenter__ awaits the server
  asked,      \* _close_task: an action asked for the end
  teardown,   \* the step of _cleanup
  access,     \* viewers that may read the channel and its history
  registry,   \* _pages, without the page of a screenshot
  page,       \* the pages, those still referenced after they left _pages too
  aged,       \* pages whose lease ran out
  active,     \* _action_page, and _active_action with it
  cancelling, \* the server has cancelled its handler
  closes,     \* _pending_page_closes
  holder,     \* what holds the operation guard of the Env
  opener,     \* per dialog: who it was shown to
  used,       \* dialogs with modal_consumed
  shot,       \* the screenshot under way, its viewer, and what is left of what it shows
  shots,      \* how many there were
  image       \* the file of the last one: what it shows

sessionVars == <<phase, entering, asked, teardown>>
pageVars    == <<registry, page, aged>>
actionVars  == <<active, cancelling, closes>>
dialogVars  == <<opener, used>>
shotVars    == <<shot, shots, image>>
vars == <<sessionVars, access, pageVars, actionVars, holder, dialogVars, shotVars>>

------------------------------------------------------------------------------
\* Actions and pages

Instant  == {"configure", "browse", "viewer", "focus", "close"}
Awaiting == {"refresh", "send", "message", "control", "modal", "command", "autocomplete"}
Errors   == {"failed", "cancelled"}     \* a timeout is a failure here

\* kind: of an action that runs; end: how the last one ended
\* sent: its receipt says dispatched; did: it has reached the backend
NoAction == [kind |-> None, end |-> None, sent |-> FALSE, did |-> FALSE]
Running(a) == a.kind # None
Uncertain(a) == a.end \in Errors /\ a.sent

NewPage(v, d) == [viewer |-> v, status |-> "current", last |-> 0, latest |-> NoAction,
                  modal |-> d, by |-> {}]
\* a page that left _pages: its object may outlive it, the account of its actions does
\* here. Python's is an attribute of the session, and has no receipts to redact.
Gone(g) == [NewPage(Nobody, None) EXCEPT !.last = g.last, !.latest = g.latest]
\* shown: all that the pinned snapshot names is there, and the bot is the same
\* source: what only the page knows of it, the messages and assets it refers to
NoShot == [stage |-> None, viewer |-> None, shown |-> FALSE, source |-> "forgotten"]
Pinned == shot.stage \in {"render", "ready", "raster"}

CanRead(v) == v \in access
Allowed(g) == g.status = "current" /\ CanRead(g.viewer)

\* _redact_page_receipts and what goes with it on a page that must not tell
Redacted(g) == [g EXCEPT !.modal = None, !.by = {}]
Denied(g)   == [Redacted(g) EXCEPT !.status = "access_denied"]

\* _publish; a dialog that was submitted goes
Published(g) ==
  IF ~CanRead(g.viewer) THEN Denied(g)
  ELSE [g EXCEPT !.status = "current", !.modal = IF @ \in used' THEN None ELSE @]

KeptIdle(keep) == (registry \ aged) \cup (registry \cap ({Python} \cup keep))
\* _prune_expired: the page of the action, Python's, and the one published stay
Kept(keep) == (registry \ aged) \cup (registry \cap ({active, Python} \cup keep))

\* after a step that leaves the pages open, rewrites some, and was a request of others
Settled(open, f, seen) ==
  /\ registry' = open
  /\ aged' = (aged \cap open) \ seen
  /\ page' = [p \in Contexts |->
               IF p \in registry \ (open \cup {Python}) THEN Gone(f[p]) ELSE f[p]]
Pages(open, f) == Settled(open, f, {})

\* every open page, as _publish_message_pages and the passes of Python's verbs do
PublishEach(f) ==
  Pages(Kept({}), [p \in Contexts |-> IF p \in Kept({}) THEN Published(f[p]) ELSE f[p]])
Publish(p, g) == Settled(Kept({p}), [page EXCEPT ![p] = Published(g)], {p})

\* The page of a screenshot is published with every other, and then knows only of
\* what it could show again; the snapshot pinned to it stays.
Republished ==
  IF Pinned /\ (shot.source = "lost" \/ ~CanRead(shot.viewer))
  THEN [shot EXCEPT !.source = "forgotten"] ELSE shot

------------------------------------------------------------------------------
\* The session

Enter ==
  /\ phase = "new"
  /\ phase' = "starting" /\ entering' = TRUE
  /\ UNCHANGED <<asked, teardown, access, pageVars, actionVars, holder, dialogVars, shotVars>>

\* __aenter__ after _server.start()
Started ==
  /\ phase = "starting"
  /\ phase' = "active" /\ entering' = FALSE
  /\ UNCHANGED <<asked, teardown, access, actionVars, holder, dialogVars, shotVars>>
  /\ registry' = {Python} /\ UNCHANGED aged
  /\ page' = [page EXCEPT ![Python] = Published(NewPage(First, None))]

\* the server could not start, or close came first
EntryFails ==
  /\ entering
  /\ entering' = FALSE
  /\ phase' = IF phase = "starting" THEN "closed" ELSE phase
  /\ UNCHANGED <<asked, teardown, access, pageVars, actionVars, holder, dialogVars, shotVars>>

\* close: by the test, by the shutdown of the Env, or by the action of that name
BeginClose ==
  /\ phase \in {"starting", "active"}
  /\ phase' = "closing" /\ teardown' = "capture"
  /\ UNCHANGED <<entering, asked, access, pageVars, actionVars, holder, dialogVars, shotVars>>

\* _cleanup has cancelled a screenshot and awaited its end
CaptureEnded ==
  /\ teardown = "capture" /\ shot.stage = None
  /\ teardown' = "server"
  /\ UNCHANGED <<phase, entering, asked, access, pageVars, actionVars, holder, dialogVars, shotVars>>

\* the server waits for its handler, and cancels it when its patience ends
ServerClosed ==
  /\ teardown = "server"
  /\ teardown' = "pages"
  /\ cancelling' = (active # Nobody)
  /\ UNCHANGED <<phase, entering, asked, access, pageVars, active, closes, holder, dialogVars, shotVars>>

Cleared ==
  /\ teardown = "pages"
  /\ teardown' = None /\ phase' = "closed"
  /\ Pages({}, page) /\ closes' = {}
  /\ UNCHANGED <<entering, asked, access, active, cancelling, holder, dialogVars, shotVars>>

------------------------------------------------------------------------------
\* Pages come and go

\* _open_page; the page of a screenshot takes a place too
OpenPage(p, v) ==
  /\ phase = "active"
  /\ page[p].viewer = None
  /\ UNCHANGED <<sessionVars, access, actionVars, holder, dialogVars, shotVars>>
  /\ LET open == Kept({})
         pinned == IF Pinned THEN 1 ELSE 0
         modal == page[Python].modal
     IN IF Cardinality(open) + pinned >= MaxPages + 1 THEN Pages(open, page)
        ELSE Pages(open \cup {p},
                   [page EXCEPT ![p] = Published(NewPage(v,
                      IF modal # None /\ opener[modal] = v THEN modal ELSE None))])

\* _close_page; an id that is not there is remembered when no action runs
ClosePage(p) ==
  /\ phase \in {"active", "closing"} /\ teardown # "pages"
  /\ p # Python /\ page[p].viewer # None
  /\ LET open == Kept({}) IN
       IF p = active \/ (p \notin open /\ active = Nobody)
       THEN closes' = closes \cup {p} /\ Pages(open, page)
       ELSE closes' = closes /\ Pages(open \ {p}, page)
  /\ UNCHANGED <<sessionVars, access, active, cancelling, holder, dialogVars, shotVars>>

\* _get_page and _page_payload: a read keeps the page, and clears one that must not tell
ReadState(p) ==
  /\ phase = "active" /\ p \in Kept({})
  /\ Settled(Kept({}), IF CanRead(page[p].viewer) \/ page[p].status = "access_denied" THEN page
                       ELSE [page EXCEPT ![p] = Denied(@)], {p})
  /\ UNCHANGED <<sessionVars, access, actionVars, holder, dialogVars, shotVars>>

\* ten minutes without a request
Age(p) ==
  /\ p \in registry \ {Python}
  /\ aged' = aged \cup {p}
  /\ UNCHANGED <<sessionVars, access, registry, page, actionVars, holder, dialogVars, shotVars>>

------------------------------------------------------------------------------
\* Actions

\* what is checked before a number is spent, by the plan an action asks for
MayNavigate(g, kind) ==
  \/ kind \in {"configure", "viewer", "close", "refresh"}
  \/ kind = "focus" /\ CanRead(g.viewer)
  \/ kind = "browse" /\ Allowed(g)
MaySend(g)    == Allowed(g)
MayTouch(g)   == Allowed(g)
MayOperate(g) == Allowed(g)
MayCommand(g) == Allowed(g)
MaySubmit(g)  == Allowed(g) /\ g.modal # None /\ g.modal \notin used

Valid(g, kind) ==
  \/ MayNavigate(g, kind)
  \/ kind = "send" /\ MaySend(g)
  \/ kind = "message" /\ MayTouch(g)
  \/ kind = "control" /\ MayOperate(g)
  \/ kind = "modal" /\ MaySubmit(g)
  \/ kind \in {"command", "autocomplete"} /\ MayCommand(g)

AdmissibleAgain(p, seq, kind) ==
  /\ phase = "active" /\ p \in Kept({})
  /\ seq \in {page[p].last, page[p].last + 1}
  /\ active = Nobody
  /\ holder = Nobody
  /\ Valid(page[p], kind)

\* _action as far as the admission: one action in the session, in the order of the page
Admissible(p, seq, kind) ==
  /\ phase = "active" /\ p \in Kept({})
  /\ seq = page[p].last + 1
  /\ active = Nobody
  /\ holder = Nobody
  /\ Valid(page[p], kind)

\* _finish_action: the receipt is there, and about the viewer
Receipt(g, seq, end, sent, did) ==
  [g EXCEPT !.last = seq, !.by = @ \cup {g.viewer},
            !.latest = [kind |-> None, end |-> end, sent |-> sent, did |-> did]]

\* plans that await nothing run in one piece
ActAtOnce(p, seq, kind) ==
  /\ Admissible(p, seq, kind)
  /\ asked' = (asked \/ kind = "close")
  /\ UNCHANGED <<phase, entering, teardown, access, actionVars, holder, dialogVars, shotVars>>
  /\ LET g == page[p]
         done(h) == Receipt(h, seq, "settled", FALSE, FALSE)
     IN CASE kind = "close" -> Settled(Kept({p}), [page EXCEPT ![p] = done(g)], {p})
          [] kind = "focus" -> Publish(p, done([g EXCEPT !.modal = None]))
          [] kind = "viewer" ->
               \E v \in Viewers : Publish(p, done([Redacted(g) EXCEPT !.viewer = v]))
          [] OTHER -> Publish(p, done(g))

\* _on_dispatch for interactions, _mark_mutation for the rest
Marked(kind) == kind # "refresh"

\* the others reach the backend, say so, and await its settlement: from the admission
\* to the mark no plan awaits anything
BeginAction(p, seq, kind) ==
  /\ Admissible(p, seq, kind)
  /\ active' = p /\ holder' = "action"
  /\ used' = IF kind = "modal" THEN used \cup {page[p].modal} ELSE used
  /\ LET a == [kind |-> kind, end |-> None, sent |-> Marked(kind), did |-> kind # "refresh"] IN
       Settled(Kept({p}), [page EXCEPT ![p].last = seq, ![p].latest = a], {p})
  /\ UNCHANGED <<sessionVars, access, cancelling, closes, opener, shotVars>>

\* or fail before they reach it
RefusedAction(p, seq, kind) ==
  /\ kind \in Awaiting \ {"refresh"}
  /\ Admissible(p, seq, kind)
  /\ Settled(Kept({p}), [page EXCEPT ![p] = [Receipt(@, seq, "failed", FALSE, FALSE) EXCEPT !.status = "stale"]], {p})
  /\ UNCHANGED <<sessionVars, access, actionVars, holder, dialogVars, shotVars>>

\* the end of _action: the guard is free, and a page whose close waited goes
Released(p) ==
  /\ active' = Nobody /\ holder' = Nobody /\ cancelling' = FALSE
  /\ closes' = closes \ {p}
Left(p, open) == IF p \in closes THEN open \ {p} ELSE open

Ended(p, end) ==
  LET a == page[p].latest IN Receipt(page[p], page[p].last, end, a.sent, a.did)

\* _run_interaction_action: the answer of the bot may be a dialog for the viewer
Answered(p, g, d) ==
  /\ d # None => page[p].latest.kind \in {"control", "command"} /\ opener[d] = None
  /\ opener' = IF d = None THEN opener ELSE [opener EXCEPT ![d] = g.viewer]
  /\ used' = used

\* what is published at the end: nothing, the page, or every page its messages are on
Everywhere == {"send", "message", "command"}
Concerned(p, kind) ==
  CASE kind = "autocomplete" -> {}
    [] kind \in {"send", "message"} -> Kept({})
    [] kind = "command" -> Kept({}) \cup {p}
    [] OTHER -> {p}

\* settlement came; errors the bot raised meanwhile make a failure of it
ActionSettles(p) ==
  /\ active = p /\ ~cancelling
  /\ Released(p)
  /\ \E end \in {"settled", "failed"}, d \in Dialogs \cup {None} :
       LET kind == page[p].latest.kind
           g == Ended(p, end)
           f == [page EXCEPT ![p] = IF kind = "modal" \/ d # None THEN [g EXCEPT !.modal = d] ELSE g]
       IN /\ Answered(p, g, d)
          /\ Pages(Left(p, Kept({p})),
                   [q \in Contexts |-> IF q \in Concerned(p, kind) THEN Published(f[q]) ELSE f[q]])
          /\ shot' = IF kind \in Everywhere THEN Republished ELSE shot
  /\ UNCHANGED <<sessionVars, access, shots, image>>

ActionFailsUncancelled(p) ==
  /\ active = p /\ ~cancelling
  /\ Released(p)
  /\ Pages(Left(p, registry), [page EXCEPT ![p] = [Ended(p, "failed") EXCEPT !.status = "stale"]])
  /\ UNCHANGED <<sessionVars, access, dialogVars, shotVars>>

\* it did not: the page is stale until it is published again
ActionFails(p) ==
  /\ active = p
  /\ Released(p)
  /\ \E end \in IF cancelling THEN {"cancelled"} ELSE {"failed"} :
       Pages(Left(p, registry), [page EXCEPT ![p] = [Ended(p, end) EXCEPT !.status = "stale"]])
  /\ UNCHANGED <<sessionVars, access, dialogVars, shotVars>>

------------------------------------------------------------------------------
\* The test's own verbs, each under the operation guard

Show ==
  /\ phase = "active" /\ holder = Nobody
  /\ UNCHANGED <<sessionVars, access, actionVars, holder, dialogVars, shotVars>>
  /\ \E d \in {None} \cup {x \in Dialogs : opener[x] = First} :
       Publish(Python, [page[Python] EXCEPT !.modal = d])

\* refresh and snapshot up to the settlement they await
BeginVerb(verb) ==
  /\ verb \in {"refresh", "snapshot"}
  /\ phase = "active" /\ holder = Nobody
  /\ holder' = verb
  /\ UNCHANGED <<sessionVars, access, pageVars, actionVars, dialogVars, shotVars>>

\* neither asks whether the session was closed meanwhile: refresh finds no page then,
\* snapshot publishes Python's, which left _pages, once more
EndVerb ==
  /\ holder \in {"refresh", "snapshot"}
  /\ holder' = Nobody
  /\ UNCHANGED <<sessionVars, access, actionVars, dialogVars, shots, image>>
  /\ \/ Pages(registry, page) /\ UNCHANGED shot
     \/ holder = "refresh" /\ PublishEach(page) /\ shot' = Republished
     \/ holder = "snapshot" /\ Publish(Python, page[Python]) /\ UNCHANGED shot

------------------------------------------------------------------------------
\* Screenshots

BeginShot ==
  /\ shots < MaxCaptures
  /\ phase = "active" /\ shot.stage = None /\ holder = Nobody
  /\ shot' = [NoShot EXCEPT !.stage = "settle"] /\ shots' = shots + 1
  /\ holder' = "shot"
  /\ UNCHANGED <<sessionVars, access, pageVars, actionVars, dialogVars, image>>

\* screenshot after its settlement: every page is published, and one projection pinned
Pin(v) ==
  /\ shot.stage = "settle" /\ phase = "active"
  /\ holder' = Nobody
  /\ UNCHANGED <<sessionVars, access, actionVars, dialogVars, shots, image>>
  /\ PublishEach(page)
  /\ shot' = IF CanRead(v)
              THEN [stage |-> "render", viewer |-> v, shown |-> TRUE, source |-> "there"]
              ELSE NoShot

\* _assert_capture_live: of what the picture refers to, it asks for what the page knows
CaptureLive ==
  /\ phase = "active"
  /\ shot.shown /\ CanRead(shot.viewer) /\ shot.source # "lost"

\* render: checked when the page is ready, and again before the raster
Render ==
  /\ \/ shot.stage = "render" /\ shot' = [shot EXCEPT !.stage = "ready"]
     \/ shot.stage = "ready" /\ shot' = [shot EXCEPT !.stage = "raster"]
  /\ CaptureLive
  /\ UNCHANGED <<sessionVars, access, pageVars, actionVars, holder, dialogVars, shots, image>>

\* the raster is there, and replaces the file when the check passes once more
Install ==
  /\ shot.stage = "raster"
  /\ CaptureLive
  /\ image' = image + 1 /\ shot' = NoShot
  /\ UNCHANGED <<sessionVars, access, pageVars, actionVars, holder, dialogVars, shots>>

\* a deadline, an error, a cancellation, a check that fails
ShotFails ==
  /\ shot.stage # None
  /\ shot' = NoShot
  /\ holder' = IF shot.stage = "settle" THEN Nobody ELSE holder
  /\ UNCHANGED <<sessionVars, access, pageVars, actionVars, dialogVars, shots, image>>

------------------------------------------------------------------------------
\* The world, changed by the bot or the test between any two of these steps

World ==
  /\ phase = "active"
  /\ \/ /\ \E v \in Viewers : access' = IF v \in access THEN access \ {v} ELSE access \cup {v}
        /\ UNCHANGED shot
     \/ /\ Pinned     \* a message, a dependency, an asset or the bot's generation is gone
        /\ \/ shot.shown /\ shot' = [shot EXCEPT !.shown = FALSE]
           \/ shot.source = "there" /\ shot' = [shot EXCEPT !.source = "lost"]
        /\ UNCHANGED access
  /\ UNCHANGED <<sessionVars, pageVars, actionVars, holder, dialogVars, shots, image>>

------------------------------------------------------------------------------
Init ==
  /\ phase = "new" /\ entering = FALSE /\ asked = FALSE /\ teardown = None
  /\ access = Viewers
  /\ registry = {} /\ aged = {}
  /\ page = [p \in Contexts |-> NewPage(None, None)]
  /\ active = Nobody /\ cancelling = FALSE /\ closes = {}
  /\ holder = Nobody
  /\ opener = [d \in Dialogs |-> None] /\ used = {}
  /\ shot = NoShot /\ shots = 0 /\ image = 0

Sequences == 1 .. MaxSequence

Next ==
  \/ Enter \/ Started \/ EntryFails \/ BeginClose \/ CaptureEnded \/ ServerClosed \/ Cleared
  \/ \E p \in Tabs, v \in Viewers : OpenPage(p, v)
  \/ \E p \in Tabs : ClosePage(p) \/ Age(p)
  \/ \E p \in Contexts : ReadState(p) \/ ActionSettles(p) \/ ActionFails(p)
  \/ \E p \in Tabs, seq \in Sequences :
       \/ \E kind \in Instant : ActAtOnce(p, seq, kind)
       \/ \E kind \in Awaiting : BeginAction(p, seq, kind) \/ RefusedAction(p, seq, kind)
  \/ Show \/ EndVerb \/ (\E verb \in {"refresh", "snapshot"} : BeginVerb(verb))
  \/ BeginShot \/ (\E v \in Viewers : Pin(v)) \/ Render \/ Install \/ ShotFails
  \/ World

(***************************************************************************)
(* Every await of an operation ends, by settlement or by its timeout; a    *)
(* task that was created runs; the server closes in bounded time.          *)
(***************************************************************************)
Fairness ==
  /\ WF_vars(Started \/ EntryFails) /\ WF_vars(asked /\ BeginClose)
  /\ WF_vars(CaptureEnded \/ ServerClosed \/ Cleared)
  /\ WF_vars(\E p \in Contexts : ActionSettles(p) \/ ActionFails(p))
  /\ WF_vars(EndVerb) /\ WF_vars(ShotFails)

Spec == Init /\ [][Next]_vars /\ Fairness

------------------------------------------------------------------------------
TypeOK ==
  /\ phase \in {"new", "starting", "active", "closing", "closed"}
  /\ registry \subseteq Contexts /\ aged \subseteq Tabs /\ closes \subseteq Tabs
  /\ active \in Tabs \cup {Nobody}
  /\ access \subseteq Viewers /\ used \subseteq Dialogs
  /\ \A p \in registry : page[p].viewer \in Viewers /\ page[p].last \in 0 .. MaxSequence

(***************************************************************************)
(* Nothing is wedged: a receipt is pending exactly while its action holds  *)
(* the session and the guard of the Env, the page under it is not taken    *)
(* away, a page whose close was asked for waits for nothing else, tabs     *)
(* keep to the limit, and a session that ended holds nothing.              *)
(***************************************************************************)
NotWedged ==
  /\ TypeOK
  /\ \A p \in Contexts : Running(page[p].latest) <=> active = p
  /\ (holder = "action") <=> (active # Nobody)
  /\ (holder = "shot") <=> (shot.stage = "settle")
  /\ active # Nobody /\ phase \in {"active", "closing"} => active \in registry
  /\ closes \cap registry \subseteq {active}
  /\ Cardinality(registry \cap Tabs) <= MaxPages
  /\ phase = "closed" => registry = {} /\ closes = {} /\ shot = NoShot

(***************************************************************************)
(* Receipts are honest: an action that says it was not dispatched has not  *)
(* reached the backend, and one that reached it and did not settle says    *)
(* that its outcome is uncertain.                                          *)
(***************************************************************************)
HonestReceipts ==
  \A p \in Contexts :
    LET a == page[p].latest IN
      /\ a.did => a.sent
      /\ a.did /\ a.end \in Errors => Uncertain(a)

(***************************************************************************)
(* What a page holds is its viewer's: no receipt of an earlier viewer, no  *)
(* dialog that was shown to another, and nothing at all on a page that was *)
(* published or read while its viewer could not read the channel; also on  *)
(* the page of Python, which a verb may publish after the teardown.        *)
(***************************************************************************)
PagesPrivate ==
  \A p \in registry \cup {Python} :
    LET g == page[p] IN
      /\ g.by \subseteq {g.viewer}
      /\ g.modal # None => opener[g.modal] = g.viewer
      /\ g.status = "access_denied" => g.modal = None

SessionSound == NotWedged /\ HonestReceipts /\ PagesPrivate

(***************************************************************************)
(* Every action that was admitted ends, and so does a session once its end *)
(* was asked for, an action in the middle of it or not.                    *)
(***************************************************************************)
SessionEnds ==
  /\ \A p \in Contexts : (active = p) ~> (active # p)
  /\ (asked \/ phase = "closing") ~> (phase = "closed")

\* what a receipt says at the end, and a page of the last number it spent
Reports == {<<end, sent, did>> : end \in Errors \cup {"settled"}, sent \in BOOLEAN, did \in BOOLEAN}
Outcome(g) ==
  LET a == g.latest IN
    IF g.last = 0 THEN "none" ELSE IF Running(a) THEN "pending" ELSE <<a.end, a.sent, a.did>>

Account == INSTANCE Ledger WITH
  Accounts <- Contexts,
  Outcomes <- Reports,
  spent <- [p \in Contexts |-> page[p].last],
  outcome <- [p \in Contexts |-> Outcome(page[p])],
  running <- active

(***************************************************************************)
(* The pages keep the promise of Ledger: a request that is sent again, out *)
(* of order, or beside another action spends no number and changes no      *)
(* outcome, whatever is redacted, closed or torn down meanwhile.           *)
(***************************************************************************)
ImplementsLedger == Account!Spec
=============================================================================
