---------------------------- MODULE PagesProofs ----------------------------
(***************************************************************************)
(* A session of the preview is never wedged, tells the truth in its        *)
(* receipts, shows nobody what is another's, and keeps the promise of      *)
(* Ledger, whatever is closed, redacted or torn down between two steps.    *)
(***************************************************************************)
EXTENDS Pages, Projections, Queries, FiniteSetTheorems, WellFoundedInduction, TLAPS

Act  == [kind : {None} \cup Awaiting, end : {None, "settled"} \cup Errors,
         sent : BOOLEAN, did : BOOLEAN]
Page == [viewer : Viewers \cup {Nobody, None}, status : {"current", "stale", "access_denied"},
         last : 0 .. MaxSequence, latest : Act, modal : Dialogs \cup {None},
         by : SUBSET (Viewers \cup {Nobody, None})]
Shot == [stage : {None, "settle", "render", "ready", "raster"}, viewer : Viewers \cup {None},
         shown : BOOLEAN, source : {"there", "lost", "forgotten"}]

\* A receipt that speaks of no dispatch is about an action that came to nothing.
Honest(a) == a.did => a.sent

\* The account of a page: a number is spent with an action that runs or ended,
\* a page that was never opened spent none, and runs says which it is.
Accounted(g, runs) ==
  /\ g \in Page
  /\ g.viewer = None => g.last = 0
  /\ g.last = 0 => g.latest = NoAction
  /\ g.last # 0 /\ g.latest.kind = None => g.latest.end # None
  /\ (g.latest.kind # None) = runs
  /\ Honest(g.latest)

\* A page holds nothing of another viewer, by who saw which dialog. An open one has
\* a viewer of the session; Python's, open or not, never has any other than First.
Discreet(g, shown) ==
  /\ g.by \subseteq {g.viewer}
  /\ g.modal # None => shown[g.modal] = g.viewer
  /\ g.status = "access_denied" => g.modal = None
Private(g, shown) == g.viewer \in Viewers /\ Discreet(g, shown)
Own(g, shown) == Discreet(g, shown) /\ (g.viewer = First \/ (g.viewer = None /\ g.modal = None))

PagesInv ==
  /\ page \in [Contexts -> Page] /\ opener \in [Dialogs -> Viewers \cup {None}]
  /\ \A p \in Contexts : Accounted(page[p], active = p)
  /\ \A p \in registry : Private(page[p], opener)
  /\ \A p \in closes : page[p].viewer # None
  /\ Own(page[Python], opener)

\* What the phase says of the rest: nothing is open before the session is
\* active, the page of Python is open while it is, and a teardown that has
\* come past the server has cancelled the action, after the screenshot.
PhaseInv ==
  /\ phase \in {"new", "starting", "active", "closing", "closed"}
  /\ teardown \in {None, "capture", "server", "pages"}
  /\ teardown # None <=> phase = "closing"
  /\ phase \in {"new", "starting"} =>
       /\ registry = {} /\ closes = {} /\ active = Nobody /\ shot = NoShot
       /\ holder = Nobody /\ page[Python].viewer = None
  /\ phase = "active" => Python \in registry
  /\ teardown \in {"server", "pages"} => shot = NoShot
  /\ phase = "closed" => registry = {} /\ closes = {} /\ shot = NoShot
  /\ (teardown = "pages" \/ phase = "closed") /\ active # Nobody => cancelling

HoldInv ==
  /\ shot \in Shot /\ (shot.stage = None => shot = NoShot)
  /\ active \in Tabs \cup {Nobody} /\ access \subseteq Viewers /\ used \subseteq Dialogs
  /\ (holder = "action") <=> (active # Nobody)
  /\ (holder = "shot") <=> (shot.stage = "settle")

OpenInv ==
  /\ registry \subseteq Contexts /\ aged \subseteq Tabs /\ closes \subseteq Tabs
  /\ active # Nobody /\ phase \in {"active", "closing"} => active \in registry
  /\ closes \cap registry \subseteq {active}
  /\ IsFiniteSet(registry) /\ Cardinality(registry \cap Tabs) <= MaxPages

IInv == PagesInv /\ PhaseInv /\ HoldInv /\ OpenInv

-----------------------------------------------------------------------------
(* What the operations on one page keep *)

LEMMA Distinguished ==
  /\ None # Nobody /\ None \notin Viewers /\ Nobody \notin Viewers /\ None \notin Dialogs
  /\ Nobody \notin Contexts /\ Python \notin Tabs /\ Python # Nobody /\ First \in Viewers
  /\ None \notin Awaiting /\ None \notin Errors /\ MaxSequence \in Nat /\ MaxPages \in Nat
  BY PagesAssumption DEF None, Nobody, Python, Awaiting, Errors

LEMMA NewAccounted ==
  ASSUME NEW v \in Viewers \cup {None}, NEW d \in Dialogs \cup {None}
  PROVE  Accounted(NewPage(v, d), FALSE)
  BY Distinguished DEF Accounted, Honest, NewPage, NoAction, Page, Act

\* A page that is published keeps its account, its viewer and its privacy.
LEMMA PublishedKeeps ==
  ASSUME NEW g \in Page
  PROVE  /\ Published(g) \in Page
         /\ Published(g).viewer = g.viewer
         /\ Published(g).last = g.last /\ Published(g).latest = g.latest
         /\ \A b \in BOOLEAN : Accounted(g, b) => Accounted(Published(g), b)
         /\ \A f : Private(g, f) => Private(Published(g), f)
         /\ \A f : Own(g, f) => Own(Published(g), f)
<1>1. /\ Published(g) \in Page
      /\ Published(g).viewer = g.viewer
      /\ Published(g).last = g.last /\ Published(g).latest = g.latest
      /\ Published(g).by \subseteq g.by
      /\ Published(g).modal \in {g.modal, None}
      /\ Published(g).status = "access_denied" => Published(g).modal = None
  BY DEF Published, Denied, Redacted, Page
<1>2. \A b \in BOOLEAN : Accounted(g, b) => Accounted(Published(g), b)
  BY <1>1 DEF Accounted
<1>3. \A f : Discreet(g, f) => Discreet(Published(g), f)
  BY <1>1 DEF Discreet
<1> QED
  BY <1>1, <1>2, <1>3 DEF Private, Own

\* Its account outlives a page that left.
LEMMA GoneKeeps ==
  ASSUME NEW g \in Page
  PROVE  /\ Gone(g) \in Page /\ Gone(g).viewer = Nobody
         /\ Gone(g).last = g.last /\ Gone(g).latest = g.latest
         /\ \A b \in BOOLEAN : Accounted(g, b) => Accounted(Gone(g), b)
<1>1. /\ Gone(g) \in Page /\ Gone(g).viewer = Nobody
      /\ Gone(g).last = g.last /\ Gone(g).latest = g.latest
  BY Distinguished DEF Gone, NewPage, NoAction, Page, Act
<1> QED
  BY <1>1, Distinguished DEF Accounted

\* A receipt that says how an action ended.
Given(g, seq, a) == [g EXCEPT !.last = seq, !.by = @ \cup {g.viewer}, !.latest = a]

LEMMA GivenKeeps ==
  ASSUME NEW g \in Page, g.viewer # None, NEW seq \in 1 .. MaxSequence,
         NEW a \in Act, a.kind = None, a.end # None, Honest(a)
  PROVE  /\ Given(g, seq, a) \in Page /\ Accounted(Given(g, seq, a), FALSE)
         /\ Given(g, seq, a).viewer = g.viewer /\ Given(g, seq, a).modal = g.modal
         /\ Given(g, seq, a).last = seq /\ Given(g, seq, a).latest = a
         /\ \A f : Private(g, f) => Private(Given(g, seq, a), f)
<1> DEFINE r == Given(g, seq, a)
<1>1. /\ r.viewer = g.viewer /\ r.modal = g.modal /\ r.status = g.status
      /\ r.last = seq /\ r.latest = a /\ r.by = g.by \cup {g.viewer}
  BY DEF Given, Page
<1>2. r \in Page
  BY seq \in 0 .. MaxSequence DEF Given, Page
<1>3. Accounted(r, FALSE)
  BY <1>1, <1>2 DEF Accounted
<1>4. \A f : Private(g, f) => Private(r, f)
  BY <1>1 DEF Private, Discreet
<1> QED
  BY <1>1, <1>2, <1>3, <1>4

-----------------------------------------------------------------------------
(* What a step keeps that leaves some pages open and rewrites some *)

\* The accounts of the pages after a step are those of f.
Counts(f) == \A p \in Contexts : page'[p].last = f[p].last /\ page'[p].latest = f[p].latest

\* Settled puts f in place of the pages and takes what it does not leave open;
\* a page that was opened or rewritten keeps the invariant when f does.
LEMMA SettledKeeps ==
  ASSUME IInv, NEW open \in SUBSET Contexts, NEW f \in [Contexts -> Page], NEW seen,
         Settled(open, f, seen),
         \A p \in Contexts : Accounted(f[p], active' = p),
         opener' \in [Dialogs -> Viewers \cup {None}],
         \A p \in open : Private(f[p], opener'),
         \A p \in closes' : p \in Contexts /\ f[p].viewer # None,
         Own(f[Python], opener')
  PROVE  /\ PagesInv'
         /\ registry' = open /\ aged' \subseteq Tabs
         /\ Counts(f)
<1>1. registry' = open /\ aged' \subseteq Tabs
  BY DEF Settled, IInv, OpenInv
<1>2. \A p \in Contexts : page'[p] = IF p \in registry \ (open \cup {Python}) THEN Gone(f[p]) ELSE f[p]
  BY DEF Settled
<1>3. ASSUME NEW p \in Contexts
      PROVE  /\ page'[p] \in Page
             /\ page'[p].last = f[p].last /\ page'[p].latest = f[p].latest
             /\ Accounted(page'[p], active' = p)
             /\ f[p].viewer # None => page'[p].viewer # None
             /\ p \in open \cup {Python} => page'[p] = f[p]
  <2>1. f[p] \in Page /\ (active' = p) \in BOOLEAN
    OBVIOUS
  <2>2. CASE p \in registry \ (open \cup {Python})
    <3>1. page'[p] = Gone(f[p])
      BY <1>2, <2>2
    <3>2. /\ Gone(f[p]) \in Page /\ Gone(f[p]).viewer = Nobody
          /\ Gone(f[p]).last = f[p].last /\ Gone(f[p]).latest = f[p].latest
      BY <2>1, GoneKeeps
    <3>3. Accounted(Gone(f[p]), active' = p)
      BY <3>2, Distinguished DEF Accounted
    <3> QED
      BY <2>2, <3>1, <3>2, <3>3, Distinguished
  <2>3. CASE p \notin registry \ (open \cup {Python})
    BY <1>2, <2>1, <2>3
  <2> QED
    BY <2>2, <2>3
<1>4. page' \in [Contexts -> Page]
  BY <1>3 DEF Settled
<1>5. PagesInv'
  BY <1>1, <1>3, <1>4 DEF PagesInv, Contexts
<1> QED
  BY <1>1, <1>3, <1>5 DEF Counts

LEMMA FewerOpen ==
  ASSUME IInv, NEW open \in SUBSET registry
  PROVE  IsFiniteSet(open) /\ Cardinality(open \cap Tabs) <= MaxPages
<1>1. IsFiniteSet(registry) /\ IsFiniteSet(registry \cap Tabs) /\ IsFiniteSet(open)
  BY FS_Subset, registry \cap Tabs \subseteq registry DEF IInv, OpenInv
<1>2. Cardinality(open \cap Tabs) <= Cardinality(registry \cap Tabs)
  BY <1>1, FS_Subset, open \cap Tabs \subseteq registry \cap Tabs
<1>3. Cardinality(open \cap Tabs) \in Nat /\ Cardinality(registry \cap Tabs) \in Nat
  BY <1>1, FS_Subset, FS_CardinalityType, open \cap Tabs \subseteq registry \cap Tabs
<1> QED
  BY <1>1, <1>2, <1>3, Distinguished DEF IInv, OpenInv

LEMMA KeptOpen ==
  ASSUME IInv, NEW keep
  PROVE  /\ Kept(keep) \subseteq registry
         /\ Python \in registry => Python \in Kept(keep)
         /\ active \in registry => active \in Kept(keep)
         /\ keep \cap registry \subseteq Kept(keep)
  BY DEF Kept

\* The rewritten pages of a step that opens none and leaves action and dialogs.
Rewrites(f, open) ==
  /\ f \in [Contexts -> Page]
  /\ \A p \in Contexts : /\ Accounted(f[p], active = p)
                         /\ page[p].viewer # None => f[p].viewer # None
  /\ \A p \in open : Private(f[p], opener)
  /\ Own(f[Python], opener)

LEMMA ShrinkKeeps ==
  ASSUME IInv, phase \notin {"new", "starting"}, UNCHANGED <<phase, active, opener>>,
         NEW open \in SUBSET registry, NEW f, NEW seen,
         Settled(open, f, seen), Rewrites(f, open),
         Python \in registry => Python \in open, active \in registry => active \in open,
         closes' \subseteq Tabs, closes' \cap open \subseteq {active},
         \A p \in closes' : page[p].viewer # None
  PROVE  PagesInv' /\ OpenInv' /\ registry' = open /\ Counts(f)
<1>1. open \in SUBSET Contexts /\ closes' \subseteq Contexts /\ f \in [Contexts -> Page]
  BY DEF IInv, OpenInv, Contexts, Rewrites
<1>2. \A p \in closes' : p \in Contexts /\ f[p].viewer # None
  BY <1>1 DEF Rewrites
<1>3. opener' \in [Dialogs -> Viewers \cup {None}] /\ Own(f[Python], opener')
  BY DEF IInv, PagesInv, Rewrites
<1>4. \A p \in Contexts : Accounted(f[p], active' = p)
  BY DEF Rewrites
<1>5. \A p \in open : Private(f[p], opener')
  BY DEF Rewrites
<1>6. PagesInv' /\ registry' = open /\ aged' \subseteq Tabs /\ Counts(f)
  BY <1>1, <1>2, <1>3, <1>4, <1>5, SettledKeeps
<1>7. OpenInv'
  BY <1>6, FewerOpen, <1>1 DEF IInv, OpenInv
<1> QED
  BY <1>6, <1>7

LEMMA SameRewrites ==
  ASSUME IInv, NEW open \in SUBSET registry
  PROVE  Rewrites(page, open)
  BY DEF IInv, PagesInv, Rewrites

LEMMA OneRewrites ==
  ASSUME IInv, NEW open \in SUBSET registry, NEW p \in Contexts, NEW g,
         Accounted(g, active = p), page[p].viewer # None => g.viewer # None,
         p \in open => Private(g, opener), p = Python => Own(g, opener)
  PROVE  Rewrites([page EXCEPT ![p] = g], open)
<1>1. g \in Page /\ page \in [Contexts -> Page]
  BY DEF Accounted, IInv, PagesInv
<1>2. \A q \in Contexts : [page EXCEPT ![p] = g][q] = IF q = p THEN g ELSE page[q]
  BY <1>1
<1>3. [page EXCEPT ![p] = g] \in [Contexts -> Page]
  BY <1>1
<1>4. ASSUME NEW q \in Contexts, q # p
      PROVE  Accounted(page[q], active = q) /\ (q \in open => Private(page[q], opener))
  BY DEF IInv, PagesInv
<1>5. open \subseteq Contexts /\ Python \in Contexts /\ Own(page[Python], opener)
  BY DEF IInv, OpenInv, PagesInv, Contexts
<1> QED
  BY <1>2, <1>3, <1>4, <1>5 DEF Rewrites

\* Publishing one page, the others left as they are.
LEMMA PublishRewrites ==
  ASSUME IInv, NEW open \in SUBSET registry, NEW p \in Contexts, NEW g \in Page,
         Accounted(g, active = p), page[p].viewer # None => g.viewer # None,
         p \in open => Private(g, opener), p = Python => Own(g, opener)
  PROVE  Rewrites([page EXCEPT ![p] = Published(g)], open)
<1>1. /\ Published(g).viewer = g.viewer
      /\ p \in open => Private(Published(g), opener)
      /\ p = Python => Own(Published(g), opener)
  BY PublishedKeeps
<1>2. Accounted(Published(g), active = p)
  BY PublishedKeeps DEF Accounted
<1> QED
  BY <1>1, <1>2, OneRewrites

LEMMA EachRewrites ==
  ASSUME IInv, NEW open \in SUBSET registry, NEW some
  PROVE  Rewrites([p \in Contexts |-> IF p \in some THEN Published(page[p]) ELSE page[p]], open)
<1> DEFINE f == [p \in Contexts |-> IF p \in some THEN Published(page[p]) ELSE page[p]]
<1>1. ASSUME NEW p \in Contexts
      PROVE  /\ f[p] \in Page /\ f[p].viewer = page[p].viewer
             /\ Accounted(f[p], active = p)
             /\ p \in open => Private(f[p], opener)
             /\ p = Python => Own(f[p], opener)
  <2>1. page[p] \in Page /\ Accounted(page[p], active = p) /\ (p \in open => Private(page[p], opener))
        /\ (p = Python => Own(page[p], opener))
    BY DEF IInv, PagesInv
  <2>2. CASE p \in some
    <3>1. f[p] = Published(page[p])
      BY <2>2
    <3>2. Accounted(Published(page[p]), active = p)
      BY <2>1, PublishedKeeps DEF Accounted
    <3> QED
      BY <2>1, <3>1, <3>2, PublishedKeeps
  <2>3. CASE p \notin some
    BY <2>1, <2>3
  <2> QED
    BY <2>2, <2>3
<1>2. f \in [Contexts -> Page]
  BY <1>1
<1>3. open \subseteq Contexts /\ Python \in Contexts
  BY DEF IInv, OpenInv, Contexts
<1> HIDE DEF f
<1> QED
  BY <1>1, <1>2, <1>3 DEF Rewrites, f

-----------------------------------------------------------------------------
(* The steps. Those that leave the pages as they are come first. *)

LEMMA QuietKeeps ==
  ASSUME IInv,
         \/ Enter \/ EntryFails \/ BeginClose \/ CaptureEnded \/ ServerClosed
         \/ (\E verb \in {"refresh", "snapshot"} : BeginVerb(verb))
         \/ BeginShot \/ Render \/ Install \/ ShotFails \/ World
  PROVE  IInv' /\ Counts(page)
<1> USE DEF sessionVars, pageVars, actionVars, dialogVars, shotVars
<1>1. UNCHANGED <<page, registry, aged, active, closes, opener, used>>
  BY DEF Enter, EntryFails, BeginClose, CaptureEnded, ServerClosed, BeginVerb, BeginShot, Render,
         Install, ShotFails, World
<1>2. PagesInv'
  BY <1>1 DEF IInv, PagesInv
<1>3. OpenInv'
  <2>1. phase' \in {"active", "closing"} => phase \in {"active", "closing"} \/ active = Nobody
    BY DEF Enter, EntryFails, BeginClose, CaptureEnded, ServerClosed, BeginVerb, BeginShot, Render,
           Install, ShotFails, World, IInv, PhaseInv
  <2> QED
    BY <1>1, <2>1 DEF IInv, OpenInv
<1>4. HoldInv'
  <2>1. NoShot \in Shot
    BY DEF NoShot, Shot
  <2>2. shot' \in Shot /\ (shot'.stage = None => shot' = NoShot)
    BY <2>1 DEF Enter, EntryFails, BeginClose, CaptureEnded, ServerClosed, BeginVerb, BeginShot,
           Render, Install, ShotFails, World, IInv, HoldInv, NoShot, Shot, Pinned, None
  <2>3. access' \subseteq Viewers
    BY DEF Enter, EntryFails, BeginClose, CaptureEnded, ServerClosed, BeginVerb, BeginShot,
           Render, Install, ShotFails, World, IInv, HoldInv
  <2>4. ((holder = "action") <=> (holder' = "action")) /\ ((holder' = "shot") <=> (shot'.stage = "settle"))
    BY DEF Enter, EntryFails, BeginClose, CaptureEnded, ServerClosed, BeginVerb, BeginShot,
           Render, Install, ShotFails, World, IInv, HoldInv, NoShot, Shot, Pinned, None, Nobody
  <2> QED
    BY <1>1, <2>2, <2>3, <2>4 DEF IInv, HoldInv
<1>5. PhaseInv'
  BY <1>1 DEF Enter, EntryFails, BeginClose, CaptureEnded, ServerClosed, BeginVerb, BeginShot,
         Render, Install, ShotFails, World, IInv, PhaseInv, HoldInv, CaptureLive, Pinned, NoShot, None
<1> QED
  BY <1>1, <1>2, <1>3, <1>4, <1>5 DEF IInv, Counts

LEMMA AgeKeeps ==
  ASSUME IInv, NEW p \in Tabs, Age(p)
  PROVE  IInv' /\ Counts(page)
  BY DEF Age, Counts, IInv, PagesInv, PhaseInv, HoldInv, OpenInv, Contexts, sessionVars, actionVars,
         dialogVars, shotVars

LEMMA StartedKeeps ==
  ASSUME IInv, Started
  PROVE  IInv' /\ Counts(page)
<1> USE DEF sessionVars, pageVars, actionVars, dialogVars, shotVars
<1> DEFINE g == Published(NewPage(First, None))
<1>1. /\ registry = {} /\ closes = {} /\ active = Nobody /\ shot = NoShot /\ phase' = "active"
      /\ teardown = None /\ teardown' = None
  BY DEF Started, IInv, PhaseInv
<1>2. Accounted(NewPage(First, None), FALSE) /\ NewPage(First, None) \in Page
  BY NewAccounted, Distinguished DEF Accounted
<1>3. g \in Page /\ Accounted(g, FALSE) /\ g.viewer = First
  BY <1>2, PublishedKeeps DEF NewPage
<1>4. Private(g, opener)
  BY <1>2, PublishedKeeps, Distinguished DEF Private, Discreet, NewPage
<1>5. page' = [page EXCEPT ![Python] = g]
  BY DEF Started
<1>6. PagesInv'
  <2>1. ASSUME NEW p \in Contexts
        PROVE  page'[p] = (IF p = Python THEN g ELSE page[p])
    BY <1>5 DEF IInv, PagesInv
  <2>2. Accounted(g, active' = Python)
    BY <1>1, <1>3, Distinguished DEF Started, Accounted
  <2>3. \A p \in Contexts : Accounted(page'[p], active' = p)
    BY <2>1, <2>2 DEF IInv, PagesInv, Started
  <2>4. page' \in [Contexts -> Page] /\ opener' \in [Dialogs -> Viewers \cup {None}]
    BY <1>3, <1>5 DEF IInv, PagesInv, Started
  <2>5. registry' = {Python} /\ Private(page'[Python], opener') /\ Own(page'[Python], opener')
    BY <1>3, <1>4, <2>1 DEF Started, Contexts, Private, Own
  <2> QED
    BY <1>1, <2>3, <2>4, <2>5 DEF PagesInv, Started
<1>7. OpenInv'
  <2>1. Cardinality({Python} \cap Tabs) = 0 /\ IsFiniteSet({Python})
    BY Distinguished, FS_EmptySet, FS_Singleton, {Python} \cap Tabs = {}
  <2> QED
    BY <1>1, <2>1, Distinguished DEF Started, IInv, OpenInv, Contexts
<1>8. HoldInv' /\ PhaseInv'
  BY <1>1 DEF Started, IInv, HoldInv, PhaseInv, None
<1>9. Counts(page)
  <2>1. page[Python].last = 0 /\ page[Python].latest = NoAction
    BY DEF Started, IInv, PagesInv, PhaseInv, Accounted, Contexts
  <2>2. g.last = 0 /\ g.latest = NoAction
    BY <1>2, PublishedKeeps DEF NewPage
  <2> HIDE DEF g
  <2> QED
    BY <1>5, <2>1, <2>2 DEF Counts, IInv, PagesInv
<1> QED
  BY <1>6, <1>7, <1>8, <1>9 DEF IInv

LEMMA ClearedKeeps ==
  ASSUME IInv, Cleared
  PROVE  IInv' /\ Counts(page)
<1> USE DEF sessionVars, dialogVars, shotVars
<1>1. Settled({}, page, {}) /\ page \in [Contexts -> Page] /\ closes' = {}
  BY DEF Cleared, Pages, IInv, PagesInv
<1>2. \A p \in Contexts : Accounted(page[p], active' = p)
  BY DEF Cleared, IInv, PagesInv
<1>3. opener' \in [Dialogs -> Viewers \cup {None}] /\ Own(page[Python], opener')
  BY DEF Cleared, IInv, PagesInv
<1>4. PagesInv' /\ registry' = {} /\ aged' \subseteq Tabs /\ Counts(page)
  BY <1>1, <1>2, <1>3, SettledKeeps
<1>5. IsFiniteSet({}) /\ Cardinality({} \cap Tabs) = 0
  BY FS_EmptySet, {} \cap Tabs = {}
<1>6. OpenInv'
  BY <1>1, <1>4, <1>5, Distinguished DEF Cleared, OpenInv
<1>7. HoldInv' /\ PhaseInv'
  BY <1>1, <1>4 DEF Cleared, IInv, HoldInv, PhaseInv, None
<1> QED
  BY <1>4, <1>6, <1>7 DEF IInv

LEMMA OpenPageKeeps ==
  ASSUME IInv, NEW p \in Tabs, NEW v \in Viewers, OpenPage(p, v)
  PROVE  IInv' /\ Counts(page)
<1> USE DEF sessionVars, actionVars, dialogVars, shotVars
<1> DEFINE open == Kept({})
           pinned == IF Pinned THEN 1 ELSE 0
           modal == page[Python].modal
           d == IF modal # None /\ opener[modal] = v THEN modal ELSE None
           g == Published(NewPage(v, d))
           f == [page EXCEPT ![p] = g]
<1>1. /\ open \in SUBSET registry /\ (Python \in registry => Python \in open)
      /\ (active \in registry => active \in open)
  BY KeptOpen
<1>2. PagesInv' /\ OpenInv' /\ Counts(page)
  <2>1. CASE Settled(open, page, {})
    <3>1. Rewrites(page, open)
      BY <1>1, SameRewrites
    <3>2. closes' \subseteq Tabs /\ closes' \cap open \subseteq {active} /\ \A q \in closes' : page[q].viewer # None
      BY <1>1 DEF OpenPage, IInv, PagesInv, OpenInv
    <3>3. phase \notin {"new", "starting"} /\ UNCHANGED <<phase, active, opener>>
      BY DEF OpenPage
    <3> QED
      BY <1>1, <2>1, <3>1, <3>2, <3>3, ShrinkKeeps
  <2>2. CASE ~(Cardinality(open) + pinned >= MaxPages + 1) /\ Settled(open \cup {p}, f, {})
    <3>1. d \in Dialogs \cup {None} /\ p \in Contexts /\ Python \in Contexts
      BY DEF IInv, PagesInv, Contexts, Page
    <3>2. NewPage(v, d) \in Page /\ Accounted(NewPage(v, d), FALSE)
      BY <3>1, NewAccounted DEF Accounted
    <3>3. Private(NewPage(v, d), opener)
      BY <3>1 DEF Private, Discreet, NewPage
    <3>4. g \in Page /\ g.viewer = v /\ Accounted(g, FALSE) /\ Private(g, opener)
      BY <3>2, <3>3, PublishedKeeps DEF NewPage
    <3>5. p \notin registry /\ p # active /\ p # Python
      <4>1. \A q \in registry : page[q].viewer # None
        BY Distinguished DEF IInv, PagesInv, Private
      <4>2. active # Nobody => active \in registry
        BY DEF OpenPage, IInv, OpenInv
      <4> QED
        BY <3>1, <4>1, <4>2, Distinguished DEF OpenPage
    <3>6. f \in [Contexts -> Page] /\ \A q \in Contexts : f[q] = IF q = p THEN g ELSE page[q]
      BY <3>1, <3>4 DEF IInv, PagesInv
    <3>7. Accounted(g, active' = p)
      BY <3>4, <3>5 DEF OpenPage, Accounted
    <3>8. \A q \in Contexts : Accounted(f[q], active' = q)
      BY <3>6, <3>7 DEF OpenPage, IInv, PagesInv
    <3>9. opener' = opener /\ closes' = closes /\ closes \subseteq Contexts /\ open \cup {p} \in SUBSET Contexts
      BY <1>1, <3>1 DEF OpenPage, IInv, OpenInv, Contexts
    <3>10. \A q \in open \cup {p} : Private(f[q], opener')
      BY <1>1, <3>4, <3>6, <3>9 DEF IInv, PagesInv
    <3>11. \A q \in closes' : q \in Contexts /\ f[q].viewer # None
      <4>1. \A q \in closes : page[q].viewer # None
        BY DEF IInv, PagesInv
      <4>2. g.viewer # None
        BY <3>4, Distinguished
      <4> HIDE DEF f, g
      <4> QED
        BY <4>1, <4>2, <3>6, <3>9
    <3>12. Own(f[Python], opener')
      BY <3>1, <3>5, <3>6, <3>9 DEF IInv, PagesInv
    <3>13. opener' \in [Dialogs -> Viewers \cup {None}]
      BY <3>9 DEF IInv, PagesInv
    <3>14. PagesInv' /\ registry' = open \cup {p} /\ aged' \subseteq Tabs /\ Counts(f)
      <4> HIDE DEF f, g, d, open, modal
      <4> QED
        BY ZenonT(60), <2>2, <3>6, <3>8, <3>9, <3>10, <3>11, <3>12, <3>13, SettledKeeps
    <3>15. IsFiniteSet(open \cup {p}) /\ Cardinality((open \cup {p}) \cap Tabs) <= MaxPages
      <4>1. IsFiniteSet(open)
        BY <1>1, FewerOpen
      <4>2. Python \in open
        BY <1>1 DEF OpenPage, IInv, PhaseInv
      <4>3. IsFiniteSet(open \ {Python}) /\ Cardinality(open \ {Python}) = Cardinality(open) - 1
        BY <4>1, <4>2, FS_RemoveElement
      <4>4. Cardinality(open) \in Nat /\ Cardinality(open) <= MaxPages
        <5>1. Cardinality(open) \in Nat
          BY <4>1, FS_CardinalityType
        <5> QED
          BY <2>2, <5>1, Distinguished
      <4>5. (open \cup {p}) \cap Tabs = (open \ {Python}) \cup {p}
        BY <1>1, Distinguished DEF IInv, OpenInv, Contexts
      <4>6. p \notin open \ {Python}
        BY <1>1, <3>5
      <4>7. Cardinality((open \ {Python}) \cup {p}) = Cardinality(open \ {Python}) + 1
        BY <4>3, <4>6, FS_AddElement
      <4>8. IsFiniteSet(open \cup {p})
        BY <4>1, FS_AddElement
      <4>9. Cardinality((open \cup {p}) \cap Tabs) = Cardinality(open)
        <5>1. Cardinality((open \cup {p}) \cap Tabs) = Cardinality(open \ {Python}) + 1
          BY <4>5, <4>7
        <5> QED
          BY <4>3, <4>4, <5>1
      <4>10. Cardinality((open \cup {p}) \cap Tabs) <= MaxPages
        BY <4>4, <4>9
      <4> QED
        BY <4>8, <4>10
    <3>16. closes' \subseteq Tabs /\ closes' \cap registry' \subseteq {active'}
      <4>1. p \notin closes
        BY <3>1, <3>6 DEF OpenPage, IInv, PagesInv
      <4> QED
        BY <1>1, <3>9, <3>14, <4>1 DEF OpenPage, IInv, OpenInv
    <3>17. active' # Nobody => active' \in registry'
      BY <1>1, <3>14 DEF OpenPage, IInv, OpenInv
    <3>18. Counts(page)
      <4>1. page[p].last = 0 /\ page[p].latest = NoAction
        BY <3>1 DEF OpenPage, IInv, PagesInv, Accounted
      <4>2. g.last = 0 /\ g.latest = NoAction
        BY <3>2, PublishedKeeps DEF NewPage
      <4> HIDE DEF f, g
      <4> QED
        BY <3>6, <3>14, <4>1, <4>2 DEF Counts
    <3> QED
      BY <3>9, <3>14, <3>15, <3>16, <3>17, <3>18 DEF OpenInv
  <2> QED
    BY <2>1, <2>2 DEF OpenPage, Pages
<1>3. Python \in registry'
  BY <1>1 DEF OpenPage, Pages, Settled, IInv, PhaseInv
<1>4. HoldInv' /\ PhaseInv'
  BY <1>3 DEF OpenPage, IInv, HoldInv, PhaseInv, None
<1> QED
  BY <1>2, <1>4 DEF IInv

LEMMA ClosePageKeeps ==
  ASSUME IInv, NEW p \in Tabs, ClosePage(p)
  PROVE  IInv' /\ Counts(page)
<1> USE DEF sessionVars, dialogVars, shotVars
<1> DEFINE all == Kept({})
<1>1. /\ all \in SUBSET registry /\ (Python \in registry => Python \in all)
      /\ (active \in registry => active \in all)
  BY KeptOpen
<1>2. PICK left \in {all, all \ {p}} :
        /\ Settled(left, page, {})
        /\ left = all => closes' \in {closes, closes \cup {p}}
        /\ left # all => closes' = closes
        /\ closes' # closes => p = active \/ p \notin all
        /\ left # all => p # active
  BY DEF ClosePage, Pages
<1>3. left \in SUBSET registry /\ (Python \in registry => Python \in left)
      /\ (active \in registry => active \in left)
  BY <1>1, <1>2, Distinguished DEF ClosePage
<1>4. Rewrites(page, left)
  BY <1>3, SameRewrites
<1>5. closes' \subseteq Tabs /\ closes' \cap left \subseteq {active} /\ \A q \in closes' : page[q].viewer # None
  BY <1>2, <1>3 DEF ClosePage, IInv, PagesInv, OpenInv
<1>6. phase \in {"active", "closing"} /\ UNCHANGED <<phase, active, opener>>
  BY DEF ClosePage
<1>7. PagesInv' /\ OpenInv' /\ registry' = left /\ Counts(page)
  BY <1>2, <1>3, <1>4, <1>5, <1>6, ShrinkKeeps
<1>8. HoldInv'
  BY DEF ClosePage, IInv, HoldInv
<1>9. PhaseInv'
  BY <1>3, <1>6, <1>7 DEF ClosePage, IInv, PhaseInv
<1> QED
  BY <1>7, <1>8, <1>9 DEF IInv

\* What a step under the active session or after it leaves alone.
Steady == UNCHANGED <<sessionVars, access, active, cancelling, opener, shot>>

LEMMA ShrinkSteady ==
  ASSUME IInv, phase \notin {"new", "starting"}, Steady, UNCHANGED <<closes, holder, used>>,
         NEW open \in SUBSET registry, NEW f, NEW seen,
         Settled(open, f, seen), Rewrites(f, open),
         Python \in registry => Python \in open, active \in registry => active \in open
  PROVE  IInv' /\ Counts(f)
<1> USE DEF Steady, sessionVars
<1>1. closes' \subseteq Tabs /\ closes' \cap open \subseteq {active} /\ \A q \in closes' : page[q].viewer # None
  BY DEF IInv, PagesInv, OpenInv
<1>2. PagesInv' /\ OpenInv' /\ registry' = open /\ Counts(f)
  BY <1>1, ShrinkKeeps
<1>3. HoldInv'
  BY DEF IInv, HoldInv
<1>4. PhaseInv'
  BY <1>2 DEF IInv, PhaseInv
<1> QED
  BY <1>2, <1>3, <1>4 DEF IInv

LEMMA ReadStateKeeps ==
  ASSUME IInv, NEW p \in Contexts, ReadState(p)
  PROVE  IInv' /\ Counts(page)
<1> USE DEF sessionVars, actionVars, dialogVars, shotVars
<1> DEFINE open == Kept({})
<1>1. /\ open \in SUBSET registry /\ (Python \in registry => Python \in open)
      /\ (active \in registry => active \in open)
  BY KeptOpen
<1>2. phase \notin {"new", "starting"} /\ Steady /\ UNCHANGED <<closes, holder, used>>
  BY DEF ReadState, Steady
<1>3. CASE Settled(open, page, {p})
  BY <1>1, <1>2, <1>3, SameRewrites, ShrinkSteady
<1>4. CASE Settled(open, [page EXCEPT ![p] = Denied(page[p])], {p})
  <2>1. page[p] \in Page /\ Accounted(page[p], active = p) /\ (p \in open => Private(page[p], opener))
        /\ (p = Python => Own(page[p], opener))
    BY <1>1 DEF IInv, PagesInv
  <2>2. /\ Denied(page[p]) \in Page /\ Denied(page[p]).viewer = page[p].viewer
        /\ Denied(page[p]).last = page[p].last /\ Denied(page[p]).latest = page[p].latest
        /\ Denied(page[p]).by = {} /\ Denied(page[p]).modal = None
    BY <2>1 DEF Denied, Redacted, Page
  <2>3. Accounted(Denied(page[p]), active = p) /\ (p \in open => Private(Denied(page[p]), opener))
        /\ (p = Python => Own(Denied(page[p]), opener))
    BY <2>1, <2>2 DEF Accounted, Private, Own, Discreet
  <2>4. Rewrites([page EXCEPT ![p] = Denied(page[p])], open)
    BY <1>1, <2>2, <2>3, OneRewrites
  <2>5. IInv' /\ Counts([page EXCEPT ![p] = Denied(page[p])])
    BY <1>1, <1>2, <1>4, <2>4, ShrinkSteady
  <2> QED
    BY <2>2, <2>5 DEF Counts, IInv, PagesInv
<1> QED
  BY <1>3, <1>4 DEF ReadState

\* The step spends a number of a page, or leaves it, with an action or its end.
Spends(p, seq, a) ==
  \A q \in Contexts : /\ page'[q].last = IF q = p THEN seq ELSE page[q].last
                      /\ page'[q].latest = IF q = p THEN a ELSE page[q].latest
Undispatched(end) == [kind |-> None, end |-> end, sent |-> FALSE, did |-> FALSE]

\* The receipt of an action that ended where it began.
LEMMA UndispatchedKeeps ==
  ASSUME NEW h \in Page, h.viewer \in Viewers, NEW end \in Errors \cup {"settled"},
         NEW n \in 1 .. MaxSequence
  PROVE  /\ Receipt(h, n, end, FALSE, FALSE) \in Page
         /\ Accounted(Receipt(h, n, end, FALSE, FALSE), FALSE)
         /\ Receipt(h, n, end, FALSE, FALSE).last = n
         /\ Receipt(h, n, end, FALSE, FALSE).latest = Undispatched(end)
         /\ \A f : Private(h, f) => Private(Receipt(h, n, end, FALSE, FALSE), f)
<1> DEFINE a == Undispatched(end)
<1>1. a \in Act /\ a.kind = None /\ a.end # None /\ Honest(a) /\ h.viewer # None
  BY Distinguished DEF Undispatched, Act, Errors, None, Honest
<1>2. Receipt(h, n, end, FALSE, FALSE) = Given(h, n, a)
  BY DEF Receipt, Given, Undispatched
<1> HIDE DEF a
<1>3. Given(h, n, a) \in Page
  BY <1>1, GivenKeeps
<1>4. Accounted(Given(h, n, a), FALSE)
  BY <1>1, GivenKeeps
<1>5. Given(h, n, a).last = n
  BY <1>1, GivenKeeps
<1>6. Given(h, n, a).latest = a
  BY <1>1, GivenKeeps
<1>7. \A f : Private(h, f) => Private(Given(h, n, a), f)
  BY <1>1, GivenKeeps
<1> QED
  BY <1>2, <1>3, <1>4, <1>5, <1>6, <1>7 DEF a

LEMMA ActAtOnceKeeps ==
  ASSUME IInv, NEW p \in Tabs, NEW seq \in Sequences, NEW kind \in Instant, ActAtOnce(p, seq, kind)
  PROVE  IInv' /\ Spends(p, seq, Undispatched("settled"))
<1> USE DEF actionVars, dialogVars, shotVars
<1> DEFINE open == Kept({p})
           done(h) == Receipt(h, seq, "settled", FALSE, FALSE)
<1>1. /\ open \in SUBSET registry /\ (Python \in registry => Python \in open)
      /\ (active \in registry => active \in open)
  BY KeptOpen
<1>2. /\ p \in registry /\ p \in Contexts /\ p # Python /\ active = Nobody /\ seq \in 1 .. MaxSequence
      /\ phase = "active" /\ (active = p) = FALSE
  BY KeptOpen, Distinguished DEF ActAtOnce, Admissible, Sequences, Contexts
<1>3. page[p] \in Page /\ Private(page[p], opener) /\ page[p].viewer # None
  BY <1>2, Distinguished DEF IInv, PagesInv, Private
<1>4. \E g \in Page : /\ \/ Settled(open, [page EXCEPT ![p] = g], {p})
                          \/ Settled(open, [page EXCEPT ![p] = Published(g)], {p})
                       /\ Accounted(g, FALSE) /\ Private(g, opener)
                       /\ g.last = seq /\ g.latest = Undispatched("settled")
  <2>1. ASSUME NEW h \in Page, h.viewer \in Viewers, Private(h, opener)
        PROVE  /\ done(h) \in Page /\ Accounted(done(h), FALSE) /\ Private(done(h), opener)
               /\ done(h).last = seq /\ done(h).latest = Undispatched("settled")
    <3>1. ASSUME NEW n \in 1 .. MaxSequence
          PROVE  LET r == Receipt(h, n, "settled", FALSE, FALSE) IN
                   /\ r \in Page /\ Accounted(r, FALSE)
                   /\ r.last = n /\ r.latest = Undispatched("settled")
                   /\ \A f : Private(h, f) => Private(r, f)
      <4>1. "settled" \in Errors \cup {"settled"}
        OBVIOUS
      <4> QED
        BY ZenonT(60), <2>1, <4>1, UndispatchedKeeps
    <3> QED
      BY <1>2, <2>1, <3>1
  <2>2. CASE kind = "close"
    BY <1>3, <2>1, <2>2 DEF ActAtOnce, Private
  <2>3. CASE kind = "focus"
    <3> DEFINE h == [page[p] EXCEPT !.modal = None]
    <3>1. h \in Page /\ h.viewer \in Viewers /\ Private(h, opener)
      BY <1>3 DEF Page, Private, Discreet
    <3>2. Settled(open, [page EXCEPT ![p] = Published(done(h))], {p})
      BY <2>3 DEF ActAtOnce, Publish
    <3> HIDE DEF h
    <3> QED
      BY <2>1, <3>1, <3>2
  <2>4. CASE kind = "viewer"
    <3>1. PICK v \in Viewers : Publish(p, done([Redacted(page[p]) EXCEPT !.viewer = v]))
      BY <2>4 DEF ActAtOnce
    <3> DEFINE h == [Redacted(page[p]) EXCEPT !.viewer = v]
    <3>2. h \in Page /\ h.viewer = v /\ h.by = {} /\ h.modal = None
      BY <1>3 DEF Page, Redacted
    <3>3. Private(h, opener)
      BY <3>2 DEF Private, Discreet
    <3>4. Settled(open, [page EXCEPT ![p] = Published(done(h))], {p})
      BY <3>1 DEF Publish
    <3> HIDE DEF h
    <3> QED
      BY <2>1, <3>2, <3>3, <3>4
  <2>5. CASE kind \notin {"close", "focus", "viewer"}
    <3>1. Settled(open, [page EXCEPT ![p] = Published(done(page[p]))], {p})
      BY <2>5 DEF ActAtOnce, Publish
    <3> QED
      BY <1>3, <2>1, <3>1 DEF Private
  <2> QED
    BY <2>2, <2>3, <2>4, <2>5
<1>5. PICK g \in Page : /\ \/ Settled(open, [page EXCEPT ![p] = g], {p})
                           \/ Settled(open, [page EXCEPT ![p] = Published(g)], {p})
                        /\ Accounted(g, FALSE) /\ Private(g, opener)
                        /\ g.last = seq /\ g.latest = Undispatched("settled")
  BY <1>4
<1>6. /\ Rewrites([page EXCEPT ![p] = g], open)
      /\ Rewrites([page EXCEPT ![p] = Published(g)], open)
  <2>1. Accounted(g, active = p) /\ g.viewer # None
    BY <1>2, <1>5, Distinguished DEF Private
  <2> QED
    BY <1>1, <1>2, <1>5, <2>1, OneRewrites, PublishRewrites
<1>7. /\ PagesInv' /\ OpenInv' /\ registry' = open
      /\ Counts([page EXCEPT ![p] = g]) \/ Counts([page EXCEPT ![p] = Published(g)])
  <2>1. closes' \subseteq Tabs /\ closes' \cap open \subseteq {active} /\ \A q \in closes' : page[q].viewer # None
    BY <1>1 DEF ActAtOnce, IInv, PagesInv, OpenInv
  <2>2. UNCHANGED <<phase, active, opener>>
    BY DEF ActAtOnce
  <2> HIDE DEF open
  <2> QED
    BY <1>1, <1>2, <1>5, <1>6, <2>1, <2>2, ShrinkKeeps
<1>8. HoldInv' /\ PhaseInv'
  BY <1>1, <1>2, <1>7 DEF ActAtOnce, IInv, HoldInv, PhaseInv
<1>9. Spends(p, seq, Undispatched("settled"))
  <2>1. Published(g).last = seq /\ Published(g).latest = Undispatched("settled")
    BY <1>5, PublishedKeeps
  <2> QED
    BY <1>5, <1>7, <2>1 DEF Counts, Spends, IInv, PagesInv
<1> QED
  BY <1>7, <1>8, <1>9 DEF IInv

LEMMA RefusedActionKeeps ==
  ASSUME IInv, NEW p \in Tabs, NEW seq \in Sequences, NEW kind \in Awaiting, RefusedAction(p, seq, kind)
  PROVE  IInv' /\ Spends(p, seq, Undispatched("failed"))
<1> USE DEF sessionVars, actionVars, dialogVars, shotVars
<1> DEFINE open == Kept({p})
           r == Receipt(page[p], seq, "failed", FALSE, FALSE)
           g == [r EXCEPT !.status = "stale"]
<1>1. /\ open \in SUBSET registry /\ (Python \in registry => Python \in open)
      /\ (active \in registry => active \in open)
  BY KeptOpen
<1>2. /\ p \in registry /\ p \in Contexts /\ p # Python /\ active = Nobody /\ seq \in 1 .. MaxSequence
      /\ phase = "active" /\ (active = p) = FALSE
  BY KeptOpen, Distinguished DEF RefusedAction, Admissible, Sequences, Contexts
<1>3. page[p] \in Page /\ Private(page[p], opener) /\ page[p].viewer # None
  BY <1>2, Distinguished DEF IInv, PagesInv, Private
<1>4. Accounted(r, FALSE) /\ Private(r, opener) /\ r.last = seq /\ r.latest = Undispatched("failed")
  <2>1. ASSUME NEW n \in 1 .. MaxSequence
        PROVE  LET e == Receipt(page[p], n, "failed", FALSE, FALSE) IN
                 /\ e \in Page /\ Accounted(e, FALSE)
                 /\ e.last = n /\ e.latest = Undispatched("failed")
                 /\ \A f : Private(page[p], f) => Private(e, f)
    <3>1. "failed" \in Errors \cup {"settled"} /\ page[p].viewer \in Viewers
      BY <1>3 DEF Errors, Private
    <3> QED
      BY ZenonT(60), <1>3, <3>1, UndispatchedKeeps
  <2> QED
    BY <1>2, <1>3, <2>1
<1>5. /\ Accounted(g, active = p) /\ Private(g, opener) /\ g.viewer # None
      /\ g.last = seq /\ g.latest = Undispatched("failed")
  <2>1. r \in Page
    BY <1>4 DEF Accounted
  <2>2. /\ g \in Page /\ g.viewer = r.viewer /\ g.last = r.last /\ g.latest = r.latest
        /\ g.by = r.by /\ g.modal = r.modal /\ g.status = "stale"
    BY <2>1 DEF Page
  <2> HIDE DEF r, g
  <2> QED
    BY <1>2, <1>4, <2>2, Distinguished DEF Accounted, Private, Discreet
<1>6. Rewrites([page EXCEPT ![p] = g], open)
  <2> HIDE DEF g, open
  <2> QED
    BY <1>1, <1>2, <1>5, OneRewrites
<1>7. Settled(open, [page EXCEPT ![p] = g], {p})
  BY DEF RefusedAction
<1>8. phase \notin {"new", "starting"} /\ Steady /\ UNCHANGED <<closes, holder, used>>
  BY <1>2 DEF RefusedAction, Steady
<1> HIDE DEF g, open
<1>9. IInv' /\ Counts([page EXCEPT ![p] = g])
  BY <1>1, <1>6, <1>7, <1>8, ShrinkSteady
<1> QED
  BY <1>5, <1>9 DEF Counts, Spends, IInv, PagesInv

LEMMA BeginActionKeeps ==
  ASSUME IInv, NEW p \in Tabs, NEW seq \in Sequences, NEW kind \in Awaiting, BeginAction(p, seq, kind)
  PROVE  IInv' /\ \E a \in Act : a.kind # None /\ Spends(p, seq, a)
<1> USE DEF sessionVars, actionVars, dialogVars, shotVars
<1> DEFINE open == Kept({p})
           a == [kind |-> kind, end |-> None, sent |-> Marked(kind), did |-> kind # "refresh"]
           g == [page[p] EXCEPT !.last = seq, !.latest = a]
           f == [page EXCEPT ![p].last = seq, ![p].latest = a]
<1>1. /\ open \in SUBSET registry /\ (Python \in registry => Python \in open)
      /\ (active \in registry => active \in open) /\ p \in open
  BY KeptOpen DEF BeginAction, Admissible
<1>2. /\ p \in registry /\ p \in Contexts /\ p # Python /\ active = Nobody /\ seq \in 1 .. MaxSequence
      /\ phase = "active" /\ phase' = "active" /\ active' = p /\ p # Nobody /\ holder = Nobody
  BY KeptOpen, Distinguished DEF BeginAction, Admissible, Sequences, Contexts
<1>3. page \in [Contexts -> Page] /\ page[p] \in Page /\ Private(page[p], opener) /\ page[p].viewer # None
  BY <1>2, Distinguished DEF IInv, PagesInv, Private
<1>4. /\ g \in Page /\ g.viewer = page[p].viewer /\ g.last = seq /\ g.latest = a
      /\ g.by = page[p].by /\ g.modal = page[p].modal /\ g.status = page[p].status
  <2>1. a \in Act
    BY DEF Act, Marked
  <2>2. seq \in 0 .. MaxSequence
    BY <1>2
  <2> HIDE DEF a
  <2> QED
    BY <1>3, <2>1, <2>2 DEF Page
<1>5. Accounted(g, TRUE) /\ Private(g, opener)
  <2>1. a.kind # None /\ Honest(a) /\ seq # 0
    BY <1>2, Distinguished DEF Marked, Honest
  <2> HIDE DEF a, g
  <2> QED
    BY <1>3, <1>4, <2>1 DEF Accounted, Private, Discreet
<1>6. f \in [Contexts -> Page] /\ \A q \in Contexts : f[q] = IF q = p THEN g ELSE page[q]
  <2>1. f = [page EXCEPT ![p] = g]
    BY <1>2, <1>3
  <2> HIDE DEF f, g
  <2> QED
    BY <1>2, <1>3, <1>4, <2>1
<1>7. used' \subseteq Dialogs
  <2>1. kind = "modal" => page[p].modal \in Dialogs
    BY <1>3 DEF BeginAction, Admissible, Valid, MayNavigate, MaySend, MayTouch, MayOperate,
       MayCommand, MaySubmit, Page
  <2> QED
    BY <2>1 DEF BeginAction, IInv, HoldInv
<1>8. PagesInv' /\ registry' = open /\ aged' \subseteq Tabs /\ Counts(f)
  <2>1. Settled(open, f, {p})
    BY DEF BeginAction
  <2>2. \A q \in Contexts : Accounted(f[q], active' = q)
    <3> SUFFICES ASSUME NEW q \in Contexts PROVE Accounted(f[q], active' = q)
      OBVIOUS
    <3>1. Accounted(g, active' = p)
      BY <1>2, <1>5 DEF Accounted
    <3>2. q # p => Accounted(page[q], active' = q)
      BY <1>2, Distinguished DEF IInv, PagesInv, Accounted
    <3> HIDE DEF f, g
    <3> QED
      BY <1>6, <3>1, <3>2
  <2>3. opener' = opener /\ closes' = closes /\ opener' \in [Dialogs -> Viewers \cup {None}]
        /\ open \subseteq Contexts /\ closes \subseteq Contexts
    BY <1>1 DEF BeginAction, IInv, PagesInv, OpenInv, Contexts
  <2> HIDE DEF f, g, open
  <2>4. \A q \in open : Private(f[q], opener')
    BY <1>1, <1>5, <1>6, <2>3 DEF IInv, PagesInv
  <2>5. \A q \in closes' : q \in Contexts /\ f[q].viewer # None
    BY <1>3, <1>4, <1>6, <2>3 DEF IInv, PagesInv
  <2>6. Own(f[Python], opener')
    BY <1>2, <1>6, <2>3 DEF IInv, PagesInv, Contexts
  <2> QED
    BY <1>6, <2>1, <2>2, <2>3, <2>4, <2>5, <2>6, SettledKeeps
<1>9. OpenInv'
  <2>1. IsFiniteSet(open) /\ Cardinality(open \cap Tabs) <= MaxPages
    BY <1>1, FewerOpen
  <2>2. closes' \subseteq Tabs /\ closes' \cap open \subseteq {p}
    BY <1>1, <1>2, Distinguished DEF BeginAction, IInv, OpenInv, Contexts
  <2>3. open \subseteq Contexts
    BY <1>1 DEF IInv, OpenInv
  <2> HIDE DEF open
  <2> QED
    BY <1>1, <1>2, <1>8, <2>1, <2>2, <2>3 DEF OpenInv
<1>10. HoldInv' /\ PhaseInv'
  BY <1>1, <1>2, <1>7, <1>8 DEF BeginAction, IInv, HoldInv, PhaseInv, Nobody, None
<1>11. a \in Act /\ a.kind # None /\ Spends(p, seq, a)
  <2>1. a \in Act /\ a.kind # None
    BY Distinguished DEF Act, Marked
  <2> HIDE DEF f, g, a
  <2> QED
    BY <1>4, <1>6, <1>8, <2>1 DEF Counts, Spends
<1> HIDE DEF a
<1> QED
  BY <1>8, <1>9, <1>10, <1>11 DEF IInv

\* Of a screenshot a publication only forgets.
LEMMA RepublishedKeeps ==
  ASSUME IInv, shot' \in {shot, Republished}
  PROVE  /\ shot' \in Shot /\ shot'.stage = shot.stage
         /\ shot.stage = None => shot' = shot
  BY DEF IInv, HoldInv, Republished, Pinned, Shot, None

\* The end of an action: the page it was on stays, unless its close waited.
LEMMA EndKeeps ==
  ASSUME IInv, NEW p \in Contexts, active = p, Released(p), UNCHANGED <<sessionVars, access, used>>,
         shot' \in {shot, Republished},
         NEW open \in SUBSET registry, Python \in registry => Python \in open,
         NEW f \in [Contexts -> Page], Pages(Left(p, open), f),
         \A q \in Contexts : Accounted(f[q], FALSE),
         opener' \in [Dialogs -> Viewers \cup {None}],
         \A q \in open : Private(f[q], opener'),
         \A q \in closes : f[q].viewer # None,
         Own(f[Python], opener')
  PROVE  IInv' /\ Counts(f)
<1> USE DEF sessionVars, Released
<1> DEFINE left == Left(p, open)
<1>1. p \in Tabs /\ p # Python /\ p # Nobody /\ phase \notin {"new", "starting"} /\ closes \subseteq Contexts
  BY Distinguished DEF IInv, HoldInv, PhaseInv, OpenInv, Contexts
<1>2. left \in SUBSET open /\ left \in SUBSET registry /\ left \in SUBSET Contexts
      /\ (Python \in registry => Python \in left)
  BY <1>1 DEF Left, IInv, OpenInv
<1>3. PagesInv' /\ registry' = left /\ aged' \subseteq Tabs /\ Counts(f)
  <2>1. \A q \in Contexts : Accounted(f[q], active' = q)
    BY Distinguished DEF Accounted
  <2>2. Settled(left, f, {})
    BY DEF Pages
  <2>3. \A q \in left : Private(f[q], opener')
    BY <1>2
  <2>4. \A q \in closes' : q \in Contexts /\ f[q].viewer # None
    BY <1>1
  <2> HIDE DEF left
  <2> QED
    BY <1>2, <2>1, <2>2, <2>3, <2>4, SettledKeeps
<1>4. OpenInv'
  <2>1. IsFiniteSet(left) /\ Cardinality(left \cap Tabs) <= MaxPages
    BY <1>2, FewerOpen
  <2> HIDE DEF left
  <2>2. closes' \subseteq Tabs /\ closes' \cap left = {}
    BY <1>2 DEF IInv, OpenInv
  <2> QED
    BY <1>2, <1>3, <2>1, <2>2 DEF OpenInv
<1>5. /\ shot' \in Shot /\ shot'.stage = shot.stage
      /\ shot.stage = None => shot' = shot
  BY RepublishedKeeps
<1>6. HoldInv'
  BY <1>1, <1>5 DEF IInv, HoldInv, Nobody
<1>7. PhaseInv'
  BY <1>1, <1>2, <1>3, <1>5 DEF IInv, PhaseInv, NoShot
<1> QED
  BY <1>3, <1>4, <1>6, <1>7 DEF IInv

\* A page that is published shows nothing of another, whatever it was before.
LEMMA PublishedPrivate ==
  ASSUME NEW g \in Page, NEW f, g.viewer \in Viewers, g.by \subseteq {g.viewer},
         g.modal # None => f[g.modal] = g.viewer
  PROVE  Private(Published(g), f) /\ (g.viewer = First => Own(Published(g), f))
<1>1. /\ Published(g).viewer = g.viewer
      /\ Published(g).by \subseteq g.by
      /\ Published(g).modal \in {g.modal, None}
      /\ Published(g).status = "access_denied" => Published(g).modal = None
  BY DEF Published, Denied, Redacted, Page
<1> QED
  BY <1>1 DEF Private, Own, Discreet

\* The receipt of an action that ends.
LEMMA EndedKeeps ==
  ASSUME IInv, NEW p \in Contexts, active = p, NEW end \in Errors \cup {"settled"}
  PROVE  /\ Ended(p, end) \in Page /\ Accounted(Ended(p, end), FALSE)
         /\ Ended(p, end).viewer = page[p].viewer /\ page[p].viewer # None
         /\ Ended(p, end).modal = page[p].modal
         /\ Ended(p, end).last = page[p].last /\ page[p].last # 0
         /\ Ended(p, end).latest = [kind |-> None, end |-> end, sent |-> page[p].latest.sent,
                                    did |-> page[p].latest.did]
         /\ \A f : Private(page[p], f) => Private(Ended(p, end), f)
<1>1. page[p] \in Page /\ Accounted(page[p], active = p)
  BY DEF IInv, PagesInv
<1>2. page[p].latest.kind # None /\ page[p].latest \in Act /\ Honest(page[p].latest)
  BY <1>1 DEF Accounted, Page
<1>3. page[p].last # 0 /\ page[p].viewer # None
  BY <1>1, <1>2 DEF Accounted, NoAction
<1>4. page[p].last \in 1 .. MaxSequence /\ page[p].latest.sent \in BOOLEAN /\ page[p].latest.did \in BOOLEAN
  BY <1>1, <1>2, <1>3, Distinguished DEF Page, Act
<1> DEFINE a == [kind |-> None, end |-> end, sent |-> page[p].latest.sent, did |-> page[p].latest.did]
<1>5. a \in Act /\ a.kind = None /\ a.end # None /\ Honest(a)
  BY <1>2, <1>4 DEF Act, Errors, None, Honest
<1>6. Ended(p, end) = Given(page[p], page[p].last, a)
  BY DEF Ended, Receipt, Given
<1>7. page[p] \in Page
  BY <1>1
<1> HIDE DEF a
<1>8. ASSUME NEW seq \in 1 .. MaxSequence
      PROVE  /\ Given(page[p], seq, a) \in Page /\ Accounted(Given(page[p], seq, a), FALSE)
             /\ Given(page[p], seq, a).viewer = page[p].viewer
             /\ Given(page[p], seq, a).modal = page[p].modal
             /\ Given(page[p], seq, a).last = seq /\ Given(page[p], seq, a).latest = a
             /\ \A f : Private(page[p], f) => Private(Given(page[p], seq, a), f)
  <2> DEFINE g == page[p]
  <2>1. g \in Page /\ g.viewer # None
    BY <1>3, <1>7
  <2> HIDE DEF g
  <2>2. /\ Given(g, seq, a) \in Page /\ Accounted(Given(g, seq, a), FALSE)
        /\ Given(g, seq, a).viewer = g.viewer /\ Given(g, seq, a).modal = g.modal
        /\ Given(g, seq, a).last = seq /\ Given(g, seq, a).latest = a
        /\ \A f : Private(g, f) => Private(Given(g, seq, a), f)
    BY ZenonT(60), <2>1, <1>5, GivenKeeps
  <2> QED
    BY <2>2 DEF g
<1>9. /\ Ended(p, end) \in Page /\ Accounted(Ended(p, end), FALSE)
      /\ Ended(p, end).viewer = page[p].viewer /\ Ended(p, end).modal = page[p].modal
      /\ Ended(p, end).last = page[p].last /\ Ended(p, end).latest = a
      /\ \A f : Private(page[p], f) => Private(Ended(p, end), f)
  BY <1>4, <1>6, <1>8
<1> QED
  BY <1>3, <1>9 DEF a

LEMMA ActionFailsKeeps ==
  ASSUME IInv, NEW p \in Contexts, ActionFails(p)
  PROVE  IInv' /\ \E end \in Errors \cup {"settled"} :
           Spends(p, page[p].last, [kind |-> None, end |-> end, sent |-> page[p].latest.sent,
                                    did |-> page[p].latest.did])
<1> USE DEF dialogVars
<1>1. PICK end \in Errors :
        Pages(Left(p, registry), [page EXCEPT ![p] = [Ended(p, end) EXCEPT !.status = "stale"]])
  BY DEF ActionFails, Errors
<1> DEFINE g == [Ended(p, end) EXCEPT !.status = "stale"]
           f == [page EXCEPT ![p] = g]
<1>2. active = p /\ Released(p) /\ UNCHANGED <<sessionVars, access, shot, used>> /\ opener' = opener
  BY DEF ActionFails, shotVars
<1>3. page \in [Contexts -> Page] /\ opener \in [Dialogs -> Viewers \cup {None}] /\ registry \in SUBSET registry
  BY DEF IInv, PagesInv
<1>4. /\ g \in Page /\ Accounted(g, FALSE) /\ g.viewer = page[p].viewer /\ page[p].viewer # None
      /\ (p \in registry => Private(g, opener))
      /\ g.last = page[p].last
      /\ g.latest = [kind |-> None, end |-> end, sent |-> page[p].latest.sent, did |-> page[p].latest.did]
  <2> DEFINE e == Ended(p, end)
  <2>1. e \in Page /\ Accounted(e, FALSE) /\ e.viewer = page[p].viewer /\ page[p].viewer # None
        /\ (p \in registry => Private(e, opener))
        /\ e.last = page[p].last
        /\ e.latest = [kind |-> None, end |-> end, sent |-> page[p].latest.sent, did |-> page[p].latest.did]
    BY ZenonT(60), <1>2, EndedKeeps DEF IInv, PagesInv
  <2> HIDE DEF e
  <2>2. LET h == [e EXCEPT !.status = "stale"] IN
          /\ h \in Page /\ h.viewer = e.viewer /\ h.last = e.last /\ h.latest = e.latest
          /\ h.by = e.by /\ h.modal = e.modal /\ h.status = "stale"
    BY <2>1 DEF Page
  <2>3. LET h == [e EXCEPT !.status = "stale"] IN
          /\ h \in Page /\ Accounted(h, FALSE) /\ h.viewer = e.viewer
          /\ h.last = e.last /\ h.latest = e.latest
          /\ p \in registry => Private(h, opener)
    BY <2>1, <2>2 DEF Accounted, Private, Discreet
  <2> QED
    BY <2>1, <2>3 DEF e
<1> HIDE DEF g
<1>5. f \in [Contexts -> Page] /\ \A q \in Contexts : f[q] = IF q = p THEN g ELSE page[q]
  BY <1>3, <1>4
<1>6. \A q \in Contexts : Accounted(f[q], FALSE) /\ (page[q].viewer # None => f[q].viewer # None)
  BY <1>2, <1>4, <1>5 DEF IInv, PagesInv, Accounted
<1>7. closes \subseteq Contexts /\ registry \subseteq Contexts
  BY DEF IInv, OpenInv, Contexts
<1>8. \A q \in registry : Private(f[q], opener')
  BY <1>2, <1>4, <1>5, <1>7 DEF IInv, PagesInv
<1>9. \A q \in closes : f[q].viewer # None
  BY <1>6, <1>7 DEF IInv, PagesInv
<1>10. Own(f[Python], opener')
  BY <1>2, <1>5, Distinguished DEF IInv, PagesInv, HoldInv, Contexts
<1>11. Pages(Left(p, registry), f)
  BY <1>1 DEF g
<1> HIDE DEF f
<1>12. IInv' /\ Counts(f)
  BY <1>2, <1>3, <1>5, <1>6, <1>8, <1>9, <1>10, <1>11, EndKeeps
<1> QED
  BY <1>4, <1>5, <1>12 DEF Counts, Spends

LEMMA ActionSettlesKeeps ==
  ASSUME IInv, NEW p \in Contexts, ActionSettles(p)
  PROVE  IInv' /\ \E end \in Errors \cup {"settled"} :
           Spends(p, page[p].last, [kind |-> None, end |-> end, sent |-> page[p].latest.sent,
                                    did |-> page[p].latest.did])
<1> USE DEF shotVars
<1> DEFINE kind == page[p].latest.kind
           open == Kept({p})
           base(end, d) == IF kind = "modal" \/ d # None THEN [Ended(p, end) EXCEPT !.modal = d]
                                                         ELSE Ended(p, end)
<1>1. PICK end \in {"settled", "failed"}, d \in Dialogs \cup {None} :
        /\ Answered(p, Ended(p, end), d)
        /\ Pages(Left(p, open),
                 [q \in Contexts |-> IF q \in Concerned(p, kind)
                                    THEN Published([page EXCEPT ![p] = base(end, d)][q])
                                    ELSE [page EXCEPT ![p] = base(end, d)][q]])
  BY DEF ActionSettles
<1> DEFINE g == base(end, d)
           f == [q \in Contexts |-> IF q \in Concerned(p, kind) THEN Published([page EXCEPT ![p] = g][q])
                                                               ELSE [page EXCEPT ![p] = g][q]]
<1>2. active = p /\ ~cancelling /\ Released(p) /\ UNCHANGED <<sessionVars, access, used>>
      /\ shot' \in {shot, Republished}
  BY <1>1 DEF ActionSettles, Answered
<1>3. page \in [Contexts -> Page] /\ opener \in [Dialogs -> Viewers \cup {None}]
      /\ closes \subseteq Contexts /\ registry \subseteq Contexts
  BY DEF IInv, PagesInv, OpenInv, Contexts
<1>4. open \in SUBSET registry /\ (Python \in registry => Python \in open)
  BY KeptOpen
<1>5. p \in registry /\ page[p].viewer \in Viewers /\ Private(page[p], opener) /\ p # Python
  <2>1. phase \in {"active", "closing"} /\ active # Nobody /\ p \in Tabs
    BY <1>2, Distinguished DEF IInv, PhaseInv, HoldInv
  <2> QED
    BY <1>2, <2>1, Distinguished DEF IInv, OpenInv, PagesInv, Private
<1>6. /\ Ended(p, end) \in Page /\ Accounted(Ended(p, end), FALSE)
      /\ Ended(p, end).viewer = page[p].viewer /\ Ended(p, end).modal = page[p].modal
      /\ Private(Ended(p, end), opener)
      /\ Ended(p, end).last = page[p].last
      /\ Ended(p, end).latest = [kind |-> None, end |-> end, sent |-> page[p].latest.sent, did |-> page[p].latest.did]
  BY <1>1, <1>2, <1>5, EndedKeeps DEF Errors
<1>7. opener' = IF d = None THEN opener ELSE [opener EXCEPT ![d] = page[p].viewer]
  BY <1>1, <1>6 DEF Answered
<1>8. d # None => kind \in {"control", "command"} /\ opener[d] = None /\ p \in Concerned(p, kind)
  BY <1>1 DEF Answered, Concerned
<1>9. /\ opener' \in [Dialogs -> Viewers \cup {None}]
      /\ \A x \in Dialogs : opener[x] # None => opener'[x] = opener[x]
      /\ (d # None => opener'[d] = page[p].viewer)
  BY <1>3, <1>5, <1>7, <1>8
<1>10. ASSUME NEW q \in Contexts
       PROVE  /\ Private(page[q], opener) => Private(page[q], opener')
              /\ Own(page[q], opener) => Own(page[q], opener')
  <2>1. page[q].modal \in Dialogs \cup {None} /\ page[q] \in Page
    BY <1>3 DEF Page
  <2>2. page[q].modal # None /\ opener[page[q].modal] = page[q].viewer
        /\ page[q].viewer # None => opener'[page[q].modal] = page[q].viewer
    BY <1>9, <2>1
  <2> QED
    BY <2>2, Distinguished DEF Private, Own, Discreet
<1>11. /\ g \in Page /\ Accounted(g, FALSE) /\ g.viewer = page[p].viewer
       /\ g.by \subseteq {g.viewer} /\ (g.modal # None => opener'[g.modal] = g.viewer)
       /\ (d = None => Private(g, opener'))
       /\ g.last = page[p].last /\ g.latest = Ended(p, end).latest
  <2> DEFINE e == Ended(p, end)
  <2>1. e.modal # None => e.modal \in Dialogs
    BY <1>6 DEF Page
  <2>2. Private(e, opener')
    BY <1>6, <1>9, <2>1, Distinguished DEF Private, Discreet
  <2>3. CASE g = e
    BY <1>6, <2>2, <2>3 DEF Private, Discreet
  <2>4. CASE g = [e EXCEPT !.modal = d]
    <3> HIDE DEF e
    <3>1. LET h == [e EXCEPT !.modal = d] IN
            /\ h \in Page /\ h.viewer = e.viewer /\ h.last = e.last /\ h.latest = e.latest
            /\ h.by = e.by /\ h.modal = d /\ h.status = e.status
      BY <1>6 DEF Page, e
    <3>2. /\ e.viewer = page[p].viewer /\ Accounted(e, FALSE) /\ e.last = page[p].last
          /\ e.latest = Ended(p, end).latest
          /\ e.viewer \in Viewers /\ e.by \subseteq {e.viewer}
      BY <1>6, <2>2 DEF Private, Discreet, e
    <3> HIDE DEF g
    <3>3. /\ g \in Page /\ g.viewer = page[p].viewer /\ g.by \subseteq {g.viewer}
          /\ g.viewer \in Viewers /\ g.modal = d /\ g.last = e.last /\ g.latest = e.latest
      BY <2>4, <3>1, <3>2
    <3>4. Accounted(g, FALSE)
      BY <3>2, <3>3, Distinguished DEF Accounted
    <3>5. g.modal # None => opener'[g.modal] = g.viewer
      BY <1>9, <3>3
    <3>7. g.status = e.status
      BY <2>4, <3>1
    <3>6. d = None => Private(g, opener')
      BY <3>3, <3>5, <3>7 DEF Private, Discreet
    <3> QED
      BY <3>2, <3>3, <3>4, <3>5, <3>6
  <2> QED
    BY <2>3, <2>4
<1> HIDE DEF g
<1>12. ASSUME NEW q \in Contexts
       PROVE  [page EXCEPT ![p] = g][q] = IF q = p THEN g ELSE page[q]
  BY <1>3
<1>13. ASSUME NEW q \in Contexts
       PROVE  /\ f[q] \in Page /\ f[q].viewer = page[q].viewer /\ Accounted(f[q], FALSE)
              /\ q \in open => Private(f[q], opener')
              /\ q = Python => Own(f[q], opener')
              /\ f[q].last = page[q].last
              /\ f[q].latest = IF q = p THEN Ended(p, end).latest ELSE page[q].latest
  <2>1. CASE q = p
    <3>1. f[q] = IF p \in Concerned(p, kind) THEN Published(g) ELSE g
      BY <1>12, <2>1
    <3>2. Published(g) \in Page /\ Published(g).viewer = g.viewer /\ Accounted(Published(g), FALSE)
          /\ Private(Published(g), opener')
          /\ Published(g).last = g.last /\ Published(g).latest = g.latest
      BY <1>5, <1>11, PublishedKeeps, PublishedPrivate
    <3> QED
      BY <1>5, <1>8, <1>11, <2>1, <3>1, <3>2
  <2>2. CASE q # p
    <3>1. f[q] = IF q \in Concerned(p, kind) THEN Published(page[q]) ELSE page[q]
      BY <1>12, <2>2
    <3>2. page[q] \in Page /\ Accounted(page[q], FALSE) /\ (q \in open => Private(page[q], opener'))
          /\ (q = Python => Own(page[q], opener'))
      BY <1>2, <1>4, <1>10, <2>2 DEF IInv, PagesInv, Accounted
    <3>3. Published(page[q]) \in Page /\ Published(page[q]).viewer = page[q].viewer
          /\ Accounted(Published(page[q]), FALSE) /\ (q \in open => Private(Published(page[q]), opener'))
          /\ (q = Python => Own(Published(page[q]), opener'))
          /\ Published(page[q]).last = page[q].last /\ Published(page[q]).latest = page[q].latest
      BY <3>2, PublishedKeeps
    <3> QED
      BY <2>2, <3>1, <3>2, <3>3
  <2> QED
    BY <2>1, <2>2
<1>14. f \in [Contexts -> Page]
  BY <1>13
<1>15. Pages(Left(p, open), f)
  BY <1>1 DEF g
<1> HIDE DEF f, open
<1>16. \A q \in open : Private(f[q], opener')
  BY <1>3, <1>4, <1>13
<1>17. \A q \in closes : f[q].viewer # None
  BY <1>3, <1>13 DEF IInv, PagesInv
<1>18. Own(f[Python], opener')
  BY <1>13 DEF Contexts
<1>19. IInv' /\ Counts(f)
  BY <1>2, <1>4, <1>9, <1>13, <1>14, <1>15, <1>16, <1>17, <1>18, EndKeeps
<1> QED
  <2>1. Spends(p, page[p].last, Ended(p, end).latest)
    BY <1>13, <1>19 DEF Counts, Spends
  <2>2. end \in Errors \cup {"settled"}
    BY <1>1 DEF Errors
  <2> QED
    BY <1>6, <1>19, <2>1, <2>2, Zenon

LEMMA ShowKeeps ==
  ASSUME IInv, Show
  PROVE  IInv' /\ Counts(page)
<1> USE DEF sessionVars, actionVars, dialogVars, shotVars
<1>1. PICK d \in {None} \cup {x \in Dialogs : opener[x] = First} :
        Publish(Python, [page[Python] EXCEPT !.modal = d])
  BY DEF Show
<1> DEFINE open == Kept({Python})
           g == [page[Python] EXCEPT !.modal = d]
<1>2. /\ open \in SUBSET registry /\ (Python \in registry => Python \in open)
      /\ (active \in registry => active \in open)
  BY KeptOpen
<1>3. Python \in registry /\ Python \in Contexts
  BY DEF Show, IInv, PhaseInv, Contexts
<1>4. page[Python] \in Page /\ Accounted(page[Python], active = Python)
      /\ Private(page[Python], opener) /\ page[Python].viewer = First
  BY <1>3, Distinguished DEF IInv, PagesInv, Private, Own
<1>5. /\ g \in Page /\ g.viewer = page[Python].viewer /\ g.last = page[Python].last
      /\ g.latest = page[Python].latest /\ g.by = page[Python].by /\ g.modal = d
  BY <1>4 DEF Page
<1> HIDE DEF g
<1>6. Published(g) \in Page /\ Published(g).viewer = g.viewer /\ Published(g).last = g.last
      /\ Published(g).latest = g.latest /\ Private(Published(g), opener) /\ Own(Published(g), opener)
  BY <1>4, <1>5, PublishedKeeps, PublishedPrivate, Distinguished DEF Private, Discreet
<1>7. Accounted(Published(g), active = Python)
  BY <1>4, <1>5, <1>6 DEF Accounted
<1>8. Rewrites([page EXCEPT ![Python] = Published(g)], open)
  <2> HIDE DEF open
  <2> QED
    BY <1>2, <1>3, <1>4, <1>5, <1>6, <1>7, OneRewrites, Distinguished
<1>9. Settled(open, [page EXCEPT ![Python] = Published(g)], {Python})
  BY <1>1 DEF Publish, g
<1>10. phase \notin {"new", "starting"} /\ Steady /\ UNCHANGED <<closes, holder, used>>
  BY DEF Show, Steady
<1> HIDE DEF open
<1>11. IInv' /\ Counts([page EXCEPT ![Python] = Published(g)])
  BY <1>2, <1>8, <1>9, <1>10, ShrinkSteady
<1> QED
  BY <1>5, <1>6, <1>11 DEF Counts, IInv, PagesInv

\* EndVerb and Pin leave the pages, publish Python's, or publish every one.
LEMMA PublishSteps ==
  ASSUME IInv, phase \notin {"new", "starting"}, UNCHANGED <<phase, active, opener, closes>>,
         \/ Pages(registry, page)
         \/ PublishEach(page)
         \/ Publish(Python, page[Python])
  PROVE  PagesInv' /\ OpenInv' /\ (Python \in registry => Python \in registry')
         /\ registry' \subseteq registry /\ Counts(page)
<1>1. closes' \subseteq Tabs /\ \A q \in closes' : page[q].viewer # None
  BY DEF IInv, PagesInv, OpenInv
<1>2. ASSUME NEW open \in SUBSET registry
      PROVE  closes' \cap open \subseteq {active}
  BY DEF IInv, OpenInv
<1>3. CASE Pages(registry, page)
  <2>1. Settled(registry, page, {}) /\ registry \in SUBSET registry
    BY <1>3 DEF Pages
  <2> QED
    BY <1>1, <1>2, <2>1, SameRewrites, ShrinkKeeps
<1>4. CASE PublishEach(page)
  <2> DEFINE open == Kept({})
             f == [p \in Contexts |-> IF p \in open THEN Published(page[p]) ELSE page[p]]
  <2>1. /\ open \in SUBSET registry /\ (Python \in registry => Python \in open)
        /\ (active \in registry => active \in open)
    BY KeptOpen
  <2>2. Settled(open, f, {})
    BY <1>4 DEF PublishEach, Pages
  <2>3. Rewrites(f, open)
    BY <2>1, EachRewrites
  <2>4. \A p \in Contexts : f[p].last = page[p].last /\ f[p].latest = page[p].latest
    BY PublishedKeeps DEF IInv, PagesInv
  <2> HIDE DEF f, open
  <2>5. PagesInv' /\ OpenInv' /\ registry' = open /\ Counts(f)
    BY <1>1, <1>2, <2>1, <2>2, <2>3, ShrinkKeeps
  <2> QED
    BY <2>1, <2>4, <2>5 DEF Counts
<1>5. CASE Publish(Python, page[Python])
  <2> DEFINE open == Kept({Python})
             f == [page EXCEPT ![Python] = Published(page[Python])]
  <2>1. /\ open \in SUBSET registry /\ (Python \in registry => Python \in open)
        /\ (active \in registry => active \in open)
    BY KeptOpen
  <2>2. Settled(open, f, {Python})
    BY <1>5 DEF Publish
  <2>3. page[Python] \in Page /\ Accounted(page[Python], active = Python) /\ Python \in Contexts
        /\ Own(page[Python], opener) /\ (Python \in open => Private(page[Python], opener))
    BY <2>1 DEF IInv, PagesInv, Contexts
  <2>4. Rewrites(f, open)
    BY <2>1, <2>3, PublishRewrites
  <2>5. \A p \in Contexts : f[p].last = page[p].last /\ f[p].latest = page[p].latest
    BY <2>3, PublishedKeeps DEF IInv, PagesInv
  <2> HIDE DEF f, open
  <2>6. PagesInv' /\ OpenInv' /\ registry' = open /\ Counts(f)
    BY <1>1, <1>2, <2>1, <2>2, <2>4, ShrinkKeeps
  <2> QED
    BY <2>1, <2>5, <2>6 DEF Counts
<1> QED
  BY <1>3, <1>4, <1>5

LEMMA EndVerbKeeps ==
  ASSUME IInv, EndVerb
  PROVE  IInv' /\ Counts(page)
<1> USE DEF sessionVars, actionVars, dialogVars
<1>1. phase \notin {"new", "starting"}
  BY DEF EndVerb, IInv, PhaseInv, Nobody
<1>2. PagesInv' /\ OpenInv' /\ (Python \in registry => Python \in registry') /\ registry' \subseteq registry
      /\ Counts(page)
  BY <1>1, PublishSteps DEF EndVerb
<1>3. /\ shot' \in Shot /\ shot'.stage = shot.stage
      /\ shot.stage = None => shot' = shot
  BY RepublishedKeeps DEF EndVerb
<1>4. HoldInv'
  BY <1>3 DEF EndVerb, IInv, HoldInv, Nobody
<1>5. PhaseInv'
  BY <1>1, <1>2, <1>3 DEF EndVerb, IInv, PhaseInv, NoShot
<1> QED
  BY <1>2, <1>4, <1>5 DEF IInv

LEMMA PinKeeps ==
  ASSUME IInv, NEW v \in Viewers, Pin(v)
  PROVE  IInv' /\ Counts(page)
<1> USE DEF sessionVars, actionVars, dialogVars, shotVars
<1>1. PagesInv' /\ OpenInv' /\ (Python \in registry => Python \in registry') /\ Counts(page)
  BY PublishSteps DEF Pin
<1>2. shot' \in Shot /\ (shot'.stage = None => shot' = NoShot) /\ shot'.stage # "settle"
  BY DEF Pin, NoShot, Shot, None
<1>3. HoldInv'
  BY <1>2 DEF Pin, IInv, HoldInv, Nobody
<1>4. PhaseInv'
  BY <1>1 DEF Pin, IInv, PhaseInv, None
<1> QED
  BY <1>1, <1>3, <1>4 DEF IInv

-----------------------------------------------------------------------------
LEMMA InitHolds == Init => IInv
<1> SUFFICES ASSUME Init PROVE IInv
  OBVIOUS
<1>1. NewPage(None, None) \in Page /\ Accounted(NewPage(None, None), FALSE)
  BY NewAccounted DEF Accounted
<1>2. PagesInv
  <2>1. \A p \in Contexts : Accounted(page[p], active = p)
    BY <1>1, Distinguished DEF Init, Accounted
  <2>2. Own(page[Python], opener)
    BY DEF Init, Own, Discreet, NewPage, None, Contexts
  <2> QED
    BY <1>1, <2>1, <2>2 DEF Init, PagesInv
<1>3. PhaseInv
  BY DEF Init, PhaseInv, NewPage, None, Contexts
<1>4. HoldInv
  BY DEF Init, HoldInv, NoShot, Shot, None, Nobody
<1>5. OpenInv
  <2>1. IsFiniteSet({}) /\ Cardinality({} \cap Tabs) = 0
    BY FS_EmptySet, {} \cap Tabs = {}
  <2> QED
    BY <2>1, Distinguished DEF Init, OpenInv
<1> QED
  BY <1>2, <1>3, <1>4, <1>5 DEF IInv

LEMMA NextKeeps == IInv /\ [Next]_vars => IInv'
<1> SUFFICES ASSUME IInv, [Next]_vars PROVE IInv'
  OBVIOUS
<1>1. CASE \/ Enter \/ EntryFails \/ BeginClose \/ CaptureEnded \/ ServerClosed
           \/ (\E verb \in {"refresh", "snapshot"} : BeginVerb(verb))
           \/ BeginShot \/ Render \/ Install \/ ShotFails \/ World
  BY <1>1, QuietKeeps
<1>2. CASE Started \/ Cleared \/ Show \/ EndVerb
  BY <1>2, StartedKeeps, ClearedKeeps, ShowKeeps, EndVerbKeeps
<1>3. CASE \E p \in Tabs, v \in Viewers : OpenPage(p, v)
  BY <1>3, OpenPageKeeps
<1>4. CASE \E p \in Tabs : ClosePage(p) \/ Age(p)
  BY <1>4, ClosePageKeeps, AgeKeeps
<1>5. CASE \E p \in Contexts : ReadState(p) \/ ActionSettles(p) \/ ActionFails(p)
  BY <1>5, ReadStateKeeps, ActionSettlesKeeps, ActionFailsKeeps
<1>6. CASE \E p \in Tabs, seq \in Sequences, kind \in Instant : ActAtOnce(p, seq, kind)
  BY <1>6, ActAtOnceKeeps
<1>7. CASE \E p \in Tabs, seq \in Sequences, kind \in Awaiting :
             BeginAction(p, seq, kind) \/ RefusedAction(p, seq, kind)
  BY <1>7, BeginActionKeeps, RefusedActionKeeps
<1>8. CASE \E v \in Viewers : Pin(v)
  BY <1>8, PinKeeps
<1>9. CASE UNCHANGED vars
  BY <1>9 DEF vars, sessionVars, pageVars, actionVars, dialogVars, shotVars, IInv, PagesInv,
     PhaseInv, HoldInv, OpenInv
<1> QED
  BY <1>1, <1>2, <1>3, <1>4, <1>5, <1>6, <1>7, <1>8, <1>9 DEF Next

THEOREM Invariance == Spec => []IInv
  BY InitHolds, NextKeeps, PTL DEF Spec

-----------------------------------------------------------------------------
(* The properties *)

\* The session is never wedged, its receipts are honest, and what a page holds
\* is its viewer's, in every reachable state.
THEOREM SessionIsSound == Spec => []SessionSound
<1>1. IInv => SessionSound
  <2> SUFFICES ASSUME IInv PROVE SessionSound
    OBVIOUS
  <2>1. TypeOK
    BY DEF TypeOK, IInv, PagesInv, PhaseInv, HoldInv, OpenInv, Private, Accounted, Page
  <2>2. NotWedged
    BY <2>1 DEF NotWedged, IInv, PagesInv, PhaseInv, HoldInv, OpenInv, Accounted, Running
  <2>3. HonestReceipts
    BY DEF HonestReceipts, IInv, PagesInv, Accounted, Honest, Uncertain
  <2>4. PagesPrivate
    BY DEF PagesPrivate, IInv, PagesInv, Private, Own, Discreet
  <2> QED
    BY <2>2, <2>3, <2>4 DEF SessionSound
<1> QED
  BY <1>1, Invariance, PTL

-----------------------------------------------------------------------------
(* The pages keep the promise of Ledger *)

\* A step that leaves the accounts and the running action is no step of Ledger.
LEMMA CountsStutters ==
  ASSUME Counts(page), active' = active
  PROVE  UNCHANGED Account!vars
  BY DEF Counts, Account!vars, Outcome, Running

\* What Ledger counts, and what it says of each page.
Spent    == [q \in Contexts |-> page[q].last]
Outcomes == [q \in Contexts |-> Outcome(page[q])]

LEMMA SpendsAccount ==
  ASSUME NEW p \in Contexts, NEW n \in Nat \ {0}, NEW a, Spends(p, n, a)
  PROVE  /\ Spent' = [Spent EXCEPT ![p] = n]
         /\ Outcomes' = [Outcomes EXCEPT ![p] = IF a.kind # None THEN "pending" ELSE <<a.end, a.sent, a.did>>]
  BY DEF Spends, Outcome, Spent, Outcomes, Running

LEMMA ReportsOf ==
  ASSUME NEW a \in Act, a.end # None
  PROVE  <<a.end, a.sent, a.did>> \in Reports
  BY DEF Act, Reports

\* A number that is spent on an action that runs, or on one that is over.
LEMMA SpendsAdmits ==
  ASSUME NEW p \in Contexts, page[p] \in Page, NEW a \in Act, Spends(p, page[p].last + 1, a),
         active = Nobody, a.kind # None => active' = p,
         a.kind = None => active' = Nobody /\ a.end # None
  PROVE  Account!Admit(p)
<1> DEFINE n == page[p].last + 1
<1>1. n \in Nat \ {0}
  BY Distinguished DEF Page
<1>2. /\ Spent' = [Spent EXCEPT ![p] = n]
      /\ Outcomes' = [Outcomes EXCEPT ![p] = IF a.kind # None THEN "pending" ELSE <<a.end, a.sent, a.did>>]
  <2> HIDE DEF n
  <2> QED
    BY <1>1, SpendsAccount DEF n
<1>3. Spent' = [Spent EXCEPT ![p] = Spent[p] + 1]
  BY <1>2 DEF Spent
<1>4. \/ active' = p /\ Outcomes' = [Outcomes EXCEPT ![p] = "pending"]
      \/ active' = Nobody /\ \E o \in Reports : Outcomes' = [Outcomes EXCEPT ![p] = o]
  BY <1>2, ReportsOf
<1> QED
  BY <1>3, <1>4 DEF Account!Admit, Spent, Outcomes

LEMMA SpendsSettles ==
  ASSUME NEW p \in Contexts, page[p] \in Page, page[p].last # 0, NEW a \in Act,
         Spends(p, page[p].last, a), active = p, active' = Nobody, a.kind = None, a.end # None
  PROVE  Account!Settle(p)
<1>1. page[p].last \in Nat \ {0}
  BY Distinguished DEF Page
<1>2. /\ Spent' = [Spent EXCEPT ![p] = page[p].last]
      /\ Outcomes' = [Outcomes EXCEPT ![p] = <<a.end, a.sent, a.did>>]
  BY <1>1, SpendsAccount
<1>3. \E o \in Reports : Outcomes' = [Outcomes EXCEPT ![p] = o]
  BY <1>2, ReportsOf
<1>4. UNCHANGED Spent
  BY <1>2 DEF Spent
<1> QED
  BY <1>3, <1>4 DEF Account!Settle, Spent, Outcomes

LEMMA StepsOfLedger == IInv /\ [Next]_vars => [Account!Next]_(Account!vars)
<1> SUFFICES ASSUME IInv, [Next]_vars PROVE [Account!Next]_(Account!vars)
  OBVIOUS
<1> USE DEF sessionVars, pageVars, actionVars, dialogVars, shotVars
<1>0. ASSUME NEW p \in Contexts
      PROVE  page[p] \in Page /\ (active = p => page[p].last # 0)
  BY DEF IInv, PagesInv, Accounted, NoAction
<1>1. CASE \/ Enter \/ EntryFails \/ BeginClose \/ CaptureEnded \/ ServerClosed
           \/ (\E verb \in {"refresh", "snapshot"} : BeginVerb(verb))
           \/ BeginShot \/ Render \/ Install \/ ShotFails \/ World
  <2>1. active' = active
    BY <1>1 DEF Enter, EntryFails, BeginClose, CaptureEnded, ServerClosed, BeginVerb, BeginShot, Render,
       Install, ShotFails, World
  <2> QED
    BY <1>1, <2>1, QuietKeeps, CountsStutters
<1>2. CASE Started \/ Cleared \/ Show \/ EndVerb
  <2>1. active' = active
    BY <1>2 DEF Started, Cleared, Show, EndVerb
  <2> QED
    BY <1>2, <2>1, StartedKeeps, ClearedKeeps, ShowKeeps, EndVerbKeeps, CountsStutters
<1>3. CASE \E p \in Tabs, v \in Viewers : OpenPage(p, v)
  <2>1. active' = active
    BY <1>3 DEF OpenPage
  <2> QED
    BY <1>3, <2>1, OpenPageKeeps, CountsStutters
<1>4. CASE \E p \in Tabs : ClosePage(p) \/ Age(p)
  <2>1. active' = active
    BY <1>4 DEF ClosePage, Age
  <2> QED
    BY <1>4, <2>1, ClosePageKeeps, AgeKeeps, CountsStutters
<1>5. CASE (\E p \in Contexts : ReadState(p)) \/ (\E v \in Viewers : Pin(v))
  <2>1. active' = active
    BY <1>5 DEF ReadState, Pin
  <2> QED
    BY <1>5, <2>1, ReadStateKeeps, PinKeeps, CountsStutters
<1>6. ASSUME NEW p \in Contexts, ActionSettles(p) \/ ActionFails(p)
      PROVE  Account!Next
  <2>1. active = p /\ active' = Nobody
    BY <1>6 DEF ActionSettles, ActionFails, Released
  <2>2. PICK end \in Errors \cup {"settled"} :
          Spends(p, page[p].last, [kind |-> None, end |-> end, sent |-> page[p].latest.sent,
                                   did |-> page[p].latest.did])
    BY <1>6, ActionSettlesKeeps, ActionFailsKeeps
  <2> DEFINE a == [kind |-> None, end |-> end, sent |-> page[p].latest.sent, did |-> page[p].latest.did]
  <2>3. a \in Act /\ a.kind = None /\ a.end # None
    BY <1>0, <1>6, Distinguished DEF Page, Act, None
  <2> HIDE DEF a
  <2>4. Account!Settle(p)
    BY <1>0, <2>1, <2>2, <2>3, SpendsSettles DEF a
  <2> QED
    BY <2>4 DEF Account!Next
<1>7. ASSUME NEW p \in Tabs, NEW seq \in Sequences, NEW kind \in Instant, ActAtOnce(p, seq, kind)
      PROVE  Account!Next
  <2>1. /\ p \in Contexts /\ active = Nobody /\ active' = Nobody /\ seq = page[p].last + 1
        /\ Undispatched("settled") \in Act
    BY <1>7 DEF ActAtOnce, Admissible, Contexts, Undispatched, Act
  <2>2. Spends(p, page[p].last + 1, Undispatched("settled"))
    BY <1>7, <2>1, ActAtOnceKeeps
  <2>3. Undispatched("settled").kind = None /\ Undispatched("settled").end # None
    BY DEF Undispatched, None
  <2>4. Account!Admit(p)
    BY <1>0, <2>1, <2>2, <2>3, SpendsAdmits
  <2> QED
    BY <2>1, <2>4 DEF Account!Next
<1>8. ASSUME NEW p \in Tabs, NEW seq \in Sequences, NEW kind \in Awaiting, RefusedAction(p, seq, kind)
      PROVE  Account!Next
  <2>1. /\ p \in Contexts /\ active = Nobody /\ active' = Nobody /\ seq = page[p].last + 1
        /\ Undispatched("failed") \in Act
    BY <1>8 DEF RefusedAction, Admissible, Contexts, Undispatched, Act, Errors
  <2>2. Spends(p, page[p].last + 1, Undispatched("failed"))
    BY <1>8, <2>1, RefusedActionKeeps
  <2>3. Undispatched("failed").kind = None /\ Undispatched("failed").end # None
    BY DEF Undispatched, None
  <2>4. Account!Admit(p)
    BY <1>0, <2>1, <2>2, <2>3, SpendsAdmits
  <2> QED
    BY <2>1, <2>4 DEF Account!Next
<1>9. ASSUME NEW p \in Tabs, NEW seq \in Sequences, NEW kind \in Awaiting, BeginAction(p, seq, kind)
      PROVE  Account!Next
  <2>1. p \in Contexts /\ active = Nobody /\ active' = p /\ seq = page[p].last + 1
    BY <1>9 DEF BeginAction, Admissible, Contexts
  <2>2. PICK a \in Act : a.kind # None /\ Spends(p, seq, a)
    BY <1>9, BeginActionKeeps
  <2>3. Account!Admit(p)
    BY <1>0, <2>1, <2>2, SpendsAdmits
  <2> QED
    BY <2>1, <2>3 DEF Account!Next
<1>10. CASE UNCHANGED vars
  BY <1>10 DEF vars, Account!vars, Running
<1> QED
  BY <1>1, <1>2, <1>3, <1>4, <1>5, <1>6, <1>7, <1>8, <1>9, <1>10 DEF Next

\* Every number is spent once, one action runs in the session, and an outcome
\* stays, whatever is redacted, closed or torn down between admission and end.
THEOREM PagesImplementLedger == Spec => ImplementsLedger
<1>1. Init => Account!Init
  BY DEF Init, Account!Init, NewPage, NoAction, Outcome
<1>2. IInv /\ [Next]_vars => [Account!Next]_(Account!vars)
  BY StepsOfLedger
<1> QED
  BY <1>1, <1>2, Invariance, PTL DEF Spec, Account!Spec, ImplementsLedger

-----------------------------------------------------------------------------
(* What a viewer reads of a page (Projections) *)

\* A view and its messages have the fields of a publication, its target is among its
\* messages, and what a message refers to is found again in the page's sources.
ShownOK(p) ==
  p = [names |-> p.names, reply |-> p.reply, refers |-> p.refers, thread |-> p.thread, actions |-> p.actions]
ViewOK(v) ==
  /\ v = [messages |-> v.messages, target |-> v.target, listed |-> v.listed, send |-> v.send, use |-> v.use]
  /\ v.messages = [m \in DOMAIN v.messages |-> v.messages[m]]
  /\ \A m \in DOMAIN v.messages : ShownOK(v.messages[m])
  /\ v.target \in DOMAIN v.messages \union {Nil}
  /\ v.send \in BOOLEAN /\ v.use \in BOOLEAN
SourcesKnown(pg) ==
  \A m \in DOMAIN pg.snap.messages :
    pg.snap.messages[m].refers # Nil =>
      m \in DOMAIN pg.sources /\ pg.sources[m] = pg.snap.messages[m].refers
PageFields ==
  {"target", "status", "snap", "pinned", "catalog", "referenced", "sources", "named", "receipt"}
PageShaped(pg) ==
  /\ pg = [k \in PageFields |-> pg[k]]
  /\ pg.target \in {m \in Messages : Place[m] = Home} \union {Nil}
PageOK(pg) ==
  /\ PageShaped(pg) /\ ViewOK(pg.snap) /\ SourcesKnown(pg)
  /\ pg.catalog = [usable |-> pg.catalog.usable, entries |-> pg.catalog.entries]
  /\ pg.catalog.usable \in BOOLEAN

\* What a fact is about.
LEMMA FactsOfView ==
  ASSUME NEW v, NEW f \in Facts(v)
  PROVE  \/ \E m \in DOMAIN v.messages :
              \/ f = <<"message", m>>
              \/ v.messages[m].reply # Nil /\ f = <<"message", v.messages[m].reply>>
              \/ v.messages[m].refers # Nil /\ f = <<"message", v.messages[m].refers>>
              \/ v.messages[m].thread # Nil /\ f = <<"thread", v.messages[m].thread>>
              \/ \E e \in v.messages[m].names : f = <<"entity", e>>
              \/ \E a \in v.messages[m].actions : f = <<a, m>>
         \/ v.target # Nil /\ f = <<"message", v.target>>
         \/ \E e \in v.listed : f = <<"entity", e>>
         \/ v.send /\ f = <<"send", Home>>
         \/ v.use /\ f = <<"use", Home>>
  <1> DEFINE shown == DOMAIN v.messages
             told == {v.messages[x].reply : x \in shown} \union {v.messages[x].refers : x \in shown}
             A == {<<"message", m>> : m \in shown \union ({v.target} \ {Nil})}
             B == {<<"message", m>> : m \in told \ {Nil}}
             C == {<<"thread", t>> : t \in {v.messages[x].thread : x \in shown} \ {Nil}}
             D == {<<"entity", e>> : e \in v.listed \union (UNION {v.messages[x].names : x \in shown})}
             E == UNION {{<<a, m>> : a \in v.messages[m].actions} : m \in shown}
             F == IF v.send THEN {<<"send", Home>>} ELSE {}
             G == IF v.use THEN {<<"use", Home>>} ELSE {}
  <1>1. Facts(v) = A \union B \union C \union D \union E \union F \union G
    BY DEF Facts
  <1>2. f \in A => (v.target # Nil /\ f = <<"message", v.target>>) \/ \E m \in shown : f = <<"message", m>>
    OBVIOUS
  <1>3. f \in B => \E m \in shown :
              \/ v.messages[m].reply # Nil /\ f = <<"message", v.messages[m].reply>>
              \/ v.messages[m].refers # Nil /\ f = <<"message", v.messages[m].refers>>
    OBVIOUS
  <1>4. f \in C => \E m \in shown : v.messages[m].thread # Nil /\ f = <<"thread", v.messages[m].thread>>
    OBVIOUS
  <1>5. f \in D => \/ \E e \in v.listed : f = <<"entity", e>>
                   \/ \E m \in shown : \E e \in v.messages[m].names : f = <<"entity", e>>
    OBVIOUS
  <1>6. f \in E => \E m \in shown : \E a \in v.messages[m].actions : f = <<a, m>>
    OBVIOUS
  <1>7. f \in F => v.send /\ f = <<"send", Home>>
    OBVIOUS
  <1>8. f \in G => v.use /\ f = <<"use", Home>>
    OBVIOUS
  <1> HIDE DEF A, B, C, D, E, F, G
  <1>9. f \in A \/ f \in B \/ f \in C \/ f \in D \/ f \in E \/ f \in F \/ f \in G
    BY <1>1
  <1> QED BY <1>2, <1>3, <1>4, <1>5, <1>6, <1>7, <1>8, <1>9

\* And every such fact is told.
LEMMA FactsTold ==
  ASSUME NEW v
  PROVE  /\ \A m \in DOMAIN v.messages :
              /\ <<"message", m>> \in Facts(v)
              /\ v.messages[m].reply # Nil => <<"message", v.messages[m].reply>> \in Facts(v)
              /\ v.messages[m].refers # Nil => <<"message", v.messages[m].refers>> \in Facts(v)
              /\ v.messages[m].thread # Nil => <<"thread", v.messages[m].thread>> \in Facts(v)
              /\ \A e \in v.messages[m].names : <<"entity", e>> \in Facts(v)
              /\ \A a \in v.messages[m].actions : <<a, m>> \in Facts(v)
         /\ v.target # Nil => <<"message", v.target>> \in Facts(v)
         /\ \A e \in v.listed : <<"entity", e>> \in Facts(v)
         /\ v.send => <<"send", Home>> \in Facts(v)
         /\ v.use => <<"use", Home>> \in Facts(v)
  <1> DEFINE shown == DOMAIN v.messages
             told == {v.messages[x].reply : x \in shown} \union {v.messages[x].refers : x \in shown}
             A == {<<"message", m>> : m \in shown \union ({v.target} \ {Nil})}
             B == {<<"message", m>> : m \in told \ {Nil}}
             C == {<<"thread", t>> : t \in {v.messages[x].thread : x \in shown} \ {Nil}}
             D == {<<"entity", e>> : e \in v.listed \union (UNION {v.messages[x].names : x \in shown})}
             E == UNION {{<<a, m>> : a \in v.messages[m].actions} : m \in shown}
             F == IF v.send THEN {<<"send", Home>>} ELSE {}
             G == IF v.use THEN {<<"use", Home>>} ELSE {}
  <1>1. Facts(v) = A \union B \union C \union D \union E \union F \union G
    BY DEF Facts
  <1>2. /\ \A m \in shown : <<"message", m>> \in A
        /\ v.target # Nil => <<"message", v.target>> \in A
    OBVIOUS
  <1>3. \A m \in shown :
          /\ v.messages[m].reply # Nil => <<"message", v.messages[m].reply>> \in B
          /\ v.messages[m].refers # Nil => <<"message", v.messages[m].refers>> \in B
    OBVIOUS
  <1>4. \A m \in shown : v.messages[m].thread # Nil => <<"thread", v.messages[m].thread>> \in C
    OBVIOUS
  <1>5. /\ \A e \in v.listed : <<"entity", e>> \in D
        /\ \A m \in shown : \A e \in v.messages[m].names : <<"entity", e>> \in D
    OBVIOUS
  <1>6. \A m \in shown : \A a \in v.messages[m].actions : <<a, m>> \in E
    OBVIOUS
  <1>7. (v.send => <<"send", Home>> \in F) /\ (v.use => <<"use", Home>> \in G)
    OBVIOUS
  <1> HIDE DEF A, B, C, D, E, F, G
  <1>8. \A f : f \in A \/ f \in B \/ f \in C \/ f \in D \/ f \in E \/ f \in F \/ f \in G => f \in Facts(v)
    BY <1>1
  <1> QED BY <1>2, <1>3, <1>4, <1>5, <1>6, <1>7, <1>8

\* Who may not read the channel is told nothing.
LEMMA DeniedTellsNothing == Facts(DeniedView) = {}
  <1>1. /\ DOMAIN DeniedView.messages = {} /\ DeniedView.target = Nil /\ DeniedView.listed = {}
        /\ DeniedView.send = FALSE /\ DeniedView.use = FALSE
    BY DEF DeniedView
  <1>2. \A f : f \notin Facts(DeniedView)
    BY <1>1, FactsOfView
  <1> QED BY <1>2

\* A fact holds when the viewer may see what it is about.
LEMMA FactsHold ==
  /\ \A m : Readable(m) => True(<<"message", m>>)
  /\ \A t : Accessible(t, TRUE) => True(<<"thread", t>>)
  /\ \A e : Mentionable(e) => True(<<"entity", e>>)
  /\ CanSend(Home) => True(<<"send", Home>>)
  /\ Usable => True(<<"use", Home>>)
  /\ \A m : \A a \in ActionsOn(m) : True(<<a, m>>)
  <1>1. \A m : Readable(m) => True(<<"message", m>>)
    BY DEF True
  <1>2. \A t : Accessible(t, TRUE) => True(<<"thread", t>>)
    BY DEF True
  <1>3. \A e : Mentionable(e) => True(<<"entity", e>>)
    BY DEF True
  <1>4. CanSend(Home) => True(<<"send", Home>>)
    BY DEF True
  <1>5. Usable => True(<<"use", Home>>)
    BY DEF True
  <1>6. ASSUME NEW m, NEW a \in ActionsOn(m) PROVE True(<<a, m>>)
    <2>1. a \in {"reply", "edit", "delete", "pin"}
      BY DEF ActionsOn
    <2> QED BY <2>1 DEF True
  <1> QED BY <1>1, <1>2, <1>3, <1>4, <1>5, <1>6

\* What a filtered view has, of the snapshot it filters.
LEMMA FilteredIs ==
  ASSUME NEW pg, ViewOK(pg.snap), SourcesKnown(pg)
  PROVE  LET v == Filtered(pg, pg.snap)
             s == pg.snap
         IN  /\ DOMAIN v.messages = StillReadable(s)
             /\ v.target # Nil => v.target = s.target /\ v.target \in StillReadable(s)
             /\ \A e \in v.listed : e \in s.listed /\ Mentionable(e)
             /\ v.send => s.send /\ CanSend(Home)
             /\ v.use => s.use /\ Usable
             /\ \A m \in StillReadable(s) :
                  LET q == v.messages[m]
                      p == s.messages[m]
                  IN  /\ q.reply # Nil => q.reply = p.reply /\ Readable(q.reply)
                      /\ q.refers # Nil => q.refers = p.refers /\ Readable(q.refers)
                      /\ q.thread # Nil => q.thread = p.thread /\ Accessible(q.thread, TRUE)
                      /\ \A e \in q.names : e \in p.names /\ Mentionable(e)
                      /\ \A a \in q.actions : a \in p.actions /\ a \in ActionsOn(m)
  <1> DEFINE v == Filtered(pg, pg.snap)
             s == pg.snap
  <1>1. /\ v.messages = [m \in StillReadable(s) |-> FilteredMessage(pg, m, s.messages[m])]
        /\ v.target = IF s.target \in StillReadable(s) THEN s.target ELSE Nil
        /\ v.listed = {e \in s.listed : Mentionable(e) /\ ~Orphaned(pg, s, e)}
        /\ v.send = (s.send /\ CanSend(Home))
        /\ v.use = (s.use /\ Authorized(pg).usable)
    BY DEF Filtered
  <1>2. Authorized(pg).usable => Usable
    BY DEF Authorized, Unavailable
  <1>3. ASSUME NEW m \in StillReadable(s)
        PROVE  LET q == v.messages[m]
                   p == s.messages[m]
               IN  /\ q.reply # Nil => q.reply = p.reply /\ Readable(q.reply)
                   /\ q.refers # Nil => q.refers = p.refers /\ Readable(q.refers)
                   /\ q.thread # Nil => q.thread = p.thread /\ Accessible(q.thread, TRUE)
                   /\ \A e \in q.names : e \in p.names /\ Mentionable(e)
                   /\ \A a \in q.actions : a \in p.actions /\ a \in ActionsOn(m)
    <2> DEFINE p == s.messages[m]
               q == v.messages[m]
    <2>1. q = FilteredMessage(pg, m, p)
      BY <1>1
    <2>2. /\ q.names = {e \in p.names : Mentionable(e)} /\ q.reply = IfReadable(p.reply)
          /\ q.refers = IF m \in DOMAIN pg.sources /\ ~Readable(pg.sources[m]) THEN Nil ELSE p.refers
          /\ q.thread = IfOpen(p.thread) /\ q.actions = p.actions \intersect ActionsOn(m)
      BY <2>1 DEF FilteredMessage
    <2>3. m \in DOMAIN s.messages
      BY DEF StillReadable
    <2>4. p.refers # Nil => m \in DOMAIN pg.sources /\ pg.sources[m] = p.refers
      BY <2>3 DEF SourcesKnown
    <2> HIDE DEF p, q
    <2>5. q.refers # Nil => q.refers = p.refers /\ Readable(q.refers)
      BY <2>2, <2>4
    <2>6. q.reply # Nil => q.reply = p.reply /\ Readable(q.reply)
      BY <2>2 DEF IfReadable
    <2>7. q.thread # Nil => q.thread = p.thread /\ Accessible(q.thread, TRUE)
      BY <2>2 DEF IfOpen
    <2>8. \A e \in q.names : e \in p.names /\ Mentionable(e)
      BY <2>2
    <2>9. \A a \in q.actions : a \in p.actions /\ a \in ActionsOn(m)
      BY <2>2
    <2> QED BY <2>5, <2>6, <2>7, <2>8, <2>9 DEF p, q
  <1>4. DOMAIN v.messages = StillReadable(s)
    BY <1>1
  <1> QED BY <1>1, <1>2, <1>3, <1>4

\* A read tells nothing that was taken away.
LEMMA ReadsRevokeNothing ==
  ASSUME PageOK(published)
  PROVE  NothingRevoked
  <1> DEFINE p == Payload(published)
             s == published.snap
  <1>1. CASE Accessible(Home, TRUE)
    <2> DEFINE v == Filtered(published, s)
    <2>1. p = [view |-> v, catalog |-> Authorized(published), receipt |-> FilteredReceipt(published.receipt)]
      BY <1>1 DEF Payload
    <2>2. /\ DOMAIN v.messages = StillReadable(s)
          /\ v.target # Nil => v.target = s.target /\ v.target \in StillReadable(s)
          /\ \A e \in v.listed : e \in s.listed /\ Mentionable(e)
          /\ v.send => s.send /\ CanSend(Home)
          /\ v.use => s.use /\ Usable
      BY FilteredIs DEF PageOK
    <2>3. \A m \in StillReadable(s) :
             LET q == v.messages[m] IN
             /\ q.reply # Nil => Readable(q.reply)
             /\ q.refers # Nil => Readable(q.refers)
             /\ q.thread # Nil => Accessible(q.thread, TRUE)
             /\ \A e \in q.names : Mentionable(e)
             /\ \A a \in q.actions : a \in ActionsOn(m)
      BY FilteredIs DEF PageOK
    <2>4. \A m \in StillReadable(s) : Readable(m)
      BY DEF StillReadable
    <2> HIDE DEF v, s
    <2>5. \A f \in Facts(v) : True(f)
      <3> SUFFICES ASSUME NEW f \in Facts(v) PROVE True(f)
        OBVIOUS
      <3>1. CASE \E m \in DOMAIN v.messages :
              \/ f = <<"message", m>>
              \/ v.messages[m].reply # Nil /\ f = <<"message", v.messages[m].reply>>
              \/ v.messages[m].refers # Nil /\ f = <<"message", v.messages[m].refers>>
              \/ v.messages[m].thread # Nil /\ f = <<"thread", v.messages[m].thread>>
              \/ \E e \in v.messages[m].names : f = <<"entity", e>>
              \/ \E a \in v.messages[m].actions : f = <<a, m>>
        <4>1. PICK m \in StillReadable(s) :
              \/ f = <<"message", m>>
              \/ v.messages[m].reply # Nil /\ f = <<"message", v.messages[m].reply>>
              \/ v.messages[m].refers # Nil /\ f = <<"message", v.messages[m].refers>>
              \/ v.messages[m].thread # Nil /\ f = <<"thread", v.messages[m].thread>>
              \/ \E e \in v.messages[m].names : f = <<"entity", e>>
              \/ \E a \in v.messages[m].actions : f = <<a, m>>
          BY <3>1, <2>2
        <4> QED BY <4>1, <2>3, <2>4, FactsHold
      <3>2. CASE v.target # Nil /\ f = <<"message", v.target>>
        BY <3>2, <2>2, <2>4, FactsHold
      <3>3. CASE \E e \in v.listed : f = <<"entity", e>>
        BY <3>3, <2>2, FactsHold
      <3>4. CASE v.send /\ f = <<"send", Home>>
        BY <3>4, <2>2, FactsHold
      <3>5. CASE v.use /\ f = <<"use", Home>>
        BY <3>5, <2>2, FactsHold
      <3> QED BY <3>1, <3>2, <3>3, <3>4, <3>5, FactsOfView
    <2>6. \A e \in Authorized(published).entries : Mentionable(e[1]) /\ schema[e[1]] = e[2]
      BY DEF Authorized, Unavailable
    <2>7. LET r == FilteredReceipt(published.receipt)
          IN  \A m \in r.outcomes \union ({r.target} \ {Nil}) : Readable(m)
      BY DEF FilteredReceipt
    <2> QED BY <2>1, <2>5, <2>6, <2>7 DEF NothingRevoked
  <1>2. CASE ~Accessible(Home, TRUE)
    <2>1. p = [view |-> DeniedView, catalog |-> Unavailable, receipt |-> NoReceipt]
      BY <1>2 DEF Payload
    <2>2. Facts(DeniedView) = {}
      BY DeniedTellsNothing
    <2> QED BY <2>1, <2>2 DEF NothingRevoked, Unavailable, NoReceipt
  <1> QED BY <1>1, <1>2

\* A read tells nothing the publication did not.
LEMMA ReadsGrantNothing ==
  ASSUME PageOK(published)
  PROVE  NothingGranted
  <1> DEFINE p == Payload(published)
             s == published.snap
  <1>1. CASE Accessible(Home, TRUE)
    <2> DEFINE v == Filtered(published, s)
    <2>1. p.view = v /\ p.catalog = Authorized(published)
      BY <1>1 DEF Payload
    <2>2. /\ DOMAIN v.messages = StillReadable(s)
          /\ v.target # Nil => v.target = s.target
          /\ \A e \in v.listed : e \in s.listed
          /\ v.send => s.send
          /\ v.use => s.use
      BY FilteredIs DEF PageOK
    <2>3. \A m \in StillReadable(s) :
             LET q == v.messages[m]
                 o == s.messages[m] IN
             /\ m \in DOMAIN s.messages
             /\ q.reply # Nil => q.reply = o.reply
             /\ q.refers # Nil => q.refers = o.refers
             /\ q.thread # Nil => q.thread = o.thread
             /\ \A e \in q.names : e \in o.names
             /\ \A a \in q.actions : a \in o.actions
      BY FilteredIs DEF PageOK, StillReadable
    <2> HIDE DEF v, s
    <2>4. ASSUME NEW f \in Facts(v) PROVE f \in Facts(s)
      <3>1. CASE \E m \in DOMAIN v.messages :
              \/ f = <<"message", m>>
              \/ v.messages[m].reply # Nil /\ f = <<"message", v.messages[m].reply>>
              \/ v.messages[m].refers # Nil /\ f = <<"message", v.messages[m].refers>>
              \/ v.messages[m].thread # Nil /\ f = <<"thread", v.messages[m].thread>>
              \/ \E e \in v.messages[m].names : f = <<"entity", e>>
              \/ \E a \in v.messages[m].actions : f = <<a, m>>
        <4>1. PICK m \in StillReadable(s) :
              \/ f = <<"message", m>>
              \/ v.messages[m].reply # Nil /\ f = <<"message", v.messages[m].reply>>
              \/ v.messages[m].refers # Nil /\ f = <<"message", v.messages[m].refers>>
              \/ v.messages[m].thread # Nil /\ f = <<"thread", v.messages[m].thread>>
              \/ \E e \in v.messages[m].names : f = <<"entity", e>>
              \/ \E a \in v.messages[m].actions : f = <<a, m>>
          BY <3>1, <2>2
        <4> DEFINE o == s.messages[m]
        <4>2. \/ f = <<"message", m>>
              \/ o.reply # Nil /\ f = <<"message", o.reply>>
              \/ o.refers # Nil /\ f = <<"message", o.refers>>
              \/ o.thread # Nil /\ f = <<"thread", o.thread>>
              \/ \E e \in o.names : f = <<"entity", e>>
              \/ \E a \in o.actions : f = <<a, m>>
          BY <4>1, <2>3
        <4>3. m \in DOMAIN s.messages
          BY <2>3
        <4> QED BY <4>2, <4>3, FactsTold
      <3>2. CASE v.target # Nil /\ f = <<"message", v.target>>
        BY <3>2, <2>2, FactsTold
      <3>3. CASE \E e \in v.listed : f = <<"entity", e>>
        BY <3>3, <2>2, FactsTold
      <3>4. CASE v.send /\ f = <<"send", Home>>
        BY <3>4, <2>2, FactsTold
      <3>5. CASE v.use /\ f = <<"use", Home>>
        BY <3>5, <2>2, FactsTold
      <3> QED BY <3>1, <3>2, <3>3, <3>4, <3>5, FactsOfView
    <2>5. Authorized(published).entries \subseteq published.catalog.entries
      BY DEF Authorized, Unavailable
    <2> QED BY <2>1, <2>4, <2>5 DEF NothingGranted, s
  <1>2. CASE ~Accessible(Home, TRUE)
    <2>1. p.view = DeniedView /\ p.catalog = Unavailable
      BY <1>2 DEF Payload
    <2>2. Facts(DeniedView) = {}
      BY DeniedTellsNothing
    <2> QED BY <2>1, <2>2 DEF NothingGranted, Unavailable
  <1> QED BY <1>1, <1>2

\* A capture that lost nothing may be read whole.
LEMMA CapturesReadable == CaptureReadable
  <1> SUFFICES ASSUME pin # Nil, PinLive(pin), NEW m \in DOMAIN pin.pinned.messages
               PROVE  LET p == pin.pinned.messages[m]
                      IN  /\ Readable(m) /\ (p.reply # Nil => Readable(p.reply))
                          /\ p.thread = IfOpen(p.thread) /\ (\A e \in p.names : Mentionable(e))
    BY DEF CaptureReadable
  <1>1. Readable(m) /\ ~Lost(pin, pin.pinned)
    BY DEF PinLive
  <1>2. ~LostMessage(pin, m, pin.pinned.messages[m])
    BY <1>1 DEF Lost
  <1> QED BY <1>1, <1>2 DEF LostMessage, IfOpen

\* What is not lost is there: the filter changes nothing.
LEMMA NoLossNoChange ==
  ASSUME PageOK(published)
  PROVE  LossTold
  <1> DEFINE pg == published
             s == published.snap
  <1> SUFFICES ASSUME Accessible(Home, TRUE), ~Lost(pg, s) PROVE Filtered(pg, s) = s
    BY DEF LossTold
  <1>1. /\ \A m \in DOMAIN s.messages : Readable(m) /\ ~LostMessage(pg, m, s.messages[m])
        /\ \A e \in s.listed : Mentionable(e) /\ ~Orphaned(pg, s, e)
        /\ s.send => CanSend(Home)
        /\ s.use => Authorized(pg).usable
    BY DEF Lost
  <1>2. StillReadable(s) = DOMAIN s.messages
    BY <1>1 DEF StillReadable
  <1>3. ASSUME NEW m \in DOMAIN s.messages PROVE FilteredMessage(pg, m, s.messages[m]) = s.messages[m]
    <2> DEFINE p == s.messages[m]
    <2>1. /\ \A e \in p.names : Mentionable(e)
          /\ p.reply # Nil => Readable(p.reply)
          /\ p.thread # Nil => Accessible(p.thread, TRUE)
          /\ m \in DOMAIN pg.sources => Readable(pg.sources[m])
          /\ p.actions \subseteq ActionsOn(m)
      BY <1>1 DEF LostMessage
    <2>2. ShownOK(p)
      BY DEF PageOK, ViewOK
    <2> HIDE DEF p
    <2>3. {e \in p.names : Mentionable(e)} = p.names /\ p.actions \intersect ActionsOn(m) = p.actions
      BY <2>1
    <2>4. IfReadable(p.reply) = p.reply /\ IfOpen(p.thread) = p.thread
      BY <2>1 DEF IfReadable, IfOpen
    <2>5. FilteredMessage(pg, m, p)
            = [names |-> p.names, reply |-> p.reply, refers |-> p.refers, thread |-> p.thread, actions |-> p.actions]
      BY <2>1, <2>3, <2>4 DEF FilteredMessage
    <2>6. FilteredMessage(pg, m, p) = p
      BY <2>2, <2>5 DEF ShownOK
    <2> QED BY <2>6 DEF p
  <1>4. [m \in StillReadable(s) |-> FilteredMessage(pg, m, s.messages[m])] = s.messages
    <2>1. s.messages = [m \in DOMAIN s.messages |-> s.messages[m]]
      BY DEF PageOK, ViewOK
    <2> QED BY <1>2, <1>3, <2>1
  <1>5. (IF s.target \in StillReadable(s) THEN s.target ELSE Nil) = s.target
    BY <1>2 DEF PageOK, ViewOK
  <1>6. {e \in s.listed : Mentionable(e) /\ ~Orphaned(pg, s, e)} = s.listed
    BY <1>1
  <1>7. (s.send /\ CanSend(Home)) = s.send /\ (s.use /\ Authorized(pg).usable) = s.use
    BY <1>1 DEF PageOK, ViewOK
  <1>8. Filtered(pg, s) = [messages |-> s.messages, target |-> s.target, listed |-> s.listed,
                           send |-> s.send, use |-> s.use]
    BY <1>4, <1>5, <1>6, <1>7 DEF Filtered
  <1>9. s = [messages |-> s.messages, target |-> s.target, listed |-> s.listed, send |-> s.send, use |-> s.use]
    BY DEF PageOK, ViewOK
  <1> QED BY <1>8, <1>9

\* A publication is a page of that form.
LEMMA SnapshotsOK ==
  ASSUME NEW t \in Messages \union {Nil}, t # Nil => Place[t] = Home /\ Readable(t)
  PROVE  ViewOK(Snapshot(t))
  <1>1. CASE Accessible(Home, TRUE)
    <2> DEFINE v == Snapshot(t)
    <2>1. v = [messages |-> [m \in Window |-> Projection(m)], target |-> t, listed |-> Listed(t),
               send |-> CanSend(Home), use |-> Usable]
      BY <1>1 DEF Snapshot
    <2>2. v.messages = [m \in Window |-> Projection(m)]
      BY <2>1
    <2>3. \A m \in Window : ShownOK(Projection(m))
      BY DEF ShownOK, Projection
    <2>4. t \in Window \union {Nil}
      BY DEF Window
    <2>5. CanSend(Home) \in BOOLEAN /\ Usable \in BOOLEAN
      BY DEF CanSend, Usable, Can, Accessible
    <2> QED BY <2>1, <2>2, <2>3, <2>4, <2>5 DEF ViewOK
  <1>2. CASE ~Accessible(Home, TRUE)
    <2>1. Snapshot(t) = DeniedView
      BY <1>2 DEF Snapshot
    <2> QED BY <2>1 DEF ViewOK, DeniedView
  <1> QED BY <1>1, <1>2

\* And it has the form whatever the rights are at that moment.
LEMMA ProjectedOK ==
  ASSUME NEW pg, PageShaped(pg)
  PROVE  PageOK(Projected(pg)) /\ Projected(pg).target = pg.target
  <1> DEFINE allowed == Accessible(Home, TRUE)
             t == IF pg.target # Nil /\ Readable(pg.target) THEN pg.target ELSE Nil
             shown == IF allowed THEN Window ELSE {}
             base == IF allowed THEN [pg EXCEPT !.status = "current"] ELSE Refused(pg)
             told == {m \in shown : IfReadable(Refers[m]) # Nil}
             R == {Reply[m] : m \in {x \in shown : IfReadable(Reply[x]) # Nil}}
                  \union {Refers[m] : m \in told}
             N == IF allowed /\ t # Nil /\ IfReadable(Reply[t]) # Nil
                  THEN {<<Author[Reply[t]], Reply[t]>>} ELSE {}
             src == [m \in told |-> Refers[m]]
             new == [base EXCEPT !.snap = Snapshot(t), !.catalog = Catalog, !.referenced = R,
                                 !.sources = src, !.named = N]
  <1>1. Projected(pg) = new
    BY DEF Projected
  <1>2. t \in Messages \union {Nil} /\ (t # Nil => Place[t] = Home /\ Readable(t))
    BY DEF PageShaped
  <1>3. ViewOK(Snapshot(t))
    BY <1>2, SnapshotsOK
  <1>4. ASSUME NEW m \in DOMAIN Snapshot(t).messages, Snapshot(t).messages[m].refers # Nil
        PROVE  m \in DOMAIN src /\ src[m] = Snapshot(t).messages[m].refers
    <2>1. CASE allowed
      <3>1. Snapshot(t).messages = [k \in Window |-> Projection(k)]
        BY <2>1 DEF Snapshot
      <3>2. m \in Window /\ Snapshot(t).messages[m].refers = IfReadable(Refers[m])
        BY <3>1 DEF Projection
      <3> QED BY <2>1, <3>2, <1>4 DEF IfReadable
    <2>2. CASE ~allowed
      <3>1. DOMAIN Snapshot(t).messages = {}
        BY <2>2 DEF Snapshot, DeniedView
      <3> QED BY <3>1
    <2> QED BY <2>1, <2>2
  <1>5. /\ Catalog = [usable |-> Catalog.usable, entries |-> Catalog.entries]
        /\ Catalog.usable \in BOOLEAN
    BY DEF Catalog, Unavailable
  <1>6. base = [k \in PageFields |-> base[k]] /\ base.target = pg.target
    <2>1. base = [pg EXCEPT !.status = "current"]
          \/ base = [pg EXCEPT !.status = "access_denied", !.receipt = NoReceipt]
      BY DEF Refused
    <2>2. pg = [k \in PageFields |-> pg[k]]
      BY DEF PageShaped
    <2> HIDE DEF base
    <2> QED BY <2>1, <2>2 DEF PageFields
  <1> HIDE DEF base, t, src, R, N
  <1>7. /\ new.snap = Snapshot(t) /\ new.sources = src /\ new.catalog = Catalog
        /\ new.target = base.target /\ new = [k \in PageFields |-> new[k]]
    BY <1>6 DEF PageFields
  <1>8. PageShaped(new)
    BY <1>6, <1>7 DEF PageShaped
  <1>9. SourcesKnown(new)
    BY <1>4, <1>7 DEF SourcesKnown
  <1>10. PageOK(new)
    <2> HIDE DEF new
    <2> QED BY <1>3, <1>5, <1>7, <1>8, <1>9 DEF PageOK
  <1> QED BY <1>1, <1>6, <1>7, <1>10

\* A page that was never published has the fields.
LEMMA UnpublishedShaped ==
  ASSUME NEW t \in {m \in Messages : Place[m] = Home} \union {Nil}
  PROVE  PageShaped(UnpublishedPage(t))
  BY DEF PageShaped, UnpublishedPage, PageFields

\* A page that is refused keeps its form, and so does one whose target or receipt is set.
LEMMA RefusedOK ==
  ASSUME NEW pg, PageOK(pg)
  PROVE  PageOK(Refused(pg))
  <1> DEFINE r == Refused(pg)
  <1>1. pg = [k \in PageFields |-> pg[k]]
    BY DEF PageOK, PageShaped
  <1>2. /\ r = [k \in PageFields |-> r[k]] /\ r.target = pg.target /\ r.snap = pg.snap
        /\ r.sources = pg.sources /\ r.catalog = pg.catalog
    BY <1>1 DEF Refused, PageFields
  <1> HIDE DEF r
  <1>3. PageShaped(r)
    BY <1>2 DEF PageOK, PageShaped
  <1>4. SourcesKnown(r)
    BY <1>2 DEF PageOK, SourcesKnown
  <1>5. PageOK(r)
    BY <1>2, <1>3, <1>4 DEF PageOK
  <1> QED BY <1>5 DEF r

LEMMA SetKeepsShape ==
  ASSUME NEW pg, PageShaped(pg)
  PROVE  /\ \A m \in Messages : Place[m] = Home => PageShaped([pg EXCEPT !.target = m])
         /\ \A r : PageShaped([pg EXCEPT !.receipt = r])
  <1>1. pg = [k \in PageFields |-> pg[k]]
    BY DEF PageShaped
  <1>2. ASSUME NEW m \in Messages, Place[m] = Home PROVE PageShaped([pg EXCEPT !.target = m])
    BY <1>1, <1>2 DEF PageShaped, PageFields
  <1>3. ASSUME NEW r PROVE PageShaped([pg EXCEPT !.receipt = r])
    <2> DEFINE q == [pg EXCEPT !.receipt = r]
    <2>1. q = [k \in PageFields |-> q[k]] /\ q.target = pg.target
      BY <1>1 DEF PageFields
    <2> HIDE DEF q
    <2>2. PageShaped(q)
      BY <2>1 DEF PageShaped
    <2> QED BY <2>2 DEF q
  <1> QED BY <1>2, <1>3

\* No step of the test, the browser or the world breaks it: the world goes on without the page.
LEMMA ProjectionStep ==
  ASSUME PageOK(published), [ProjectionNext]_projectionVars
  PROVE  PageOK(published)'
  <1>0. PageShaped(published)
    BY DEF PageOK
  <1>1. CASE UNCHANGED projectionVars \/ PinEnds
    <2>1. published' = published
      BY <1>1 DEF projectionVars, PinEnds
    <2> QED BY <2>1
  <1>2. CASE Refresh \/ PinCopy
    <2>1. published' = Projected(published)
      BY <1>2 DEF Refresh, PinCopy
    <2>2. PageOK(Projected(published))
      BY <1>0, ProjectedOK
    <2> QED BY <2>1, <2>2
  <1>3. CASE Read
    <2>1. published' = Refused(published)
      BY <1>3 DEF Read
    <2> QED BY <2>1, RefusedOK
  <1>4. ASSUME NEW m \in Messages, ShowMessage(m) PROVE PageOK(published)'
    <2>1. Place[m] = Home /\ published' = Projected([published EXCEPT !.target = m])
      BY <1>4 DEF ShowMessage
    <2>2. PageOK(Projected([published EXCEPT !.target = m]))
      BY <1>0, <2>1, SetKeepsShape, ProjectedOK
    <2> QED BY <2>1, <2>2
  <1>5. ASSUME NEW m \in Messages, EditShown(m) PROVE PageOK(published)'
    <2> DEFINE r == [target |-> m, outcomes |-> {m}]
    <2>1. published' = Projected([published EXCEPT !.receipt = r])
      BY <1>5 DEF EditShown
    <2>2. PageShaped([published EXCEPT !.receipt = r])
      BY <1>0, SetKeepsShape
    <2>3. PageOK(Projected([published EXCEPT !.receipt = r]))
      BY <2>2, ProjectedOK
    <2> QED BY <2>1, <2>3
  <1>6. CASE Change
    BY <1>6 DEF Change
  <1>7. /\ \A m : Delete(m) => Change
        /\ \A e : Presence(e) => Change
        /\ \A c, p : Right(c, p) => Change
        /\ \A c : Membership(c) => Change
        /\ \A c : Declare(c) => Change
    BY DEF Delete, Presence, Right, Membership, Declare
  <1> QED BY <1>1, <1>2, <1>3, <1>4, <1>5, <1>6, <1>7 DEF ProjectionNext

\* However old the publication, a read tells what the viewer may see now and nothing
\* that was not published, an accepted capture shows the same, and a read that loses
\* nothing is the publication itself (_filter_dependencies, _page_payload).
THEOREM ReadsAlwaysTrue == ProjectionSpec => []ReadsTrue
  <1>1. ProjectionInit => PageOK(published)
    <2>1. PageShaped(UnpublishedPage(Nil))
      BY UnpublishedShaped
    <2>2. PageOK(Projected(UnpublishedPage(Nil)))
      BY <2>1, ProjectedOK
    <2> QED BY <2>2 DEF ProjectionInit
  <1>2. PageOK(published) /\ [ProjectionNext]_projectionVars => PageOK(published)'
    BY ProjectionStep
  <1>3. PageOK(published) => ReadsTrue
    BY ReadsRevokeNothing, ReadsGrantNothing, CapturesReadable, NoLossNoChange
    DEF ReadsTrue, ReadsHonest
  <1> QED BY <1>1, <1>2, <1>3, PTL DEF ProjectionSpec

-----------------------------------------------------------------------------
(* Lists: the first elements of a finite set in a linear order             *)

Linear(S, R) ==
  /\ \A x \in S : <<x, x>> \notin R
  /\ \A x, y, z \in S : <<x, y>> \in R /\ <<y, z>> \in R => <<x, z>> \in R
  /\ \A x, y \in S : x = y \/ <<x, y>> \in R \/ <<y, x>> \in R

Under(S, R, x) == {y \in S : <<y, x>> \in R}
Lead(S, R, n) == {x \in S : Cardinality(Under(S, R, x)) < n}

\* A set of natural numbers has a least one.
LEMMA LeastNatural ==
  ASSUME NEW T, T \subseteq Nat, T # {}
  PROVE  \E m \in T : \A k \in T : m <= k
<1>1. PICK m \in T : \A k \in T : ~ (<<k, m>> \in OpToRel(<, Nat))
  BY NatLessThanWellFounded, WFMin
<1>2. ASSUME NEW k \in T
      PROVE  m <= k
  <2>1. ~(<<k, m>> \in OpToRel(<, Nat))
    BY <1>1
  <2>2. <<k, m>> \in Nat \X Nat
    OBVIOUS
  <2>3. ~(k < m)
    BY <2>1, <2>2 DEF OpToRel
  <2> QED BY <2>3
<1> QED BY <1>2

\* What is under an element counts less than what is under one above it.
LEMMA UnderCounts ==
  ASSUME NEW S, IsFiniteSet(S), NEW R, Linear(S, R), NEW x \in S
  PROVE  /\ Cardinality(Under(S, R, x)) \in Nat
         /\ \A z \in S : <<z, x>> \in R =>
              Cardinality(Under(S, R, z)) < Cardinality(Under(S, R, x))
<1>1. \A z \in S : IsFiniteSet(Under(S, R, z)) /\ Cardinality(Under(S, R, z)) \in Nat
  <2>1. \A z \in S : Under(S, R, z) \in SUBSET S
    BY DEF Under
  <2> QED BY <2>1, FS_Subset, FS_CardinalityType
<1>2. ASSUME NEW z \in S, <<z, x>> \in R
      PROVE  Cardinality(Under(S, R, z)) < Cardinality(Under(S, R, x))
  <2>1. Under(S, R, z) \in SUBSET Under(S, R, x)
    BY <1>2 DEF Under, Linear
  <2>2. z \in Under(S, R, x) /\ z \notin Under(S, R, z)
    BY <1>2 DEF Under, Linear
  <2>3. Under(S, R, x) # Under(S, R, z)
    BY <2>2
  <2>4. Cardinality(Under(S, R, z)) <= Cardinality(Under(S, R, x))
    BY <2>1, <1>1, FS_Subset
  <2>5. Cardinality(Under(S, R, z)) # Cardinality(Under(S, R, x))
    BY <2>1, <2>3, <1>1, FS_Subset
  <2> QED BY <2>4, <2>5, <1>1
<1> QED BY <1>1, <1>2

\* A finite set that is not empty has a first element.
LEMMA FirstOf ==
  ASSUME NEW S, IsFiniteSet(S), NEW R, Linear(S, R), S # {}
  PROVE  \E x \in S : Under(S, R, x) = {} /\ \A y \in S : y = x \/ <<x, y>> \in R
<1> DEFINE counts == {Cardinality(Under(S, R, x)) : x \in S}
<1>1. counts \subseteq Nat /\ counts # {}
  BY UnderCounts
<1>2. PICK m \in counts : \A k \in counts : m <= k
  <2> HIDE DEF counts
  <2> QED BY <1>1, LeastNatural
<1>3. PICK x \in S : m = Cardinality(Under(S, R, x))
  OBVIOUS
<1>4. ASSUME NEW y \in S, <<y, x>> \in R
      PROVE  FALSE
  <2>1. Cardinality(Under(S, R, y)) < m
    BY <1>3, <1>4, UnderCounts
  <2>2. m <= Cardinality(Under(S, R, y))
    BY <1>2
  <2>3. m \in Nat /\ Cardinality(Under(S, R, y)) \in Nat
    BY <1>3, UnderCounts
  <2> QED BY <2>1, <2>2, <2>3
<1>5. Under(S, R, x) = {}
  BY <1>4 DEF Under
<1>6. \A y \in S : y = x \/ <<x, y>> \in R
  BY <1>4 DEF Linear
<1> QED BY <1>5, <1>6

\* The other way round it is an order too.
Reversed(R) == {<<p[2], p[1]>> : p \in R}

LEMMA LinearReversed ==
  ASSUME NEW A, NEW R, R \subseteq A \X A, NEW S, Linear(S, R)
  PROVE  Linear(S, Reversed(R)) /\ \A x, y : <<x, y>> \in Reversed(R) <=> <<y, x>> \in R
<1>1. \A x, y : <<x, y>> \in Reversed(R) <=> <<y, x>> \in R
  <2>1. ASSUME NEW x, NEW y, <<x, y>> \in Reversed(R)
        PROVE  <<y, x>> \in R
    <3>1. PICK p \in R : <<x, y>> = <<p[2], p[1]>>
      BY <2>1 DEF Reversed
    <3>2. p = <<p[1], p[2]>>
      OBVIOUS
    <3> QED BY <3>1, <3>2
  <2>2. ASSUME NEW x, NEW y, <<y, x>> \in R
        PROVE  <<x, y>> \in Reversed(R)
    BY <2>2 DEF Reversed
  <2> QED BY <2>1, <2>2
<1>2. \A x \in S : <<x, x>> \notin Reversed(R)
  BY <1>1 DEF Linear
<1>3. ASSUME NEW x \in S, NEW y \in S, NEW z \in S, <<x, y>> \in Reversed(R), <<y, z>> \in Reversed(R)
      PROVE  <<x, z>> \in Reversed(R)
  <2>1. <<z, y>> \in R /\ <<y, x>> \in R
    BY <1>1, <1>3
  <2>2. <<z, x>> \in R
    BY <2>1 DEF Linear
  <2> QED BY <1>1, <2>2
<1>4. \A x, y \in S : x = y \/ <<x, y>> \in Reversed(R) \/ <<y, x>> \in Reversed(R)
  BY <1>1 DEF Linear
<1> QED
  <2>1. Linear(S, Reversed(R))
    BY <1>2, <1>3, <1>4 DEF Linear
  <2> QED BY <1>1, <2>1

LEMMA LinearSubset ==
  ASSUME NEW S, NEW R, Linear(S, R), NEW T \in SUBSET S
  PROVE  Linear(T, R)
  BY DEF Linear

\* The first n of a set: the others come after them, they are none only where
\* there is nothing, and all where there are no more than n.
LEMMA LeadFacts ==
  ASSUME NEW S, IsFiniteSet(S), NEW R, Linear(S, R), NEW n \in Nat, n > 0
  PROVE  /\ Lead(S, R, n) \subseteq S /\ IsFiniteSet(Lead(S, R, n))
         /\ \A x \in Lead(S, R, n), y \in S : <<y, x>> \in R => y \in Lead(S, R, n)
         /\ \A x \in S \ Lead(S, R, n), y \in Lead(S, R, n) : <<y, x>> \in R
         /\ S # {} => Lead(S, R, n) # {}
         /\ Cardinality(Lead(S, R, n)) <= n
         /\ Cardinality(S) > n <=> Lead(S, R, n) # S
<1> DEFINE L == Lead(S, R, n)
<1>1. L \in SUBSET S /\ IsFiniteSet(L)
  <2>1. L \in SUBSET S
    BY DEF Lead
  <2> QED BY <2>1, FS_Subset
<1>2. ASSUME NEW x \in L, NEW y \in S, <<y, x>> \in R
      PROVE  y \in L
  <2>1. x \in S /\ Cardinality(Under(S, R, x)) < n
    BY DEF Lead
  <2>2. Cardinality(Under(S, R, y)) < Cardinality(Under(S, R, x))
    BY <1>2, <2>1, UnderCounts
  <2>3. Cardinality(Under(S, R, y)) \in Nat /\ Cardinality(Under(S, R, x)) \in Nat
    BY <2>1, UnderCounts
  <2>4. Cardinality(Under(S, R, y)) < n
    BY <2>1, <2>2, <2>3
  <2> QED BY <2>4 DEF Lead
<1>3. ASSUME NEW x \in S \ L, NEW y \in L
      PROVE  <<y, x>> \in R
  <2>1. y \in S /\ x # y
    BY <1>1
  <2>2. <<x, y>> \notin R
    BY <1>2
  <2> QED BY <2>1, <2>2 DEF Linear
<1>4. ASSUME S # {} PROVE L # {}
  <2>1. PICK x \in S : Under(S, R, x) = {}
    BY <1>4, FirstOf
  <2>2. Cardinality(Under(S, R, x)) = 0
    BY <2>1, FS_EmptySet
  <2>3. Cardinality(Under(S, R, x)) < n
    BY <2>2
  <2> QED BY <2>3 DEF Lead
<1>5. Cardinality(L) <= n /\ Cardinality(L) \in Nat
  <2>0. Cardinality(L) \in Nat
    BY <1>1, FS_CardinalityType
  <2>1. CASE L = {}
    BY <2>0, <2>1, FS_EmptySet
  <2>2. CASE L # {}
    <3> DEFINE Q == Reversed(R \cap (S \X S))
    <3>1. Linear(S, R \cap (S \X S))
      BY DEF Linear
    <3>2. Linear(S, Q) /\ \A x, y : <<x, y>> \in Q <=> <<y, x>> \in R \cap (S \X S)
      BY <3>1, LinearReversed
    <3>3. Linear(L, Q)
      BY <3>2, <1>1, LinearSubset
    <3>4. PICK x \in L : \A y \in L : y = x \/ <<x, y>> \in Q
      <4> HIDE DEF Q, L
      <4> QED BY <3>3, <2>2, <1>1, FirstOf
    <3>5. \A y \in L \ {x} : <<y, x>> \in R
      BY <3>4, <3>2
    <3>6. L \ {x} \in SUBSET Under(S, R, x)
      BY <3>5, <1>1 DEF Under
    <3>7. Under(S, R, x) \in SUBSET S
      BY DEF Under
    <3>8. IsFiniteSet(Under(S, R, x)) /\ Cardinality(Under(S, R, x)) \in Nat
      BY <3>7, FS_Subset, FS_CardinalityType
    <3>9. Cardinality(L \ {x}) <= Cardinality(Under(S, R, x))
      BY <3>6, <3>8, FS_Subset
    <3>10. Cardinality(L \ {x}) = Cardinality(L) - 1
      <4> HIDE DEF L
      <4> QED BY <1>1, FS_RemoveElement
    <3>11. Cardinality(Under(S, R, x)) < n
      BY DEF Lead
    <3> QED BY <3>8, <3>9, <3>10, <3>11, <2>0
  <2> QED BY <2>0, <2>1, <2>2
<1>6. Cardinality(S) \in Nat
  BY FS_CardinalityType
<1>7. ASSUME L # S PROVE Cardinality(S) > n
  <2>1. PICK x \in S : x \notin L
    BY <1>7, <1>1
  <2>2. Under(S, R, x) \in SUBSET S /\ x \notin Under(S, R, x)
    BY DEF Under, Linear
  <2>3. Under(S, R, x) \in SUBSET S \ {x}
    BY <2>2
  <2>4. IsFiniteSet(S \ {x}) /\ Cardinality(S \ {x}) = Cardinality(S) - 1
    BY FS_RemoveElement
  <2>5. Cardinality(Under(S, R, x)) <= Cardinality(S) - 1
    BY <2>3, <2>4, FS_Subset
  <2>6. Cardinality(Under(S, R, x)) \in Nat
    BY UnderCounts
  <2>7. ~(Cardinality(Under(S, R, x)) < n)
    BY <2>1 DEF Lead
  <2> QED BY <2>5, <2>6, <2>7, <1>6
<1>8. ASSUME Cardinality(S) > n PROVE L # S
  BY <1>8, <1>5, <1>6
<1> QED BY <1>1, <1>2, <1>3, <1>4, <1>5, <1>7, <1>8

\* A list of the first n on one side of a place has no gap, is short of what
\* comes after it exactly where the side holds more than n, and of what comes
\* before it where the side is not everything.
Closed(S, R, side) == \A x \in side, y \in S : <<x, y>> \in R => y \in side

InPlace(S, R, side, n) ==
  LET rows == Lead(side, R, n)
  IN  /\ rows \subseteq side
      /\ \A x \in S : (\E a, b \in rows : <<a, x>> \in R /\ <<x, b>> \in R) => x \in rows
      /\ rows # {} => (Cardinality(side) > n <=> \E x \in S : \A y \in rows : <<y, x>> \in R)
      /\ rows # {} => (side # S <=> \E x \in S : \A y \in rows : <<x, y>> \in R)

LEMMA SideFacts ==
  ASSUME NEW S, IsFiniteSet(S), NEW R, Linear(S, R), NEW n \in Nat, n > 0,
         NEW side \in SUBSET S, Closed(S, R, side)
  PROVE  InPlace(S, R, side, n)
<1> DEFINE rows == Lead(side, R, n)
<1>0. \A x \in side, y \in S : <<x, y>> \in R => y \in side
  BY DEF Closed
<1>1. Linear(side, R) /\ IsFiniteSet(side)
  BY LinearSubset, FS_Subset
<1>2. /\ rows \subseteq side
      /\ \A x \in rows, y \in side : <<y, x>> \in R => y \in rows
      /\ \A x \in side \ rows, y \in rows : <<y, x>> \in R
      /\ side # {} => rows # {}
      /\ Cardinality(side) > n <=> rows # side
  BY <1>1, LeadFacts
<1> HIDE DEF rows
<1>3. ASSUME NEW x \in S, NEW a \in rows, NEW b \in rows, <<a, x>> \in R, <<x, b>> \in R
      PROVE  x \in rows
  BY <1>0, <1>2, <1>3
<1>4. ASSUME rows # {}, rows # side
      PROVE  \E x \in S : \A y \in rows : <<y, x>> \in R
  BY <1>2, <1>4
<1>5. ASSUME rows # {}, NEW x \in S, \A y \in rows : <<y, x>> \in R
      PROVE  rows # side
  <2>1. PICK y \in rows : TRUE
    BY <1>5
  <2>2. x \in side
    BY <1>0, <1>5, <2>1, <1>2
  <2>3. x \notin rows
    BY <1>5 DEF Linear
  <2> QED BY <2>2, <2>3
<1>6. ASSUME rows # {}, side # S
      PROVE  \E x \in S : \A y \in rows : <<x, y>> \in R
  <2>1. PICK x \in S : x \notin side
    BY <1>6
  <2>2. \A y \in rows : y \in S /\ y # x /\ <<y, x>> \notin R
    BY <2>1, <1>0, <1>2
  <2>3. \A y \in rows : <<x, y>> \in R
    BY <2>2 DEF Linear
  <2> QED BY <2>3
<1>7. ASSUME rows # {}, NEW x \in S, \A y \in rows : <<x, y>> \in R
      PROVE  side # S
  <2>1. x \notin rows
    BY <1>7 DEF Linear
  <2>2. PICK y \in rows : TRUE
    BY <1>7
  <2>3. ~(<<y, x>> \in R)
    BY <1>7, <2>2, <1>0, <1>2 DEF Linear
  <2> QED BY <2>1, <2>2, <2>3, <1>2
<1> QED BY <1>2, <1>3, <1>4, <1>5, <1>6, <1>7 DEF rows, InPlace

Up == {p \in Nat \X Nat : p[1] < p[2]}
Down == Reversed(Up)

LEMMA NumbersOrdered ==
  ASSUME NEW S \in SUBSET Nat
  PROVE  /\ Linear(S, Up) /\ Linear(S, Down)
         /\ \A x, y \in S : (<<x, y>> \in Up <=> x < y) /\ (<<x, y>> \in Down <=> x > y)
<1>1. \A x, y \in S : <<x, y>> \in Up <=> x < y
  BY DEF Up
<1>2. \A x, y \in S : x \in Nat /\ y \in Nat
  OBVIOUS
<1>3. Linear(S, Up)
  <2>1. \A x \in S : <<x, x>> \notin Up
    BY <1>1, <1>2
  <2>2. \A x, y, z \in S : <<x, y>> \in Up /\ <<y, z>> \in Up => <<x, z>> \in Up
    BY <1>1, <1>2
  <2>3. ASSUME NEW x \in S, NEW y \in S
        PROVE  x = y \/ <<x, y>> \in Up \/ <<y, x>> \in Up
    <3>1. x = y \/ x < y \/ y < x
      BY <1>2
    <3> QED BY <3>1, <1>1
  <2> QED BY <2>1, <2>2, <2>3 DEF Linear
<1>4. Up \subseteq Nat \X Nat
  BY DEF Up
<1>5. Linear(S, Down) /\ \A x, y : <<x, y>> \in Down <=> <<y, x>> \in Up
  BY <1>3, <1>4, LinearReversed DEF Down
<1>6. ASSUME NEW x \in S, NEW y \in S
      PROVE  <<x, y>> \in Down <=> x > y
  <2>1. <<y, x>> \in Up <=> y < x
    BY <1>1
  <2>2. y < x <=> x > y
    BY <1>2
  <2> QED BY <2>1, <2>2, <1>5
<1> QED BY <1>1, <1>3, <1>5, <1>6

LEMMA NumbersLead ==
  ASSUME NEW S \in SUBSET Nat, NEW n
  PROVE  Lowest(S, n) = Lead(S, Up, n) /\ Highest(S, n) = Lead(S, Down, n)
<1>1. \A x \in S : {y \in S : y < x} = Under(S, Up, x)
  BY NumbersOrdered DEF Under
<1>2. \A x \in S : {y \in S : y > x} = Under(S, Down, x)
  BY NumbersOrdered DEF Under
<1>3. Lowest(S, n) = Lead(S, Up, n)
  BY <1>1 DEF Lowest, Lead
<1>4. Highest(S, n) = Lead(S, Down, n)
  BY <1>2 DEF Highest, Lead
<1> QED BY <1>3, <1>4

LEMMA LowestFacts ==
  ASSUME NEW S \in SUBSET Nat, IsFiniteSet(S), NEW n \in Nat, n > 0
  PROVE  /\ Lowest(S, n) \subseteq S /\ IsFiniteSet(Lowest(S, n))
         /\ \A x \in Lowest(S, n), y \in S : y < x => y \in Lowest(S, n)
         /\ \A x \in S \ Lowest(S, n), y \in Lowest(S, n) : y < x
         /\ S # {} => Lowest(S, n) # {}
         /\ Cardinality(Lowest(S, n)) <= n
         /\ Cardinality(S) > n <=> Lowest(S, n) # S
<1> DEFINE L == Lead(S, Up, n)
<1>1. /\ L \subseteq S /\ IsFiniteSet(L)
      /\ \A x \in L, y \in S : <<y, x>> \in Up => y \in L
      /\ \A x \in S \ L, y \in L : <<y, x>> \in Up
      /\ S # {} => L # {}
      /\ Cardinality(L) <= n
      /\ Cardinality(S) > n <=> L # S
  <2>1. Linear(S, Up)
    BY NumbersOrdered
  <2> QED BY <2>1, LeadFacts
<1>2. Lowest(S, n) = L
  BY NumbersLead
<1> HIDE DEF L
<1>3. \A x \in L, y \in S : y < x => y \in L
  BY <1>1, NumbersOrdered
<1>4. \A x \in S \ L, y \in L : y < x
  BY <1>1, NumbersOrdered
<1> QED BY <1>1, <1>2, <1>3, <1>4

LEMMA HighestFacts ==
  ASSUME NEW S \in SUBSET Nat, IsFiniteSet(S), NEW n \in Nat, n > 0
  PROVE  /\ Highest(S, n) \subseteq S /\ IsFiniteSet(Highest(S, n))
         /\ \A x \in Highest(S, n), y \in S : y > x => y \in Highest(S, n)
         /\ \A x \in S \ Highest(S, n), y \in Highest(S, n) : x < y
         /\ S # {} => Highest(S, n) # {}
         /\ Cardinality(Highest(S, n)) <= n
         /\ Cardinality(S) > n <=> Highest(S, n) # S
<1> DEFINE L == Lead(S, Down, n)
<1>1. /\ L \subseteq S /\ IsFiniteSet(L)
      /\ \A x \in L, y \in S : <<y, x>> \in Down => y \in L
      /\ \A x \in S \ L, y \in L : <<y, x>> \in Down
      /\ S # {} => L # {}
      /\ Cardinality(L) <= n
      /\ Cardinality(S) > n <=> L # S
  <2>1. Linear(S, Down)
    BY NumbersOrdered
  <2> QED BY <2>1, LeadFacts
<1>2. Highest(S, n) = L
  BY NumbersLead
<1> HIDE DEF L
<1>3. \A x \in L, y \in S : y > x => y \in L
  BY <1>1, NumbersOrdered
<1>4. ASSUME NEW x \in S \ L, NEW y \in L
      PROVE  x < y
  <2>1. <<y, x>> \in Down /\ y \in S
    BY <1>1
  <2>2. y > x
    BY <2>1, NumbersOrdered
  <2> QED BY <2>1, <2>2
<1> QED BY <1>1, <1>2, <1>3, <1>4

\* The ends of a finite set of numbers.
LEMMA EndFacts ==
  ASSUME NEW S, S \subseteq Nat, IsFiniteSet(S), S # {}
  PROVE  /\ Min(S) \in S /\ \A y \in S : Min(S) <= y
         /\ Max(S) \in S /\ \A y \in S : Max(S) >= y
<1>0. /\ Linear(S, Up) /\ Linear(S, Down)
      /\ \A x, y \in S : (<<x, y>> \in Up <=> x < y) /\ (<<x, y>> \in Down <=> x > y)
      /\ \A x \in S : x \in Nat
  BY NumbersOrdered
<1>a. Linear(S, Up)
  BY <1>0
<1>b. Linear(S, Down)
  BY <1>0
<1>1. PICK x \in S : \A y \in S : y = x \/ <<x, y>> \in Up
  BY <1>a, FirstOf
<1>2. ASSUME NEW y \in S PROVE x <= y
  <2>1. y = x \/ x < y
    BY <1>0, <1>1
  <2> QED BY <2>1, <1>0
<1>3. PICK z \in S : \A y \in S : y = z \/ <<z, y>> \in Down
  BY <1>b, FirstOf
<1>4. ASSUME NEW y \in S PROVE z >= y
  <2>1. y = z \/ z > y
    BY <1>0, <1>3
  <2> QED BY <2>1, <1>0
<1> QED BY <1>2, <1>4 DEF Min, Max

-----------------------------------------------------------------------------
(* What a publication of the lists is made of                              *)

Cursors == {NoCursor} \cup
  [generation : Nat, list : {"messages", "candidates"}, text : Texts,
   direction : {"after", "before"}, position : Nat]

Listings == [generation : Nat, layout : {"message", "channel"}, target : Nat, end : Nat,
             text : Texts, cursor : Cursors, search : Cursors]

Lists == [rows : SUBSET Nat, prev : Cursors, next : Cursors]

WorldTyped == store \subseteq Ids /\ label \in [Options -> Labels \cup {0}]

QueryTypes ==
  /\ WorldTyped /\ issued \in Nat
  /\ listing \in Listings
  /\ display.messages \in Lists /\ display.candidates \in Lists
  /\ kept \subseteq Cursors
  /\ walk \in [on : BOOLEAN, seen : SUBSET Nat, there : SUBSET Nat]

\* The cursor of the page is one it still understands; a publication leads on
\* by a cursor that says the rest of its own list comes.
LeadsOn ==
  /\ CursorCurrent
  /\ display.messages.next # NoCursor =>
       /\ display.messages.next.direction = "after"
       /\ display.messages.next.text = listing.text

Awaited(c) == c # NoCursor => \A m \in walk.there \ walk.seen : m > c.position

\* What a walk has not met yet lies after where the page stands, and after
\* what its next step reads from.
OnTheWay ==
  walk.on =>
    /\ walk.there \subseteq Hits(listing.text)
    /\ listing.cursor # NoCursor => listing.cursor.direction = "after"
    /\ Awaited(listing.cursor) /\ Awaited(display.messages.next)
    /\ display.messages.next = NoCursor => walk.there \subseteq walk.seen

WalkInv == QueryTypes /\ LeadsOn /\ OnTheWay

LEMMA QueryConstants ==
  /\ MaxMessages \in Nat /\ AtStart \in Nat /\ PageSize \in Nat /\ PageSize > 0
  /\ WindowSize \in Nat /\ WindowSize > 0 /\ Step \in Nat /\ Step > 0 /\ Step < WindowSize
  /\ Older \in Nat /\ Older < WindowSize /\ AtStart <= MaxMessages
  /\ IsFiniteSet(Options) /\ Options \subseteq Nat /\ Labels \subseteq Nat
  BY QueriesAssumption

LEMMA CursorFacts ==
  ASSUME NEW c \in Cursors, c # NoCursor
  PROVE  /\ c.position \in Nat /\ c.direction \in {"after", "before"} /\ c.text \in Texts
         /\ c.list \in {"messages", "candidates"} /\ c.generation \in Nat
  BY DEF Cursors

LEMMA CursorMade ==
  ASSUME NEW pg \in Listings, NEW list \in {"messages", "candidates"}, NEW text \in Texts,
         NEW direction \in {"after", "before"}, NEW position \in Nat
  PROVE  LET c == Cursor(pg, list, text, direction, position)
         IN  /\ c \in Cursors /\ c # NoCursor /\ c.generation = pg.generation /\ c.list = list
             /\ c.text = text /\ c.direction = direction /\ c.position = position
<1> DEFINE c == Cursor(pg, list, text, direction, position)
<1>1. /\ c.generation = pg.generation /\ c.list = list
      /\ c.text = text /\ c.direction = direction /\ c.position = position
  BY DEF Cursor
<1>2. c \in Cursors
  BY DEF Cursor, Cursors, Listings
<1>3. c # NoCursor
  <2>1. NoCursor.direction = "none"
    BY DEF NoCursor
  <2> QED BY <1>1, <2>1
<1> QED BY <1>1, <1>2, <1>3

LEMMA StoreFinite ==
  ASSUME WorldTyped, NEW S \in SUBSET store
  PROVE  IsFiniteSet(S) /\ S \subseteq Nat /\ (\A m \in S : m > 0) /\ S \in SUBSET Nat
         /\ Cardinality(S) \in Nat
<1>1. IsFiniteSet(Ids)
  BY QueryConstants, FS_Interval DEF Ids
<1>2. S \in SUBSET Ids
  BY DEF WorldTyped
<1>3. IsFiniteSet(S) /\ Cardinality(S) \in Nat
  BY <1>1, <1>2, FS_Subset, FS_CardinalityType
<1> QED BY <1>2, <1>3, QueryConstants DEF Ids

\* The rows of the message list are some of those on the cursor's side, none
\* only where there are none.
LEMMA RowsFacts ==
  ASSUME WorldTyped, NEW text, NEW c
  PROVE  LET S == Beyond(Hits(text), c)
             rows == Rows(text, c)
         IN  /\ Hits(text) \subseteq store /\ S \in SUBSET Hits(text) /\ rows \in SUBSET S
             /\ S # {} => rows # {}
             /\ rows # {} => /\ Min(rows) \in rows /\ \A y \in rows : Min(rows) <= y
                             /\ Max(rows) \in rows /\ \A y \in rows : Max(rows) >= y
             /\ c.direction # "before" => \A x \in S \ rows, y \in rows : y < x
             /\ Cardinality(S) > PageSize <=> rows # S
<1> DEFINE S == Beyond(Hits(text), c)
           rows == Rows(text, c)
<1>1. Hits(text) \subseteq store
  BY DEF Hits
<1>2. S \in SUBSET Hits(text)
  BY DEF Beyond
<1>3. IsFiniteSet(S) /\ S \in SUBSET Nat /\ S \subseteq Nat
  <2> HIDE DEF S
  <2> QED BY <1>1, <1>2, StoreFinite
<1>4. /\ rows \in SUBSET S /\ (S # {} => rows # {})
      /\ c.direction # "before" => \A x \in S \ rows, y \in rows : y < x
      /\ Cardinality(S) > PageSize <=> rows # S
  <2>1. CASE c.direction = "before"
    <3>1. rows = Highest(S, PageSize)
      BY <2>1 DEF Rows
    <3> HIDE DEF S, rows
    <3> QED BY <3>1, <2>1, <1>3, QueryConstants, HighestFacts
  <2>2. CASE c.direction # "before"
    <3>1. rows = Lowest(S, PageSize)
      BY <2>2 DEF Rows
    <3> HIDE DEF S, rows
    <3> QED BY <3>1, <2>2, <1>3, QueryConstants, LowestFacts
  <2> QED BY <2>1, <2>2
<1>5. rows # {} => /\ Min(rows) \in rows /\ \A y \in rows : Min(rows) <= y
                   /\ Max(rows) \in rows /\ \A y \in rows : Max(rows) >= y
  <2> HIDE DEF S, rows
  <2>1. rows \subseteq Nat /\ IsFiniteSet(rows)
    BY <1>3, <1>4, FS_Subset
  <2> QED BY <2>1, EndFacts
<1> QED BY <1>1, <1>2, <1>4, <1>5

LEMMA MessageListFacts ==
  ASSUME WorldTyped, NEW pg \in Listings
  PROVE  LET list == MessageList(pg)
         IN  /\ list \in Lists /\ list.rows = Rows(pg.text, pg.cursor)
             /\ list.next # NoCursor =>
                  /\ list.rows # {} /\ list.next.position = Max(list.rows)
                  /\ list.next.direction = "after" /\ list.next.text = pg.text
             /\ list.next # NoCursor <=> Edges(pg.text, pg.cursor, list.rows).after
             /\ list.prev # NoCursor <=> Edges(pg.text, pg.cursor, list.rows).before
<1> DEFINE rows == Rows(pg.text, pg.cursor)
           edges == Edges(pg.text, pg.cursor, rows)
           list == MessageList(pg)
           before == Cursor(pg, "messages", pg.text, "before", Min(rows))
           after == Cursor(pg, "messages", pg.text, "after", Max(rows))
<1>1. list = [rows |-> rows, prev |-> IF edges.before THEN before ELSE NoCursor,
              next |-> IF edges.after THEN after ELSE NoCursor]
  BY DEF MessageList, NextPosition
<1>2. rows \in SUBSET Nat /\ (rows # {} => Min(rows) \in Nat /\ Max(rows) \in Nat)
  <2>1. rows \in SUBSET store /\ (rows # {} => Min(rows) \in rows /\ Max(rows) \in rows)
    BY RowsFacts
  <2>2. store \subseteq Nat
    BY StoreFinite
  <2> HIDE DEF rows
  <2> QED BY <2>1, <2>2
<1>3. (edges.before \/ edges.after) => rows # {}
  BY DEF Edges
<1>4. pg.text \in Texts
  BY DEF Listings
<1>5. rows # {} => /\ before \in Cursors /\ before # NoCursor
                   /\ after \in Cursors /\ after # NoCursor /\ after.position = Max(rows)
                   /\ after.direction = "after" /\ after.text = pg.text
  <2> HIDE DEF rows
  <2> QED BY <1>2, <1>4, CursorMade
<1>6. NoCursor \in Cursors
  BY DEF Cursors
<1> HIDE DEF before, after, edges, list, rows
<1>7. /\ list.rows = rows /\ list.prev = IF edges.before THEN before ELSE NoCursor
      /\ list.next = IF edges.after THEN after ELSE NoCursor
  BY <1>1
<1>8. list.prev \in Cursors /\ list.next \in Cursors
  BY <1>3, <1>5, <1>6, <1>7
<1>9. list \in Lists
  BY <1>1, <1>2, <1>3, <1>5, <1>6 DEF Lists
<1>10. list.next # NoCursor => edges.after /\ list.next = after /\ rows # {}
  BY <1>3, <1>7
<1>11. list.next # NoCursor <=> edges.after
  BY <1>3, <1>5, <1>7
<1>12. list.prev # NoCursor <=> edges.before
  BY <1>3, <1>5, <1>7
<1> QED BY <1>5, <1>7, <1>9, <1>10, <1>11, <1>12 DEF edges, rows, list

\* The order of the candidates, by label and id.
Sooner == {p \in Offered \X Offered : Before(p[1], p[2])}
Later == Reversed(Sooner)

LEMMA CandidatesOrdered ==
  ASSUME WorldTyped
  PROVE  /\ IsFiniteSet(Offered) /\ Offered \subseteq Nat /\ Offered \subseteq Options
         /\ Linear(Offered, Sooner) /\ Linear(Offered, Later)
         /\ \A x, y \in Offered : (<<x, y>> \in Sooner <=> Before(x, y))
                                  /\ (<<x, y>> \in Later <=> Before(y, x))
<1>1. Offered \in SUBSET Options /\ IsFiniteSet(Offered) /\ Offered \subseteq Nat
  <2>1. Offered \in SUBSET Options
    BY DEF Offered
  <2> QED BY <2>1, QueryConstants, FS_Subset
<1>2. \A x \in Offered : x \in Nat /\ label[x] \in Nat
  <2>1. \A x \in Options : label[x] \in Labels \cup {0}
    BY DEF WorldTyped
  <2>2. ASSUME NEW x \in Offered
        PROVE  x \in Nat /\ label[x] \in Nat
    <3>1. x \in Options /\ x \in Nat
      BY <1>1
    <3>2. label[x] \in Labels \cup {0}
      BY <2>1, <3>1
    <3>3. Labels \subseteq Nat
      BY QueryConstants
    <3>4. CASE label[x] \in Labels
      BY <3>1, <3>3, <3>4
    <3>5. CASE label[x] = 0
      BY <3>1, <3>5
    <3> QED BY <3>2, <3>4, <3>5
  <2> QED BY <2>2
<1>3. \A x, y \in Offered : <<x, y>> \in Sooner <=> Before(x, y)
  BY DEF Sooner
<1>4. \A x \in Offered : ~Before(x, x)
  BY <1>2 DEF Before
<1>5. \A x, y, z \in Offered : Before(x, y) /\ Before(y, z) => Before(x, z)
  BY <1>2 DEF Before
<1>6. \A x, y \in Offered : x = y \/ Before(x, y) \/ Before(y, x)
  BY <1>2 DEF Before
<1>7. Linear(Offered, Sooner)
  BY <1>3, <1>4, <1>5, <1>6 DEF Linear
<1>8. Sooner \subseteq Offered \X Offered
  BY DEF Sooner
<1>9. Linear(Offered, Later) /\ \A x, y : <<x, y>> \in Later <=> <<y, x>> \in Sooner
  BY <1>7, <1>8, LinearReversed DEF Later
<1> QED BY <1>1, <1>3, <1>7, <1>9

LEMMA CandidatesLead ==
  ASSUME WorldTyped, NEW S \in SUBSET Offered, NEW n
  PROVE  Firsts(S, n) = Lead(S, Sooner, n) /\ Lasts(S, n) = Lead(S, Later, n)
<1>1. \A x, y \in S : (<<x, y>> \in Sooner <=> Before(x, y)) /\ (<<x, y>> \in Later <=> Before(y, x))
  BY CandidatesOrdered
<1>2. \A x \in S : {y \in S : Before(y, x)} = Under(S, Sooner, x)
  BY <1>1 DEF Under
<1>3. \A x \in S : {y \in S : Before(x, y)} = Under(S, Later, x)
  BY <1>1 DEF Under
<1>4. Firsts(S, n) = Lead(S, Sooner, n)
  BY <1>2 DEF Firsts, Lead
<1>5. Lasts(S, n) = Lead(S, Later, n)
  BY <1>3 DEF Lasts, Lead
<1> QED BY <1>4, <1>5

\* The ends of a list of candidates are two of its rows.
LEMMA CandidateEnds ==
  ASSUME WorldTyped, NEW rows, rows \subseteq Offered, rows # {}
  PROVE  End(rows, FALSE) \in rows /\ End(rows, TRUE) \in rows
<1>0. IsFiniteSet(rows)
  BY CandidatesOrdered, FS_Subset
<1>1. Linear(rows, Sooner)
  BY CandidatesOrdered DEF Linear
<1>2. Linear(rows, Later)
  BY CandidatesOrdered DEF Linear
<1>3. \A x, y \in rows : (<<x, y>> \in Sooner <=> Before(x, y)) /\ (<<x, y>> \in Later <=> Before(y, x))
  BY CandidatesOrdered
<1>4. PICK x \in rows : \A y \in rows : y = x \/ <<x, y>> \in Sooner
  BY <1>0, <1>1, FirstOf
<1>5. \A y \in rows : y = x \/ (Before(y, x) <=> FALSE)
  BY <1>4, <1>1, <1>3 DEF Linear
<1>6. PICK z \in rows : \A y \in rows : y = z \/ <<z, y>> \in Later
  BY <1>0, <1>2, FirstOf
<1>7. \A y \in rows : y = z \/ (Before(y, z) <=> TRUE)
  BY <1>6, <1>3
<1>8. End(rows, FALSE) \in rows
  BY <1>5 DEF End
<1>9. End(rows, TRUE) \in rows
  BY <1>7 DEF End
<1> QED BY <1>8, <1>9

CandidateRows(c) ==
  IF c.direction = "before" THEN Lasts(Side(c), PageSize) ELSE Firsts(Side(c), PageSize)
Back(c) ==
  IF c.direction = "before" THEN Cardinality(Side(c)) > PageSize
  ELSE c.direction = "after" /\ Side(c) # Offered
On(c) == IF c.direction = "before" THEN Side(c) # Offered ELSE Cardinality(Side(c)) > PageSize

LEMMA CandidateListFacts ==
  ASSUME WorldTyped, NEW pg \in Listings, NEW c
  PROVE  LET list == CandidateList(pg, c)
         IN  /\ list \in Lists /\ list.rows = CandidateRows(c) /\ list.rows \subseteq Side(c)
             /\ Side(c) \subseteq Offered
             /\ list.prev # NoCursor <=> list.rows # {} /\ Back(c)
             /\ list.next # NoCursor <=> list.rows # {} /\ On(c)
<1> DEFINE rows == CandidateRows(c)
           list == CandidateList(pg, c)
           before == Cursor(pg, "candidates", "all", "before", End(rows, FALSE))
           after == Cursor(pg, "candidates", "all", "after", End(rows, TRUE))
<1>1. list = [rows |-> rows, prev |-> IF rows # {} /\ Back(c) THEN before ELSE NoCursor,
              next |-> IF rows # {} /\ On(c) THEN after ELSE NoCursor]
  BY DEF CandidateList, CandidateRows, Back, On
<1>2. Side(c) \subseteq Offered
  BY DEF Side
<1>3. rows \subseteq Side(c)
  BY DEF CandidateRows, Lasts, Firsts
<1>4. rows \in SUBSET Nat
  BY <1>2, <1>3, CandidatesOrdered
<1>5. rows # {} => End(rows, FALSE) \in Nat /\ End(rows, TRUE) \in Nat
  <2> HIDE DEF rows
  <2>1. rows \subseteq Offered
    BY <1>2, <1>3
  <2> QED BY <2>1, <1>4, CandidateEnds
<1>6. "all" \in Texts /\ NoCursor \in Cursors
  BY DEF Texts, Cursors
<1>7. rows # {} => before \in Cursors /\ before # NoCursor /\ after \in Cursors /\ after # NoCursor
  <2> HIDE DEF rows
  <2>1. ASSUME NEW d \in {"after", "before"}, NEW p \in Nat
        PROVE  /\ Cursor(pg, "candidates", "all", d, p) \in Cursors
               /\ Cursor(pg, "candidates", "all", d, p) # NoCursor
    BY <1>6, CursorMade
  <2> QED BY <2>1, <1>5
<1> HIDE DEF before, after, list, rows
<1>8. list \in Lists
  BY <1>1, <1>4, <1>6, <1>7 DEF Lists
<1>9. /\ list.rows = rows
      /\ list.prev = IF rows # {} /\ Back(c) THEN before ELSE NoCursor
      /\ list.next = IF rows # {} /\ On(c) THEN after ELSE NoCursor
  BY <1>1
<1>10. list.prev # NoCursor <=> rows # {} /\ Back(c)
  BY <1>7, <1>9
<1>11. list.next # NoCursor <=> rows # {} /\ On(c)
  BY <1>7, <1>9
<1> QED BY <1>2, <1>3, <1>8, <1>9, <1>10, <1>11 DEF list, rows

-----------------------------------------------------------------------------
(* The history window                                                      *)

\* As many as n elements that have all above them are among the highest n.
LEMMA TopFacts ==
  ASSUME NEW S \in SUBSET Nat, IsFiniteSet(S), NEW n \in Nat, n > 0,
         NEW T \in SUBSET S, \A x \in T, y \in S : y > x => y \in T, Cardinality(T) <= n
  PROVE  T \subseteq Highest(S, n) /\ (Cardinality(T) = n => T = Highest(S, n))
<1>1. IsFiniteSet(T) /\ Cardinality(T) \in Nat
  BY FS_Subset, FS_CardinalityType
<1>2. ASSUME NEW x \in T
      PROVE  x \in Highest(S, n)
  <2> DEFINE above == {y \in S : y > x}
  <2>1. above \in SUBSET (T \ {x})
    <3>1. ASSUME NEW y \in above PROVE y \in T \ {x}
      <4>1. y \in S /\ y > x /\ x \in Nat /\ y \in Nat
        OBVIOUS
      <4>2. y \in T /\ y # x
        BY <4>1
      <4> QED BY <4>2
    <3> HIDE DEF above
    <3> QED BY <3>1
  <2>2. IsFiniteSet(T \ {x}) /\ Cardinality(T \ {x}) = Cardinality(T) - 1
    BY <1>1, FS_RemoveElement
  <2>3. Cardinality(above) <= Cardinality(T) - 1
    <3> HIDE DEF above
    <3> QED BY <2>1, <2>2, FS_Subset
  <2>4. Cardinality(above) \in Nat
    <3> HIDE DEF above
    <3> QED BY <2>1, <2>2, FS_Subset, FS_CardinalityType
  <2>5. Cardinality(above) < n
    <3> HIDE DEF above
    <3> QED BY <2>3, <2>4, <1>1
  <2> QED BY <2>5 DEF Highest
<1>3. ASSUME Cardinality(T) = n
      PROVE  T = Highest(S, n)
  <2> DEFINE H == Highest(S, n)
  <2>1. IsFiniteSet(H) /\ Cardinality(H) <= n
    BY HighestFacts
  <2>2. T \in SUBSET H /\ Cardinality(H) \in Nat
    BY <1>2, <2>1, FS_CardinalityType
  <2> HIDE DEF H
  <2>3. Cardinality(T) <= Cardinality(H)
    BY <2>1, <2>2, FS_Subset
  <2>4. Cardinality(H) = Cardinality(T)
    BY <2>1, <2>2, <2>3, <1>1, <1>3
  <2>5. H = T
    BY <2>1, <2>2, <2>4, FS_Subset
  <2> QED BY <2>5 DEF H
<1> QED BY <1>2, <1>3

\* A stretch of the store has all of it between two of its own.
Whole(w) == \A x \in store : (\E a, b \in w : a < x /\ x < b) => x \in w

\* The messages up to an end, and the highest of them.
LEMMA UptoFacts ==
  ASSUME WorldTyped, NEW end \in Nat
  PROVE  LET w == Highest(Upto(end), WindowSize)
         IN  /\ Upto(end) \in SUBSET store /\ w \in SUBSET Upto(end)
             /\ \A x \in w, y \in Upto(end) : y > x => y \in w
             /\ Upto(end) # {} => w # {}
             /\ Whole(w)
<1> DEFINE w == Highest(Upto(end), WindowSize)
<1>1. Upto(end) \in SUBSET store
  BY DEF Upto
<1>2. IsFiniteSet(Upto(end)) /\ Upto(end) \in SUBSET Nat /\ store \subseteq Nat
  BY <1>1, StoreFinite
<1>3. /\ w \in SUBSET Upto(end) /\ (Upto(end) # {} => w # {})
      /\ \A x \in w, y \in Upto(end) : y > x => y \in w
  BY <1>2, QueryConstants, HighestFacts
<1>4. ASSUME NEW x \in store, NEW a \in w, NEW b \in w, a < x, x < b
      PROVE  x \in w
  <2>1. x \in Nat /\ a \in Nat /\ b \in Nat /\ b \in Upto(end)
    BY <1>2, <1>3
  <2>2. x \in Upto(end)
    BY <2>1, <1>4 DEF Upto
  <2> HIDE DEF w
  <2> QED BY <2>1, <2>2, <1>3, <1>4
<1> QED BY <1>1, <1>3, <1>4 DEF Whole

LEMMA OlderPart ==
  ASSUME NEW S \in SUBSET Nat, IsFiniteSet(S), NEW n \in Nat
  PROVE  /\ Highest(S, n) \in SUBSET S /\ IsFiniteSet(Highest(S, n))
         /\ \A x \in Highest(S, n), y \in S : y > x => y \in Highest(S, n)
         /\ Cardinality(Highest(S, n)) <= n /\ Cardinality(Highest(S, n)) \in Nat
<1>1. CASE n > 0
  BY <1>1, HighestFacts, FS_CardinalityType
<1>2. CASE n = 0
  <2>1. \A x \in S : {y \in S : y > x} \in SUBSET S
    OBVIOUS
  <2>2. \A x \in S : Cardinality({y \in S : y > x}) \in Nat
    BY <2>1, FS_Subset, FS_CardinalityType
  <2>3. Highest(S, n) = {}
    <3>1. \A x \in S : ~(Cardinality({y \in S : y > x}) < 0)
      BY <2>2
    <3> QED BY <3>1, <1>2 DEF Highest
  <2> QED BY <2>3, <1>2, FS_EmptySet
<1> QED BY <1>1, <1>2

\* The window around a message is a stretch that holds it, and is as long as it
\* can be where it reaches the newest message.
LEMMA AroundFacts ==
  ASSUME WorldTyped, NEW t \in store
  PROVE  LET w == Around(t)
         IN  /\ w \in SUBSET store /\ t \in w /\ Whole(w)
             /\ (~\E x \in store : x > Max(w)) => w = Highest(store, WindowSize)
<1> DEFINE lower == {x \in store : x < t}
           upper == {x \in store : x >= t}
           older == Highest(lower, Older)
           left == WindowSize - Cardinality(older)
           newer == Lowest(upper, left)
           first == older \cup newer
           U == Upto(Max(first))
           w == Around(t)
<1>1. w = IF Cardinality(first) < WindowSize THEN Highest(U, WindowSize) ELSE first
  BY DEF Around
<1>2. /\ store \subseteq Nat /\ (\A m \in store : m > 0) /\ IsFiniteSet(store) /\ store \in SUBSET Nat
      /\ IsFiniteSet(lower) /\ lower \in SUBSET Nat /\ IsFiniteSet(upper) /\ upper \in SUBSET Nat
  <2>1. lower \in SUBSET store /\ upper \in SUBSET store
    OBVIOUS
  <2> HIDE DEF lower, upper
  <2> QED BY <2>1, StoreFinite
<1>3. /\ older \in SUBSET lower /\ IsFiniteSet(older)
      /\ \A x \in older, y \in lower : y > x => y \in older
      /\ Cardinality(older) <= Older /\ Cardinality(older) \in Nat
  <2> HIDE DEF lower
  <2> QED BY <1>2, QueryConstants, OlderPart
<1>4. left \in Nat /\ left > 0
  <2> HIDE DEF older
  <2> QED BY <1>3, QueryConstants
<1>5. /\ newer \in SUBSET upper /\ IsFiniteSet(newer)
      /\ \A x \in newer, y \in upper : y < x => y \in newer
      /\ (upper # {} => newer # {}) /\ Cardinality(newer) <= left /\ Cardinality(newer) \in Nat
  <2> HIDE DEF upper, left
  <2> QED BY <1>2, <1>4, LowestFacts, FS_CardinalityType
<1> HIDE DEF w
<1>6. t \in Nat /\ t \in upper
  BY <1>2
<1>7. t \in newer
  <2>1. PICK y \in newer : TRUE
    <3> HIDE DEF newer, upper
    <3> QED BY <1>5, <1>6
  <2>2. y \in Nat /\ y >= t
    <3> HIDE DEF newer
    <3> QED BY <1>5, <1>2
  <2>3. y = t \/ t < y
    BY <2>2, <1>6
  <2> HIDE DEF newer, upper
  <2> QED BY <2>3, <1>5, <1>6
<1>8. IsFiniteSet(first) /\ Cardinality(first) <= WindowSize /\ Cardinality(first) \in Nat
  <2> HIDE DEF older, newer
  <2>1. IsFiniteSet(first) /\ Cardinality(first) = Cardinality(older) + Cardinality(newer)
                                                  - Cardinality(older \cap newer)
    BY <1>3, <1>5, FS_Union
  <2>2. Cardinality(first) \in Nat
    BY <2>1, FS_CardinalityType
  <2>3. Cardinality(older \cap newer) \in Nat
    BY <1>3, FS_Intersection, FS_CardinalityType
  <2> QED BY <2>1, <2>2, <2>3, <1>3, <1>5, QueryConstants
<1>9. first \in SUBSET store /\ t \in first
  <2>1. lower \subseteq store /\ upper \subseteq store
    OBVIOUS
  <2> HIDE DEF older, newer, lower, upper
  <2> QED BY <2>1, <1>3, <1>5, <1>7
<1>10. Whole(first)
  <2> SUFFICES ASSUME NEW x \in store, NEW a \in first, NEW b \in first, a < x, x < b
               PROVE  x \in first
    BY DEF Whole
  <2>1. x \in Nat /\ a \in Nat /\ b \in Nat /\ a \in store /\ b \in store
    <3> HIDE DEF first
    <3> QED BY <1>9, <1>2
  <2>2. CASE x < t
    <3>1. x \in lower /\ a < t
      BY <2>1, <2>2, <1>6
    <3>2. a \notin newer
      <4>1. a \notin upper
        BY <3>1, <2>1, <1>6
      <4> HIDE DEF newer, upper
      <4> QED BY <4>1, <1>5
    <3>3. a \in older /\ x > a
      BY <3>2, <2>1
    <3> HIDE DEF older, lower
    <3> QED BY <3>1, <3>3, <1>3
  <2>3. CASE x >= t
    <3>1. x \in upper /\ b > t
      BY <2>1, <2>3, <1>6
    <3>2. b \notin older
      <4>1. b \notin lower
        BY <3>1, <2>1, <1>6
      <4> HIDE DEF older, lower
      <4> QED BY <4>1, <1>3
    <3>3. b \in newer
      BY <3>2
    <3> HIDE DEF newer, upper
    <3> QED BY <3>1, <3>3, <1>5
  <2> QED BY <2>1, <2>2, <2>3, <1>6
<1> HIDE DEF first
<1>11. Max(first) \in first /\ (\A y \in first : Max(first) >= y) /\ Max(first) \in Nat /\ Max(first) > 0
  <2>1. first \subseteq Nat /\ first # {}
    BY <1>9, <1>2
  <2>2. Max(first) \in first /\ (\A y \in first : Max(first) >= y)
    BY <2>1, <1>8, EndFacts
  <2>3. Max(first) \in store
    BY <2>2, <1>9
  <2> QED BY <2>1, <2>2, <2>3, <1>2
<1>12. U = {x \in store : x <= Max(first)}
  BY <1>11 DEF Upto
<1>13. /\ first \in SUBSET U /\ U \in SUBSET store /\ U \in SUBSET Nat /\ IsFiniteSet(U)
       /\ \A x \in first, y \in U : y > x => y \in first
  <2>1. U \in SUBSET store
    BY <1>12
  <2>2. U \in SUBSET Nat /\ IsFiniteSet(U)
    BY <2>1, StoreFinite
  <2>3. first \in SUBSET U
    BY <1>9, <1>11, <1>12, <1>2
  <2>4. ASSUME NEW x \in first, NEW y \in U, y > x
        PROVE  y \in first
    <3>1. y \in store /\ y <= Max(first) /\ y \in Nat /\ x \in Nat
      BY <1>12, <1>2, <1>9
    <3>2. y = Max(first) \/ (x < y /\ y < Max(first))
      BY <3>1, <2>4, <1>11
    <3> QED BY <3>1, <3>2, <1>10, <1>11 DEF Whole
  <2> QED BY <2>1, <2>2, <2>3, <2>4
<1>14. ASSUME \A x \in store : ~(x > Max(first))
       PROVE  U = store
  <2>1. ASSUME NEW x \in store PROVE x <= Max(first)
    <3>1. x \in Nat /\ ~(x > Max(first))
      BY <1>14, <1>2
    <3> QED BY <3>1, <1>11
  <2> QED BY <2>1, <1>12
<1>15. CASE Cardinality(first) < WindowSize
  <2>1. w = Highest(U, WindowSize)
    BY <1>1, <1>15
  <2>2. first \subseteq w
    BY <1>13, <1>8, QueryConstants, TopFacts, <2>1
  <2>3. w \in SUBSET U /\ Whole(w)
    BY <1>11, UptoFacts, <2>1
  <2>4. Max(w) = Max(first)
    <3>1. w \subseteq Nat /\ IsFiniteSet(w) /\ w # {}
      BY <2>2, <2>3, <1>9, <1>13, FS_Subset
    <3>2. Max(w) \in w /\ \A y \in w : Max(w) >= y
      BY <3>1, EndFacts
    <3>3. Max(w) <= Max(first) /\ Max(w) >= Max(first)
      BY <3>2, <2>2, <2>3, <1>12, <1>11
    <3>4. Max(w) \in Nat
      BY <3>1, <3>2
    <3> QED BY <3>3, <3>4, <1>11
  <2>5. (\A x \in store : ~(x > Max(w))) => w = Highest(store, WindowSize)
    BY <2>1, <2>4, <1>14
  <2> QED BY <2>2, <2>3, <2>5, <1>9, <1>13 DEF w
<1>16. CASE ~(Cardinality(first) < WindowSize)
  <2>1. w = first
    BY <1>1, <1>16
  <2>2. Cardinality(first) = WindowSize
    BY <1>8, <1>16, QueryConstants
  <2>3. first = Highest(U, WindowSize)
    BY <1>13, <1>8, <2>2, QueryConstants, TopFacts
  <2>4. (\A x \in store : ~(x > Max(w))) => w = Highest(store, WindowSize)
    BY <2>1, <2>3, <1>14
  <2> QED BY <2>1, <2>4, <1>9, <1>10 DEF w
<1> QED BY <1>15, <1>16

LEMMA WindowFacts ==
  ASSUME WorldTyped, NEW pg \in Listings
  PROVE  HistoryWindow(pg) \in SUBSET store /\ WindowEnd(pg, HistoryWindow(pg)) \in Nat
<1> DEFINE w == HistoryWindow(pg)
<1>1. pg.end \in Nat
  BY DEF Listings
<1>2. Focused(pg) => pg.target \in store
  BY DEF Focused
<1>3. w \in SUBSET store
  <2>1. Highest(Upto(pg.end), WindowSize) \in SUBSET store
    BY <1>1, UptoFacts
  <2>2. Focused(pg) => Around(pg.target) \in SUBSET store
    BY <1>2, AroundFacts
  <2> QED BY <2>1, <2>2 DEF HistoryWindow
<1>4. w # {} => Max(w) \in Nat
  <2> HIDE DEF w
  <2>1. IsFiniteSet(w) /\ w \subseteq Nat
    BY <1>3, StoreFinite
  <2>2. w # {} => Max(w) \in w
    BY <2>1, EndFacts
  <2> QED BY <2>1, <2>2
<1>5. Focused(pg) /\ pg.layout # "message" => w # {}
  <2>1. Focused(pg) => pg.target \in Around(pg.target)
    BY <1>2, AroundFacts
  <2> QED BY <2>1 DEF HistoryWindow
<1>6. WindowEnd(pg, w) \in Nat
  <2> HIDE DEF w
  <2> QED BY <1>1, <1>4, <1>5 DEF WindowEnd
<1> QED BY <1>3, <1>6

Searching(pg) == IF Stale(pg, pg.search) THEN NoCursor ELSE pg.search

\* What a publication leaves: the page keeps all but where its window ends and
\* a search that is lost.
LEMMA PublishFacts ==
  ASSUME WorldTyped, NEW pg \in Listings, PublishLists(pg)
  PROVE  /\ listing' \in Listings
         /\ listing'.generation = pg.generation /\ listing'.layout = pg.layout
         /\ listing'.target = pg.target /\ listing'.text = pg.text
         /\ listing'.cursor = pg.cursor
         /\ listing'.end = WindowEnd(pg, HistoryWindow(pg))
         /\ display'.messages = MessageList(pg) /\ display'.messages \in Lists
         /\ display'.window = HistoryWindow(pg)
         /\ display'.candidates = CandidateList(pg, Searching(pg)) /\ display'.candidates \in Lists
<1> DEFINE end == WindowEnd(pg, HistoryWindow(pg))
<1>1. end \in Nat
  BY WindowFacts
<1>2. /\ pg.search \in Cursors /\ NoCursor \in Cursors
  BY DEF Listings, Cursors
<1>3. listing' = [pg EXCEPT !.end = end,
                            !.search = IF Stale(pg, pg.search) THEN NoCursor ELSE pg.search]
  BY DEF PublishLists, Candidates
<1>4. display' = [messages |-> MessageList(pg), window |-> HistoryWindow(pg),
                candidates |-> CandidateList(pg, Searching(pg)),
                recovered |-> Stale(pg, pg.search)]
  BY DEF PublishLists, Candidates, Searching
<1>5. MessageList(pg) \in Lists
  BY MessageListFacts
<1>6. CandidateList(pg, Searching(pg)) \in Lists
  BY CandidateListFacts
<1> HIDE DEF end
<1>7. /\ listing' \in Listings
      /\ listing'.generation = pg.generation /\ listing'.layout = pg.layout
      /\ listing'.target = pg.target /\ listing'.text = pg.text
      /\ listing'.cursor = pg.cursor /\ listing'.end = end
  BY <1>1, <1>2, <1>3 DEF Listings
<1> QED BY <1>4, <1>5, <1>6, <1>7 DEF end

\* The next page of a walk begins where nothing is left behind: what is not met
\* by now lies after it, and there is no next page only where all is met.
LEMMA WalkGoesOn ==
  ASSUME WorldTyped, NEW pg \in Listings, NEW due, due \subseteq Hits(pg.text), NEW seen,
         pg.cursor # NoCursor => /\ pg.cursor.direction = "after"
                                 /\ \A m \in due \ seen : m > pg.cursor.position
  PROVE  LET list == MessageList(pg)
             met == seen \cup list.rows
         IN  /\ list.next = NoCursor => due \subseteq met
             /\ list.next # NoCursor => \A m \in due \ met : m > list.next.position
<1> DEFINE list == MessageList(pg)
           met == seen \cup list.rows
           S == Beyond(Hits(pg.text), pg.cursor)
           rows == Rows(pg.text, pg.cursor)
<1>1. list.rows = rows
  BY MessageListFacts
<1>2. pg.cursor.direction # "before"
  BY DEF NoCursor
<1>3. /\ Hits(pg.text) \subseteq store /\ S \in SUBSET Hits(pg.text) /\ rows \in SUBSET S
      /\ S # {} => rows # {}
      /\ rows # {} => /\ Max(rows) \in rows /\ \A y \in rows : Max(rows) >= y
      /\ \A x \in S \ rows, y \in rows : y < x
      /\ Cardinality(S) > PageSize <=> rows # S
  BY <1>2, RowsFacts
<1>4. ASSUME NEW m \in due \ met
      PROVE  m \in S \ rows
  <2>1. m \in Hits(pg.text) /\ m \notin rows /\ m \notin seen
    BY <1>1
  <2>2. m \in S
    BY <2>1 DEF Beyond, NoCursor
  <2> QED BY <2>1, <2>2
<1>5. ASSUME NEW m \in due \ met
      PROVE  list.next # NoCursor /\ m > list.next.position
  <2> HIDE DEF S, rows
  <2>1. m \in S \ rows /\ m \in store
    BY <1>3, <1>4
  <2>2. rows # {} /\ Max(rows) < m /\ m > Max(rows)
    <3>1. rows # {}
      BY <1>3, <2>1
    <3>2. Max(rows) < m
      BY <1>3, <2>1, <3>1
    <3>3. Max(rows) \in Nat /\ m \in Nat
      BY <1>3, <2>1, <3>1, StoreFinite
    <3> QED BY <3>1, <3>2, <3>3
  <2>3. Edges(pg.text, pg.cursor, rows).after
    <3>1. CASE pg.text = "all"
      BY <2>1, <2>2, <3>1 DEF Edges
    <3>2. CASE pg.text # "all"
      <4>1. Beyond(Hits("text"), pg.cursor) = S
        <5>1. pg.text = "text"
          BY <3>2 DEF Listings, Texts
        <5> QED BY <5>1 DEF S
      <4>2. Cardinality(S) > PageSize
        BY <1>3, <2>1
      <4> QED BY <4>1, <4>2, <2>2, <3>2, <1>2 DEF Edges, Searched
    <3> QED BY <3>1, <3>2
  <2>4. list.next # NoCursor /\ list.next.position = Max(rows)
    BY <1>1, <2>3, MessageListFacts
  <2> QED BY <2>2, <2>4
<1> QED BY <1>5

-----------------------------------------------------------------------------
(* A walk meets every message                                              *)

\* A viewer's page begins at a message of the store, or at none.
LEMMA InitialTargetTyped ==
  ASSUME WorldTyped
  PROVE  InitialTarget \in Nat
<1> DEFINE bot == store \cap OfBot
<1>1. store # {} => Max(store) \in store /\ store \subseteq Nat
  BY StoreFinite, EndFacts
<1>2. bot \in SUBSET store
  OBVIOUS
<1> HIDE DEF bot
<1>3. bot # {} => Max(bot) \in bot /\ bot \subseteq Nat
  BY <1>2, StoreFinite, EndFacts
<1>4. InitialTarget = IF store = {} THEN 0 ELSE IF bot = {} THEN Max(store) ELSE Max(bot)
  BY DEF InitialTarget, bot
<1> QED BY <1>1, <1>3, <1>4

LEMMA QueriesStart == QueriesInit => WalkInv
<1> SUFFICES ASSUME QueriesInit PROVE WalkInv
  OBVIOUS
<1>1. WorldTyped /\ issued \in Nat
  BY QueryConstants DEF QueriesInit, WorldTyped, Ids
<1>2. listing \in Listings /\ listing.cursor = NoCursor
  BY <1>1, QueryConstants, InitialTargetTyped DEF QueriesInit, Listings, Cursors, Texts
<1>3. display.messages = MessageList(listing) /\ display.candidates = CandidateList(listing, NoCursor)
  BY DEF QueriesInit
<1>4. kept = {} /\ walk = NoWalk
  BY DEF QueriesInit
<1>5. display.messages \in Lists /\ display.candidates \in Lists
  BY <1>1, <1>2, <1>3, MessageListFacts, CandidateListFacts
<1>6. walk \in [on : BOOLEAN, seen : SUBSET Nat, there : SUBSET Nat] /\ ~walk.on
  BY <1>4 DEF NoWalk
<1>7. QueryTypes
  BY <1>1, <1>2, <1>4, <1>5, <1>6 DEF QueryTypes
<1>8. LeadsOn
  BY <1>1, <1>2, <1>3, MessageListFacts DEF LeadsOn, CursorCurrent, Reads
<1>9. OnTheWay
  BY <1>6 DEF OnTheWay
<1> QED BY <1>7, <1>8, <1>9 DEF WalkInv

LEMMA HeldTyped ==
  ASSUME QueryTypes, NEW c \in Held
  PROVE  c \in Cursors
  BY DEF QueryTypes, Held, Lists, Cursors

\* A publication of a page whose cursor is current leaves all but the walk right.
LEMMA PublicationKeeps ==
  ASSUME QueryTypes, NEW pg \in Listings, PublishLists(pg), Quiet,
         Reads(pg, "messages", pg.text, pg.cursor),
         walk' \in [on : BOOLEAN, seen : SUBSET Nat, there : SUBSET Nat]
  PROVE  QueryTypes' /\ LeadsOn'
<1>1. WorldTyped /\ WorldTyped' /\ issued' \in Nat /\ kept' \subseteq Cursors
  BY DEF QueryTypes, WorldTyped, Quiet
<1>2. /\ listing' \in Listings
      /\ listing'.generation = pg.generation /\ listing'.text = pg.text
      /\ listing'.cursor = pg.cursor
      /\ display'.messages = MessageList(pg) /\ display'.messages \in Lists
      /\ display'.candidates \in Lists
  BY <1>1, PublishFacts
<1>3. QueryTypes'
  BY <1>1, <1>2 DEF QueryTypes
<1>4. CursorCurrent'
  BY <1>2 DEF CursorCurrent, Reads
<1>5. display'.messages.next # NoCursor =>
        display'.messages.next.direction = "after" /\ display'.messages.next.text = listing'.text
  BY <1>1, <1>2, MessageListFacts
<1>6. LeadsOn'
  BY <1>4, <1>5 DEF LeadsOn
<1> QED BY <1>3, <1>6

\* A walk of which a publication shows the page it stands at.
LEMMA PublicationWalks ==
  ASSUME QueryTypes, NEW pg \in Listings, PublishLists(pg), Quiet,
         NEW due \in SUBSET Nat, due \subseteq Hits(pg.text), NEW seen \in SUBSET Nat,
         pg.cursor # NoCursor => /\ pg.cursor.direction = "after"
                                 /\ \A m \in due \ seen : m > pg.cursor.position,
         walk' = [on |-> TRUE, seen |-> seen \cup display'.messages.rows, there |-> due]
  PROVE  OnTheWay' /\ walk' \in [on : BOOLEAN, seen : SUBSET Nat, there : SUBSET Nat]
<1>1. WorldTyped /\ store' = store
  BY DEF QueryTypes, Quiet
<1>2. /\ listing'.text = pg.text /\ listing'.cursor = pg.cursor
      /\ display'.messages = MessageList(pg) /\ display'.messages \in Lists
  BY <1>1, PublishFacts
<1>3. /\ walk'.on = TRUE /\ walk'.there = due /\ walk'.seen = seen \cup display'.messages.rows
      /\ walk' \in [on : BOOLEAN, seen : SUBSET Nat, there : SUBSET Nat]
  BY <1>2 DEF Lists
<1>4. /\ MessageList(pg).next = NoCursor => due \subseteq walk'.seen
      /\ MessageList(pg).next # NoCursor =>
           \A m \in due \ walk'.seen : m > MessageList(pg).next.position
  BY <1>1, <1>2, <1>3, WalkGoesOn
<1>5. due \subseteq Hits(listing.text)' 
  BY <1>1, <1>2 DEF Hits
<1>6. Awaited(listing.cursor)'
  BY <1>2, <1>3 DEF Awaited
<1>7. Awaited(display.messages.next)'
  BY <1>2, <1>3, <1>4 DEF Awaited
<1> QED BY <1>2, <1>3, <1>4, <1>5, <1>6, <1>7 DEF OnTheWay

LEMMA BrowseWalks ==
  ASSUME WalkInv, NEW text \in Texts, NEW c \in Held, Browse(text, c)
  PROVE  WalkInv'
<1> DEFINE pg == [listing EXCEPT !.text = text, !.cursor = c]
<1>1. QueryTypes /\ LeadsOn /\ OnTheWay /\ listing \in Listings
  BY DEF WalkInv, QueryTypes
<1>2. c \in Cursors
  BY <1>1, HeldTyped
<1>3. /\ pg \in Listings /\ pg.generation = listing.generation /\ pg.text = text /\ pg.cursor = c
  BY <1>1, <1>2 DEF Listings
<1>4. PublishLists(pg) /\ Quiet /\ Walks(text, c) /\ Reads(listing, "messages", text, c)
  BY DEF Browse
<1>5. Reads(pg, "messages", pg.text, pg.cursor)
  BY <1>3, <1>4 DEF Reads
<1> HIDE DEF pg
<1>6. OnTheWay' /\ walk' \in [on : BOOLEAN, seen : SUBSET Nat, there : SUBSET Nat]
  <2>0. WorldTyped /\ walk \in [on : BOOLEAN, seen : SUBSET Nat, there : SUBSET Nat]
    BY <1>1 DEF QueryTypes
  <2>1. CASE c = NoCursor
    <3>1. walk' = [on |-> TRUE, seen |-> {} \cup display'.messages.rows, there |-> Hits(text)]
      BY <1>4, <2>1 DEF Walks
    <3>2. Hits(text) \in SUBSET Nat /\ {} \in SUBSET Nat
      BY <2>0, StoreFinite DEF Hits
    <3> QED BY <3>1, <3>2, <1>1, <1>3, <1>4, <2>1, PublicationWalks
  <2>2. CASE c # NoCursor /\ walk.on /\ c = display.messages.next
    <3>1. walk' = [walk EXCEPT !.seen = @ \cup display'.messages.rows]
      BY <1>4, <2>2 DEF Walks
    <3>2. walk.seen \in SUBSET Nat /\ walk.there \in SUBSET Nat
      BY <2>0
    <3>3. walk' = [on |-> TRUE, seen |-> walk.seen \cup display'.messages.rows, there |-> walk.there]
      BY <2>0, <2>2, <3>1
    <3>4. /\ c.direction = "after" /\ c.text = listing.text
          /\ \A m \in walk.there \ walk.seen : m > c.position
          /\ walk.there \subseteq Hits(listing.text)
      BY <1>1, <2>2 DEF LeadsOn, OnTheWay, Awaited
    <3>5. text = listing.text
      BY <1>4, <2>2, <3>4 DEF Reads
    <3> QED BY <3>2, <3>3, <3>4, <3>5, <1>1, <1>3, <1>4, PublicationWalks
  <2>3. CASE ~(c = NoCursor) /\ ~(c # NoCursor /\ walk.on /\ c = display.messages.next)
    <3>1. walk' = NoWalk
      BY <1>4, <2>3 DEF Walks
    <3> QED BY <3>1 DEF NoWalk, OnTheWay
  <2> QED BY <2>1, <2>2, <2>3
<1>7. QueryTypes' /\ LeadsOn'
  BY <1>1, <1>3, <1>4, <1>5, <1>6, PublicationKeeps
<1> QED BY <1>6, <1>7 DEF WalkInv

LEMMA RefreshWalks ==
  ASSUME WalkInv, RefreshLists
  PROVE  WalkInv'
<1>1. QueryTypes /\ LeadsOn /\ OnTheWay /\ listing \in Listings
  BY DEF WalkInv, QueryTypes
<1>2. PublishLists(listing) /\ Quiet
      /\ walk' = IF walk.on THEN [walk EXCEPT !.seen = @ \cup display'.messages.rows] ELSE walk
  BY DEF RefreshLists
<1>3. Reads(listing, "messages", listing.text, listing.cursor)
  BY <1>1 DEF LeadsOn, CursorCurrent
<1>4. walk \in [on : BOOLEAN, seen : SUBSET Nat, there : SUBSET Nat]
  BY <1>1 DEF QueryTypes
<1>5. OnTheWay' /\ walk' \in [on : BOOLEAN, seen : SUBSET Nat, there : SUBSET Nat]
  <2>1. CASE walk.on
    <3>1. walk' = [on |-> TRUE, seen |-> walk.seen \cup display'.messages.rows, there |-> walk.there]
      BY <1>2, <1>4, <2>1
    <3>2. walk.seen \in SUBSET Nat /\ walk.there \in SUBSET Nat
      BY <1>4
    <3>3. /\ walk.there \subseteq Hits(listing.text)
          /\ listing.cursor # NoCursor => /\ listing.cursor.direction = "after"
                                          /\ \A m \in walk.there \ walk.seen : m > listing.cursor.position
      BY <1>1, <2>1 DEF OnTheWay, Awaited
    <3> QED BY <3>1, <3>2, <3>3, <1>1, <1>2, PublicationWalks
  <2>2. CASE ~walk.on
    <3>1. walk' = walk
      BY <1>2, <2>2
    <3> QED BY <3>1, <2>2, <1>4 DEF OnTheWay
  <2> QED BY <2>1, <2>2
<1>6. QueryTypes' /\ LeadsOn'
  BY <1>1, <1>2, <1>3, <1>5, PublicationKeeps
<1> QED BY <1>5, <1>6 DEF WalkInv

\* A publication that ends the walk.
LEMMA WalkEnds ==
  ASSUME WalkInv, NEW pg \in Listings, PublishLists(pg), Quiet, walk' = NoWalk,
         Reads(pg, "messages", pg.text, pg.cursor)
  PROVE  WalkInv'
<1>1. walk' \in [on : BOOLEAN, seen : SUBSET Nat, there : SUBSET Nat] /\ OnTheWay'
  BY DEF NoWalk, OnTheWay
<1>2. QueryTypes' /\ LeadsOn'
  BY <1>1, PublicationKeeps DEF WalkInv
<1> QED BY <1>1, <1>2 DEF WalkInv

LEMMA NavigationTyped ==
  ASSUME NEW pg \in Listings
  PROVE  Moved(pg) \in Listings /\ Moved(pg).cursor = NoCursor
         /\ Moved(pg).layout = pg.layout /\ Moved(pg).target = pg.target /\ Moved(pg).end = pg.end
         /\ Moved(pg).text = pg.text
<1>1. pg.generation \in Nat /\ pg.generation + 1 \in Nat
  BY DEF Listings
<1>2. NoCursor \in Cursors
  BY DEF Cursors
<1> DEFINE g == pg.generation + 1
<1>3. Moved(pg) = [pg EXCEPT !.generation = g, !.cursor = NoCursor, !.search = NoCursor]
  BY DEF Moved, Listings
<1>4. g \in Nat
  BY <1>1
<1> HIDE DEF g
<1> QED BY <1>2, <1>3, <1>4 DEF Listings

LEMMA NavigatesKeeps ==
  ASSUME WalkInv, NEW pg \in Listings, Navigates(pg)
  PROVE  WalkInv'
<1>1. Moved(pg) \in Listings /\ Moved(pg).cursor = NoCursor
  BY NavigationTyped
<1>2. PublishLists(Moved(pg)) /\ walk' = NoWalk /\ Quiet
  BY DEF Navigates
<1>3. Reads(Moved(pg), "messages", Moved(pg).text, Moved(pg).cursor)
  BY <1>1 DEF Reads
<1> QED BY <1>1, <1>2, <1>3, WalkEnds

-----------------------------------------------------------------------------
(* Steps to older and newer messages, by rank                              *)

LEMMA PairEnds ==
  ASSUME NEW a \in Int, NEW b \in Int
  PROVE  /\ Max({a, b}) = IF a >= b THEN a ELSE b
         /\ Min({a, b}) = IF a <= b THEN a ELSE b
<1> DEFINE hi == IF a >= b THEN a ELSE b
           lo == IF a <= b THEN a ELSE b
<1>1. hi \in {a, b} /\ \A y \in {a, b} : hi >= y
  OBVIOUS
<1>2. lo \in {a, b} /\ \A y \in {a, b} : lo <= y
  OBVIOUS
<1>3. \A x \in {a, b} : (\A y \in {a, b} : x >= y) => x = hi
  OBVIOUS
<1>4. \A x \in {a, b} : (\A y \in {a, b} : x <= y) => x = lo
  OBVIOUS
<1> HIDE DEF hi, lo
<1>5. Max({a, b}) = hi
  BY <1>1, <1>3 DEF Max
<1>6. Min({a, b}) = lo
  BY <1>2, <1>4 DEF Min
<1> QED BY <1>5, <1>6 DEF hi, lo

\* Every rank up to the number of messages is one message's.
LEMMA RankedFacts ==
  ASSUME WorldTyped, NEW n \in Nat, n > 0, n <= Cardinality(store)
  PROVE  Ranked(n) \in store /\ Cardinality(Upto(Ranked(n))) = n
<1>0. store \subseteq Nat /\ IsFiniteSet(store) /\ Cardinality(store) \in Nat
      /\ \A x \in store : x \in Nat /\ x > 0
  BY StoreFinite
<1>1. \A x \in store : Upto(x) = {y \in store : y <= x}
  BY <1>0 DEF Upto
<1>2. \A x \in store : /\ Upto(x) \in SUBSET store /\ IsFiniteSet(Upto(x))
                       /\ Cardinality(Upto(x)) \in Nat
  <2>1. \A x \in store : Upto(x) \in SUBSET store
    BY <1>1
  <2> QED BY <2>1, <1>0, FS_Subset, FS_CardinalityType
<1> DEFINE T == {x \in store : Cardinality(Upto(x)) >= n}
<1>3. T # {}
  <2>1. store # {}
    BY FS_EmptySet
  <2>2. Max(store) \in store /\ \A y \in store : Max(store) >= y
    BY <2>1, <1>0, EndFacts
  <2>3. Upto(Max(store)) = store
    <3>1. ASSUME NEW y \in store PROVE y <= Max(store)
      <4>1. y \in Nat /\ Max(store) \in Nat /\ Max(store) >= y
        BY <2>2, <1>0
      <4> QED BY <4>1
    <3> QED BY <3>1, <2>2, <1>1
  <2> QED BY <2>2, <2>3, <1>0
<1>4. T \subseteq Nat
  BY <1>0
<1>5. PICK x \in T : \A z \in T : x <= z
  <2> HIDE DEF T
  <2> QED BY <1>3, <1>4, LeastNatural
<1>6. x \in store /\ Cardinality(Upto(x)) >= n /\ Cardinality(Upto(x)) \in Nat
  BY <1>2
<1>7. ASSUME Cardinality(Upto(x)) > n
      PROVE  FALSE
  <2> DEFINE less == Upto(x) \ {x}
  <2>1. x \in Upto(x)
    BY <1>0, <1>1, <1>6
  <2>2. IsFiniteSet(less) /\ Cardinality(less) = Cardinality(Upto(x)) - 1
    BY <2>1, <1>2, <1>6, FS_RemoveElement
  <2>3. Cardinality(less) >= n
    BY <2>2, <1>6, <1>7
  <2>4. less # {} /\ less \subseteq Nat /\ less \subseteq store
    <3>1. less \subseteq store
      BY <1>2, <1>6
    <3>2. less # {}
      <4> HIDE DEF less
      <4> QED BY <2>3, FS_EmptySet
    <3> QED BY <3>1, <3>2, <1>0
  <2>5. Max(less) \in less /\ \A y \in less : Max(less) >= y
    <3> HIDE DEF less
    <3> QED BY <2>2, <2>4, EndFacts
  <2> DEFINE z == Max(less)
  <2> HIDE DEF z
  <2>6. z \in store /\ z \in Nat /\ z # x /\ z <= x
    <3>1. z \in Upto(x) /\ z # x
      BY <2>5 DEF z
    <3> QED BY <3>1, <1>0, <1>1, <1>6
  <2>7. less \in SUBSET Upto(z)
    <3>1. ASSUME NEW y \in less PROVE y \in Upto(z)
      <4>1. y \in store /\ y \in Nat /\ z >= y
        BY <2>4, <2>5 DEF z
      <4>2. y <= z
        BY <4>1, <2>6
      <4> QED BY <4>1, <4>2, <2>6, <1>1
    <3> HIDE DEF less
    <3> QED BY <3>1
  <2>8. Cardinality(less) <= Cardinality(Upto(z)) /\ Cardinality(less) \in Nat
    <3> HIDE DEF less
    <3> QED BY <2>2, <2>6, <2>7, <1>2, FS_Subset, FS_CardinalityType
  <2>9. Cardinality(Upto(z)) \in Nat
    BY <2>6, <1>2
  <2>10. Cardinality(Upto(z)) >= n
    <3> HIDE DEF less
    <3> QED BY <2>3, <2>8, <2>9
  <2>11. z \in T
    BY <2>10, <2>6
  <2>12. x <= z
    BY <2>11, <1>5
  <2> QED BY <2>6, <2>12, <1>0, <1>6
<1>8. Cardinality(Upto(x)) = n
  BY <1>6, <1>7
<1>9. Ranked(n) \in store /\ Cardinality(Upto(Ranked(n))) = n
  BY <1>6, <1>8 DEF Ranked
<1> QED BY <1>9

LEMMA RankTypes ==
  ASSUME WorldTyped, listing \in Listings
  PROVE  /\ Total \in Nat /\ EndRank \in Nat /\ EndRank <= Total
         /\ StartRank = IF EndRank > WindowSize THEN EndRank - WindowSize ELSE 0
<1>1. IsFiniteSet(store) /\ Total \in Nat
  BY StoreFinite DEF Total
<1>2. Upto(listing.end) \in SUBSET store
  BY DEF Upto
<1>3. EndRank \in Nat /\ EndRank <= Total
  BY <1>1, <1>2, FS_Subset, FS_CardinalityType DEF EndRank, Total
<1>4. StartRank = IF 0 >= EndRank - WindowSize THEN 0 ELSE EndRank - WindowSize
  <2>1. EndRank - WindowSize \in Int
    BY <1>3, QueryConstants
  <2> QED BY <2>1, PairEnds DEF StartRank
<1>5. StartRank = IF EndRank > WindowSize THEN EndRank - WindowSize ELSE 0
  BY <1>3, <1>4, QueryConstants
<1> QED BY <1>1, <1>3, <1>5

\* The window of a step to older messages ends a step after where the window
\* that it comes from begins.
LEMMA OlderPlace ==
  ASSUME WorldTyped, listing \in Listings, StartRank > 0
  PROVE  /\ OlderAnchor \in store /\ OlderAnchor \in Nat
         /\ EndRank > WindowSize
         /\ Cardinality(Upto(OlderAnchor)) = EndRank - WindowSize + Step
<1>1. /\ Total \in Nat /\ EndRank \in Nat /\ EndRank <= Total
      /\ StartRank = IF EndRank > WindowSize THEN EndRank - WindowSize ELSE 0
  BY RankTypes
<1>2. EndRank > WindowSize /\ StartRank = EndRank - WindowSize
  BY <1>1
<1>3. EndRank \in Int /\ StartRank + Step \in Int
  BY <1>1, <1>2, QueryConstants
<1>4. Min({EndRank, StartRank + Step}) = EndRank - WindowSize + Step
  <2>1. Min({EndRank, StartRank + Step}) = IF EndRank <= StartRank + Step THEN EndRank ELSE StartRank + Step
    BY <1>3, PairEnds
  <2> QED BY <2>1, <1>1, <1>2, QueryConstants
<1> DEFINE n == EndRank - WindowSize + Step
<1>5. n \in Nat /\ n > 0 /\ n <= Total
  BY <1>1, <1>2, QueryConstants
<1>6. OlderAnchor = Ranked(n)
  BY <1>4 DEF OlderAnchor
<1> HIDE DEF n
<1>7. OlderAnchor \in store /\ Cardinality(Upto(OlderAnchor)) = n
  BY <1>5, <1>6, RankedFacts DEF Total
<1>8. OlderAnchor \in Nat
  BY <1>7, StoreFinite
<1> QED BY <1>2, <1>7, <1>8 DEF n

\* The window of a step to newer messages ends no more than a step after the
\* end of the one that it comes from.
LEMMA NewerPlace ==
  ASSUME WorldTyped, listing \in Listings, EndRank < Total
  PROVE  /\ NewerAnchor \in Nat /\ (NewerAnchor # 0 => NewerAnchor \in store)
         /\ EndRank >= WindowSize =>
              /\ Cardinality(Upto(NewerAnchor)) \in Nat
              /\ Cardinality(Upto(NewerAnchor)) >= EndRank
              /\ Cardinality(Upto(NewerAnchor)) <= EndRank + Step
<1>1. /\ Total \in Nat /\ EndRank \in Nat /\ EndRank <= Total /\ Total > 0
      /\ StartRank = IF EndRank > WindowSize THEN EndRank - WindowSize ELSE 0
  BY RankTypes
<1>2. StartRank \in Nat /\ Total - 1 \in Int /\ StartRank + Step \in Int
  BY <1>1, QueryConstants
<1> DEFINE m == IF Total - 1 <= StartRank + Step THEN Total - 1 ELSE StartRank + Step
           n == IF Total <= m + WindowSize THEN Total ELSE m + WindowSize
<1>3. Min({Total - 1, StartRank + Step}) = m
  BY <1>2, PairEnds
<1>4. m \in Nat
  BY <1>1, <1>2, QueryConstants
<1>5. NewerEnd = n
  <2> HIDE DEF m
  <2>1. m + WindowSize \in Int
    BY <1>4, QueryConstants
  <2>2. NewerEnd = Min({Total, m + WindowSize})
    BY <1>3 DEF NewerEnd
  <2>3. Min({Total, m + WindowSize}) = n
    <3>1. \A a, b \in Int : Min({a, b}) = IF a <= b THEN a ELSE b
      BY PairEnds
    <3>2. Total \in Int
      BY <1>1
    <3> QED BY <2>1, <3>1, <3>2
  <2> QED BY <2>2, <2>3
<1>6. n \in Nat /\ n > 0 /\ n <= Total
  <2> HIDE DEF m
  <2> QED BY <1>1, <1>4, QueryConstants
<1>7. EndRank >= WindowSize => n >= EndRank /\ n <= EndRank + Step
  BY <1>1, <1>2, QueryConstants
<1> HIDE DEF n
<1>8. Cardinality(Upto(NewerAnchor)) = n /\ NewerAnchor \in Nat
      /\ (NewerAnchor # 0 => NewerAnchor \in store)
  <2>1. CASE n = Total
    <3>1. NewerAnchor = 0
      BY <2>1, <1>5 DEF NewerAnchor
    <3>2. Upto(0) = store
      BY DEF Upto
    <3> QED BY <3>1, <3>2, <2>1 DEF Total
  <2>2. CASE n # Total
    <3>1. NewerAnchor = Ranked(n)
      BY <2>2, <1>5 DEF NewerAnchor
    <3>2. NewerAnchor \in store /\ Cardinality(Upto(NewerAnchor)) = n
      BY <3>1, <1>6, RankedFacts DEF Total
    <3> QED BY <3>2, StoreFinite
  <2> QED BY <2>1, <2>2
<1> QED BY <1>6, <1>7, <1>8

\* What every action but the walk's own leaves of a page of the lists.
LEMMA NavigationKeeps ==
  ASSUME WalkInv,
         \/ ViewerChanges \/ HistoryOlder \/ HistoryNewer \/ HistoryLatest
         \/ \E layout \in {"message", "channel"} : Configure(layout)
         \/ \E t \in Ids : Focus(t)
  PROVE  WalkInv'
<1>1. WorldTyped /\ listing \in Listings
  BY DEF WalkInv, QueryTypes
<1>2. listing.target \in Nat /\ listing.end \in Nat
  BY <1>1 DEF Listings
<1>3. CASE ViewerChanges
  <2> DEFINE latest == InitialTarget
             end == IF listing.layout = "channel" THEN latest ELSE listing.end
             pg == [listing EXCEPT !.target = latest, !.text = "all", !.end = end]
  <2>1. latest \in Nat
    BY <1>1, InitialTargetTyped
  <2>2. Navigates(pg)
    BY <1>3, <1>1 DEF ViewerChanges, Listings
  <2>3. pg \in Listings
    <3>1. end \in Nat
      BY <1>2, <2>1
    <3> HIDE DEF latest, end
    <3> QED BY <1>1, <2>1, <3>1 DEF Listings, Texts
  <2> HIDE DEF pg
  <2> QED BY <2>2, <2>3, NavigatesKeeps
<1>4. ASSUME NEW anchor \in Nat, History(anchor)
      PROVE  WalkInv'
  <2> DEFINE pg == [listing EXCEPT !.end = anchor, !.target = 0]
  <2>1. Navigates(pg) /\ pg \in Listings
    BY <1>1, <1>4 DEF History, Listings
  <2> HIDE DEF pg
  <2> QED BY <2>1, NavigatesKeeps
<1>5. CASE HistoryOlder
  <2>1. OlderAnchor \in Nat
    BY <1>1, <1>5, OlderPlace DEF HistoryOlder
  <2> QED BY <2>1, <1>4, <1>5 DEF HistoryOlder
<1>6. CASE HistoryNewer
  <2>1. EndRank < Total
    BY <1>6 DEF HistoryNewer
  <2>2. NewerAnchor \in Nat
    BY <1>1, <2>1, NewerPlace
  <2> QED BY <2>2, <1>4, <1>6 DEF HistoryNewer
<1>7. CASE HistoryLatest
  BY <1>4, <1>7 DEF HistoryLatest
<1>8. ASSUME NEW layout \in {"message", "channel"}, Configure(layout)
      PROVE  WalkInv'
  <2> DEFINE end == IF layout = "channel" THEN listing.target ELSE listing.end
             pg == [listing EXCEPT !.layout = layout, !.end = end]
  <2>1. Navigates(pg)
    BY <1>8, <1>1 DEF Configure, Listings
  <2>2. pg \in Listings
    <3>1. end \in Nat
      BY <1>2
    <3> HIDE DEF end
    <3> QED BY <1>1, <3>1 DEF Listings
  <2> HIDE DEF pg
  <2> QED BY <2>1, <2>2, NavigatesKeeps
<1>9. ASSUME NEW t \in Ids, Focus(t)
      PROVE  WalkInv'
  <2> DEFINE end == IF listing.layout = "channel" THEN t ELSE listing.end
             pg == [listing EXCEPT !.target = t, !.end = end]
  <2>1. Navigates(pg)
    BY <1>9, <1>1 DEF Focus, Listings
  <2>2. pg \in Listings
    <3>1. end \in Nat /\ t \in Nat
      BY <1>2, QueryConstants DEF Ids
    <3> HIDE DEF end
    <3> QED BY <1>1, <3>1 DEF Listings
  <2> HIDE DEF pg
  <2> QED BY <2>1, <2>2, NavigatesKeeps
<1> QED BY <1>3, <1>5, <1>6, <1>7, <1>8, <1>9

LEMMA WorldKeeps ==
  ASSUME WalkInv,
         \/ Created
         \/ \E m \in Ids : Deleted(m)
         \/ \E e \in Options, l \in Labels \cup {0} : Rename(e, l)
         \/ \E c \in Held : Keep(c)
  PROVE  WalkInv'
<1>1. QueryTypes /\ WorldTyped /\ LeadsOn /\ OnTheWay
  BY DEF WalkInv, QueryTypes
<1>2. CASE Created
  <2>1. issued \in Nat /\ issued' = issued + 1 /\ store' = store \cup {issued + 1}
        /\ issued < MaxMessages /\ UNCHANGED <<label, listing, display, kept, walk>>
    BY <1>1, <1>2 DEF Created, QueryTypes
  <2>2. issued + 1 \in Ids /\ issued' \in Nat
    BY <2>1, QueryConstants DEF Ids
  <2>3. QueryTypes'
    BY <1>1, <2>1, <2>2 DEF QueryTypes, WorldTyped
  <2>4. LeadsOn'
    BY <1>1, <2>1 DEF LeadsOn, CursorCurrent
  <2>5. Hits(listing.text) \subseteq Hits(listing.text)'
    BY <2>1 DEF Hits
  <2>6. OnTheWay'
    BY <1>1, <2>1, <2>5 DEF OnTheWay, Awaited
  <2> QED BY <2>3, <2>4, <2>6 DEF WalkInv
<1>3. ASSUME NEW m \in Ids, Deleted(m)
      PROVE  WalkInv'
  <2>1. store' = store \ {m} /\ walk' = [walk EXCEPT !.there = @ \ {m}]
        /\ UNCHANGED <<issued, label, listing, display, kept>>
    BY <1>3 DEF Deleted
  <2>2. walk \in [on : BOOLEAN, seen : SUBSET Nat, there : SUBSET Nat]
    BY <1>1 DEF QueryTypes
  <2>3. /\ walk' \in [on : BOOLEAN, seen : SUBSET Nat, there : SUBSET Nat]
        /\ walk'.on = walk.on /\ walk'.seen = walk.seen /\ walk'.there = walk.there \ {m}
    BY <2>1, <2>2
  <2>4. QueryTypes'
    BY <1>1, <2>1, <2>3 DEF QueryTypes, WorldTyped
  <2>5. LeadsOn'
    BY <1>1, <2>1 DEF LeadsOn, CursorCurrent
  <2>6. Hits(listing.text)' = Hits(listing.text) \ {m}
    BY <2>1 DEF Hits
  <2>7. OnTheWay'
    BY <1>1, <2>1, <2>3, <2>6 DEF OnTheWay, Awaited
  <2> QED BY <2>4, <2>5, <2>7 DEF WalkInv
<1>4. ASSUME NEW e \in Options, NEW l \in Labels \cup {0}, Rename(e, l)
      PROVE  WalkInv'
  <2>1. label' = [label EXCEPT ![e] = l] /\ UNCHANGED <<store, issued, listing, display, kept, walk>>
    BY <1>4 DEF Rename
  <2>2. label' \in [Options -> Labels \cup {0}]
    BY <1>1, <2>1 DEF WorldTyped
  <2>3. QueryTypes'
    BY <1>1, <2>1, <2>2 DEF QueryTypes, WorldTyped
  <2>4. LeadsOn' /\ OnTheWay'
    BY <1>1, <2>1 DEF LeadsOn, CursorCurrent, OnTheWay, Awaited, Hits
  <2> QED BY <2>3, <2>4 DEF WalkInv
<1>5. ASSUME NEW c \in Held, Keep(c)
      PROVE  WalkInv'
  <2>1. kept' = {c} /\ UNCHANGED <<store, issued, label, listing, display, walk>>
    BY <1>5 DEF Keep
  <2>2. c \in Cursors
    BY <1>1, HeldTyped
  <2>3. QueryTypes'
    BY <1>1, <2>1, <2>2 DEF QueryTypes, WorldTyped
  <2>4. LeadsOn' /\ OnTheWay'
    BY <1>1, <2>1 DEF LeadsOn, CursorCurrent, OnTheWay, Awaited, Hits
  <2> QED BY <2>3, <2>4 DEF WalkInv
<1> QED BY <1>2, <1>3, <1>4, <1>5

LEMMA CandidatesKeep ==
  ASSUME WalkInv, NEW c \in Held, BrowseCandidates(c)
  PROVE  WalkInv'
<1> DEFINE pg == [listing EXCEPT !.search = c]
<1>1. QueryTypes /\ listing \in Listings /\ CursorCurrent
  BY DEF WalkInv, QueryTypes, LeadsOn
<1>2. c \in Cursors
  BY <1>1, HeldTyped
<1>3. /\ pg \in Listings /\ pg.generation = listing.generation /\ pg.text = listing.text
      /\ pg.cursor = listing.cursor
  BY <1>1, <1>2 DEF Listings
<1>4. PublishLists(pg) /\ walk' = NoWalk /\ Quiet
  BY DEF BrowseCandidates
<1>5. Reads(pg, "messages", pg.text, pg.cursor)
  BY <1>1, <1>3 DEF CursorCurrent, Reads
<1> HIDE DEF pg
<1> QED BY <1>3, <1>4, <1>5, WalkEnds

LEMMA QueriesStep == WalkInv /\ [QueriesNext]_queryVars => WalkInv'
<1> SUFFICES ASSUME WalkInv, [QueriesNext]_queryVars PROVE WalkInv'
  OBVIOUS
<1>1. ASSUME NEW text \in Texts, NEW c \in Held, Browse(text, c) PROVE WalkInv'
  BY <1>1, BrowseWalks
<1>2. ASSUME NEW c \in Held, BrowseCandidates(c) PROVE WalkInv'
  BY <1>2, CandidatesKeep
<1>3. CASE RefreshLists
  BY <1>3, RefreshWalks
<1>4. CASE UNCHANGED queryVars
  BY <1>4 DEF queryVars, WalkInv, QueryTypes, WorldTyped, LeadsOn, OnTheWay, CursorCurrent, Awaited, Hits
<1> QED BY <1>1, <1>2, <1>3, <1>4, NavigationKeeps, WorldKeeps DEF QueriesNext

\* Whatever is posted, deleted, renamed, refreshed or navigated between two
\* steps, the page never holds a cursor it would refuse, and who follows "next"
\* to the last page has met every message that was there all along
\* (validate_message_query, _message_navigation).
THEOREM WalkAlwaysComplete == QueriesSpec => []WalkComplete
<1>1. WalkInv => WalkComplete
  BY DEF WalkInv, LeadsOn, OnTheWay, WalkComplete, WalkMeetsAll
<1> QED BY <1>1, QueriesStart, QueriesStep, PTL DEF QueriesSpec

-----------------------------------------------------------------------------
(* A list is a stretch, and says what is before and after it               *)

\* A set of rows is before (after) all that a search from its end can find.
LEMMA Seeks ==
  ASSUME NEW S, S \subseteq Nat, IsFiniteSet(S), NEW rows, rows \subseteq S, rows # {}
  PROVE  /\ (\E x \in S : x < Min(rows)) <=> \E x \in S : \A y \in rows : x < y
         /\ (\E x \in S : x > Max(rows)) <=> \E x \in S : \A y \in rows : y < x
<1>1. rows \subseteq Nat /\ IsFiniteSet(rows)
  BY FS_Subset
<1>2. /\ Min(rows) \in rows /\ \A y \in rows : Min(rows) <= y
      /\ Max(rows) \in rows /\ \A y \in rows : Max(rows) >= y
  BY <1>1, EndFacts
<1>3. Min(rows) \in Nat /\ Max(rows) \in Nat
  BY <1>1, <1>2
<1>4. ASSUME NEW x \in S, x < Min(rows) PROVE \A y \in rows : x < y
  <2> SUFFICES ASSUME NEW y \in rows PROVE x < y
    OBVIOUS
  <2>1. x \in Nat /\ y \in Nat /\ Min(rows) <= y
    BY <1>1, <1>2
  <2> QED BY <2>1, <1>3, <1>4
<1>5. ASSUME NEW x \in S, x > Max(rows) PROVE \A y \in rows : y < x
  <2> SUFFICES ASSUME NEW y \in rows PROVE y < x
    OBVIOUS
  <2>1. x \in Nat /\ y \in Nat /\ Max(rows) >= y
    BY <1>1, <1>2
  <2> QED BY <2>1, <1>3, <1>5
<1>6. ASSUME NEW x \in S, \A y \in rows : y < x PROVE x > Max(rows)
  <2>1. Max(rows) < x /\ x \in Nat
    BY <1>2, <1>6
  <2> QED BY <2>1, <1>3
<1> QED BY <1>2, <1>4, <1>5, <1>6

LEMMA BeyondSides ==
  ASSUME WorldTyped, NEW text, NEW c \in Cursors
  PROVE  LET S == Hits(text)
             side == Beyond(S, c)
             rows == Rows(text, c)
         IN  /\ S \subseteq Nat /\ IsFiniteSet(S) /\ rows \subseteq S
             /\ \A x \in S : (\E a, b \in rows : a < x /\ x < b) => x \in rows
             /\ rows # {} /\ c.direction = "before" =>
                  (Cardinality(side) > PageSize <=> \E x \in S : \A y \in rows : x < y)
             /\ rows # {} /\ c.direction # "before" =>
                  (Cardinality(side) > PageSize <=> \E x \in S : \A y \in rows : y < x)
             /\ rows # {} /\ c.direction \notin {"before", "after"} =>
                  ~\E x \in S : \A y \in rows : x < y
<1> DEFINE S == Hits(text)
           side == Beyond(S, c)
           rows == Rows(text, c)
<1>1. S \subseteq Nat /\ IsFiniteSet(S) /\ S \in SUBSET Nat
  <2>1. S \in SUBSET store
    BY DEF Hits
  <2> QED BY <2>1, StoreFinite
<1>2. side \in SUBSET S /\ side \in SUBSET Nat
  <2>1. side \in SUBSET S
    BY DEF Beyond
  <2> QED BY <2>1, <1>1
<1>3. /\ Linear(S, Up) /\ Linear(S, Down)
      /\ \A x, y \in S : (<<x, y>> \in Up <=> x < y) /\ (<<x, y>> \in Down <=> x > y)
  BY <1>1, NumbersOrdered
<1>4. \A x \in S : x \in Nat
  BY <1>1
<1>5. c.direction \in {"before", "after"} => c.position \in Nat
  BY CursorFacts DEF NoCursor
<1>6. CASE c.direction = "before"
  <2>1. side = {x \in S : x < c.position}
    BY <1>6 DEF Beyond
  <2>2. ASSUME NEW x \in side, NEW y \in S, <<x, y>> \in Down
        PROVE  y \in side
    <3>1. x \in S /\ x < c.position /\ x > y
      BY <2>1, <2>2, <1>3
    <3>2. y < c.position
      BY <3>1, <1>4, <1>5, <1>6
    <3> QED BY <2>1, <3>2
  <2>3. rows = Lead(side, Down, PageSize)
    <3>1. rows = Highest(side, PageSize)
      BY <1>6 DEF Rows
    <3> HIDE DEF side
    <3> QED BY <3>1, <1>2, NumbersLead
  <2> HIDE DEF S, side, rows
  <2>a. IsFiniteSet(S) /\ Linear(S, Down) /\ side \in SUBSET S /\ PageSize \in Nat /\ PageSize > 0
    BY <1>1, <1>2, <1>3, QueryConstants
  <2>b. Closed(S, Down, side)
    BY <2>2 DEF Closed
  <2>i. InPlace(S, Down, side, PageSize)
    BY <2>a, <2>b, SideFacts
  <2>c. LET rs == Lead(side, Down, PageSize) IN
        /\ rs \subseteq side
        /\ \A x \in S : (\E a, b \in rs : <<a, x>> \in Down /\ <<x, b>> \in Down) => x \in rs
        /\ rs # {} => (Cardinality(side) > PageSize <=> \E x \in S : \A y \in rs : <<y, x>> \in Down)
    BY <2>i DEF InPlace
  <2>4. /\ rows \subseteq side
        /\ \A x \in S : (\E a, b \in rows : <<a, x>> \in Down /\ <<x, b>> \in Down) => x \in rows
        /\ rows # {} => (Cardinality(side) > PageSize <=> \E x \in S : \A y \in rows : <<y, x>> \in Down)
    BY <2>c, <2>3
  <2>5. rows \subseteq S
    BY <2>4, <1>2
  <2>6. ASSUME NEW x \in S, NEW a \in rows, NEW b \in rows, a < x, x < b
        PROVE  x \in rows
    <3>1. a \in S /\ b \in S /\ b > x /\ x > a
      BY <2>5, <2>6, <1>4
    <3>2. <<b, x>> \in Down /\ <<x, a>> \in Down
      BY <3>1, <1>3
    <3> QED BY <3>2, <2>4
  <2>7. ASSUME NEW x \in S
        PROVE  (\A y \in rows : <<y, x>> \in Down) <=> \A y \in rows : x < y
    <3>1. \A y \in rows : <<y, x>> \in Down <=> x < y
      <4> SUFFICES ASSUME NEW y \in rows PROVE <<y, x>> \in Down <=> x < y
        OBVIOUS
      <4>1. y \in S
        BY <2>5
      <4>2. x < y <=> y > x
        BY <4>1, <1>4
      <4> QED BY <4>1, <4>2, <1>3
    <3> QED BY <3>1
  <2>8. rows # {} => (Cardinality(side) > PageSize <=> \E x \in S : \A y \in rows : x < y)
    BY <2>4, <2>7
  <2> QED BY <1>1, <1>6, <2>5, <2>6, <2>8 DEF S, side, rows
<1>7. CASE c.direction # "before"
  <2>1. side = IF c.direction = "after" THEN {x \in S : x > c.position} ELSE S
    BY <1>7 DEF Beyond
  <2>2. ASSUME NEW x \in side, NEW y \in S, <<x, y>> \in Up
        PROVE  y \in side
    <3>1. CASE c.direction = "after"
      <4>1. x \in S /\ x > c.position /\ x < y
        BY <2>1, <2>2, <1>3, <3>1
      <4>2. y > c.position
        BY <4>1, <1>4, <1>5, <3>1
      <4> QED BY <2>1, <4>2, <3>1
    <3>2. CASE c.direction # "after"
      BY <2>1, <3>2
    <3> QED BY <3>1, <3>2
  <2>3. rows = Lead(side, Up, PageSize)
    <3>1. rows = Lowest(side, PageSize)
      BY <1>7 DEF Rows
    <3> HIDE DEF side
    <3> QED BY <3>1, <1>2, NumbersLead
  <2> HIDE DEF S, side, rows
  <2>a. IsFiniteSet(S) /\ Linear(S, Up) /\ side \in SUBSET S /\ PageSize \in Nat /\ PageSize > 0
    BY <1>1, <1>2, <1>3, QueryConstants
  <2>b. Closed(S, Up, side)
    BY <2>2 DEF Closed
  <2>i. InPlace(S, Up, side, PageSize)
    BY <2>a, <2>b, SideFacts
  <2>c. LET rs == Lead(side, Up, PageSize) IN
        /\ rs \subseteq side
        /\ \A x \in S : (\E a, b \in rs : <<a, x>> \in Up /\ <<x, b>> \in Up) => x \in rs
        /\ rs # {} => (Cardinality(side) > PageSize <=> \E x \in S : \A y \in rs : <<y, x>> \in Up)
        /\ rs # {} => (side # S <=> \E x \in S : \A y \in rs : <<x, y>> \in Up)
    BY <2>i DEF InPlace
  <2>4. /\ rows \subseteq side
        /\ \A x \in S : (\E a, b \in rows : <<a, x>> \in Up /\ <<x, b>> \in Up) => x \in rows
        /\ rows # {} => (Cardinality(side) > PageSize <=> \E x \in S : \A y \in rows : <<y, x>> \in Up)
        /\ rows # {} => (side # S <=> \E x \in S : \A y \in rows : <<x, y>> \in Up)
    BY <2>c, <2>3
  <2>5. rows \subseteq S
    BY <2>4, <1>2
  <2>6. ASSUME NEW x \in S, NEW a \in rows, NEW b \in rows, a < x, x < b
        PROVE  x \in rows
    <3>1. <<a, x>> \in Up /\ <<x, b>> \in Up
      BY <2>5, <2>6, <1>3
    <3> QED BY <3>1, <2>4
  <2>7. \A x \in S, y \in rows : (<<y, x>> \in Up <=> y < x) /\ (<<x, y>> \in Up <=> x < y)
    BY <2>5, <1>3
  <2>8. rows # {} => (Cardinality(side) > PageSize <=> \E x \in S : \A y \in rows : y < x)
    BY <2>4, <2>7
  <2>9. rows # {} /\ c.direction # "after" => ~\E x \in S : \A y \in rows : x < y
    BY <2>1, <2>4, <2>7
  <2> QED BY <1>1, <1>7, <2>5, <2>6, <2>8, <2>9 DEF S, side, rows
<1> QED BY <1>6, <1>7

LEMMA MessagesStretch ==
  ASSUME WorldTyped, NEW pg \in Listings
  PROVE  Stretch(MessageList(pg), Hits(pg.text), Numbers)
<1> DEFINE S == Hits(pg.text)
           c == pg.cursor
           list == MessageList(pg)
           rows == Rows(pg.text, c)
           edges == Edges(pg.text, c, rows)
           First1 == \E x \in S : \A y \in rows : x < y
           Last1 == \E x \in S : \A y \in rows : y < x
<1>1. c \in Cursors /\ pg.text \in {"all", "text"}
  BY DEF Listings, Texts
<1>2. /\ list.rows = rows
      /\ list.next # NoCursor <=> edges.after
      /\ list.prev # NoCursor <=> edges.before
  BY MessageListFacts
<1>3. /\ S \subseteq Nat /\ IsFiniteSet(S) /\ rows \subseteq S
      /\ \A x \in S : (\E a, b \in rows : a < x /\ x < b) => x \in rows
      /\ rows # {} /\ c.direction = "before" => (Cardinality(Beyond(S, c)) > PageSize <=> First1)
      /\ rows # {} /\ c.direction # "before" => (Cardinality(Beyond(S, c)) > PageSize <=> Last1)
      /\ rows # {} /\ c.direction \notin {"before", "after"} => ~First1
  <2> HIDE DEF c
  <2> QED BY <1>1, BeyondSides
<1>4. ASSUME rows # {}
      PROVE  (edges.before <=> First1) /\ (edges.after <=> Last1)
  <2>1. /\ (\E x \in S : x < Min(rows)) <=> First1
        /\ (\E x \in S : x > Max(rows)) <=> Last1
    <3> HIDE DEF S, rows
    <3> QED BY <1>3, <1>4, Seeks
  <2>2. CASE pg.text = "all"
    <3>1. S = store
      BY <2>2 DEF Hits
    <3>2. edges = [before |-> \E x \in store : x < Min(rows), after |-> \E x \in store : x > Max(rows)]
      BY <2>2, <1>4 DEF Edges
    <3> HIDE DEF S, rows, First1, Last1, edges
    <3>3. /\ edges.before <=> \E x \in store : x < Min(rows)
          /\ edges.after <=> \E x \in store : x > Max(rows)
      BY <3>2
    <3> QED BY <2>1, <3>1, <3>3
  <2>3. CASE pg.text # "all"
    <3>1. pg.text = "text"
      BY <1>1, <2>3
    <3> DEFINE more == Cardinality(Beyond(S, c)) > PageSize
    <3>2. edges = [before |-> IF c.direction = "before" THEN more
                              ELSE c.direction = "after" /\ (\E x \in S : x < Min(rows)),
                   after |-> IF c.direction = "before" THEN \E x \in S : x > Max(rows) ELSE more]
      BY <3>1, <1>4 DEF Edges, Searched
    <3> HIDE DEF S, rows, First1, Last1, edges, more, c
    <3>3. /\ edges.before <=> (IF c.direction = "before" THEN more
                               ELSE c.direction = "after" /\ (\E x \in S : x < Min(rows)))
          /\ edges.after <=> (IF c.direction = "before" THEN \E x \in S : x > Max(rows) ELSE more)
      BY <3>2
    <3>4. c.direction = "before" => (more <=> First1)
      BY <1>3, <1>4 DEF more
    <3>5. c.direction # "before" => (more <=> Last1)
      BY <1>3, <1>4 DEF more
    <3>6. c.direction \notin {"before", "after"} => ~First1
      BY <1>3, <1>4
    <3> QED BY <2>1, <3>3, <3>4, <3>5, <3>6
  <2> QED BY <2>2, <2>3
<1> HIDE DEF S, list, rows, edges
<1>5. Stretch(list, S, Numbers)
  BY <1>2, <1>3, <1>4 DEF Stretch, Numbers
<1> QED BY <1>5 DEF S, list

LEMMA CandidatesStretch ==
  ASSUME WorldTyped, NEW pg \in Listings, NEW c \in Cursors, c # NoCursor => c.position \in Offered
  PROVE  Stretch(CandidateList(pg, c), Offered, Before)
<1> DEFINE side == Side(c)
           rows == CandidateRows(c)
           list == CandidateList(pg, c)
           First1 == \E x \in Offered : \A y \in rows : Before(x, y)
           Last1 == \E x \in Offered : \A y \in rows : Before(y, x)
<1>1. /\ list.rows = rows /\ rows \subseteq side /\ side \subseteq Offered
      /\ list.prev # NoCursor <=> rows # {} /\ Back(c)
      /\ list.next # NoCursor <=> rows # {} /\ On(c)
  BY CandidateListFacts
<1>2. /\ IsFiniteSet(Offered) /\ Linear(Offered, Sooner) /\ Linear(Offered, Later)
      /\ \A x, y \in Offered : (<<x, y>> \in Sooner <=> Before(x, y))
                               /\ (<<x, y>> \in Later <=> Before(y, x))
  BY CandidatesOrdered
<1>3. \A x, y, z \in Offered : Before(x, y) /\ Before(y, z) => Before(x, z)
  BY <1>2 DEF Linear
<1>4. \A x \in Offered : ~Before(x, x)
  BY <1>2 DEF Linear
<1>5. PageSize \in Nat /\ PageSize > 0
  BY QueryConstants
<1>6. c.direction \in {"before", "after"} => c.position \in Offered
  BY DEF NoCursor
<1>7. c.direction \in {"before", "after"} => side # Offered
  <2>1. SUFFICES ASSUME c.direction \in {"before", "after"} PROVE c.position \notin side
    BY <1>6
  <2> QED BY <2>1, <1>4, <1>6 DEF Side
<1>8. c.direction \notin {"before", "after"} => side = Offered
  BY DEF Side
<1>9. CASE c.direction = "before"
  <2>1. side = {e \in Offered : Before(e, c.position)}
    BY <1>9 DEF Side
  <2>2. ASSUME NEW x \in side, NEW y \in Offered, <<x, y>> \in Later
        PROVE  y \in side
    <3>1. x \in Offered /\ Before(x, c.position) /\ Before(y, x)
      BY <2>1, <2>2, <1>2
    <3>2. Before(y, c.position)
      BY <3>1, <1>3, <1>6, <1>9
    <3> QED BY <2>1, <3>2
  <2>3. Closed(Offered, Later, side)
    BY <2>2 DEF Closed
  <2>4. rows = Lead(side, Later, PageSize)
    <3> HIDE DEF side
    <3>1. side \in SUBSET Offered
      BY <1>1
    <3>2. Lasts(side, PageSize) = Lead(side, Later, PageSize)
      BY <3>1, CandidatesLead
    <3> QED BY <3>2, <1>9 DEF CandidateRows, side
  <2>5. Back(c) = (Cardinality(side) > PageSize) /\ On(c)
    BY <1>7, <1>9 DEF Back, On
  <2> HIDE DEF side, rows, list
  <2>6. IsFiniteSet(Offered)
    BY <1>2
  <2>7. Linear(Offered, Later)
    BY <1>2
  <2>8. side \in SUBSET Offered
    BY <1>1
  <2>i. InPlace(Offered, Later, side, PageSize)
    BY <2>3, <2>6, <2>7, <2>8, <1>5, SideFacts
  <2>9. LET rs == Lead(side, Later, PageSize) IN
        /\ \A x \in Offered : (\E a, b \in rs : <<a, x>> \in Later /\ <<x, b>> \in Later) => x \in rs
        /\ rs # {} => (Cardinality(side) > PageSize <=> \E x \in Offered : \A y \in rs : <<y, x>> \in Later)
        /\ rs # {} => (side # Offered <=> \E x \in Offered : \A y \in rs : <<x, y>> \in Later)
    BY <2>i DEF InPlace
  <2>10. \A x \in Offered, y \in rows : (<<y, x>> \in Later <=> Before(x, y))
                                        /\ (<<x, y>> \in Later <=> Before(y, x))
    BY <1>1, <1>2
  <2>11. \A x \in Offered : (\E a, b \in rows : Before(a, x) /\ Before(x, b)) => x \in rows
    BY <2>4, <2>9, <2>10
  <2>12. rows # {} => (Back(c) <=> First1)
    BY <2>4, <2>5, <2>9, <2>10
  <2>13. rows # {} => (On(c) <=> Last1)
    BY <2>4, <2>5, <2>9, <2>10, <1>7, <1>9
  <2> HIDE DEF First1, Last1
  <2>14. /\ list.rows \subseteq Offered
         /\ list.rows # {} => (list.prev # NoCursor <=> First1) /\ (list.next # NoCursor <=> Last1)
    BY <1>1, <2>12, <2>13
  <2> QED BY <1>1, <2>11, <2>14 DEF Stretch, First1, Last1, list
<1>10. CASE c.direction # "before"
  <2>2. ASSUME NEW x \in side, NEW y \in Offered, <<x, y>> \in Sooner
        PROVE  y \in side
    <3>1. CASE c.direction = "after"
      <4>1. x \in Offered /\ Before(c.position, x) /\ Before(x, y)
        BY <2>2, <1>2, <3>1 DEF Side
      <4>2. Before(c.position, y)
        BY <4>1, <1>3, <1>6, <3>1
      <4> QED BY <4>2, <3>1 DEF Side
    <3>2. CASE c.direction # "after"
      BY <1>8, <1>10, <3>2
    <3> QED BY <3>1, <3>2
  <2>3. Closed(Offered, Sooner, side)
    BY <2>2 DEF Closed
  <2>4. rows = Lead(side, Sooner, PageSize)
    <3> HIDE DEF side
    <3>1. side \in SUBSET Offered
      BY <1>1
    <3>2. Firsts(side, PageSize) = Lead(side, Sooner, PageSize)
      BY <3>1, CandidatesLead
    <3> QED BY <3>2, <1>10 DEF CandidateRows, side
  <2>5. (Back(c) <=> side # Offered) /\ (On(c) <=> Cardinality(side) > PageSize)
    BY <1>7, <1>8, <1>10 DEF Back, On
  <2> HIDE DEF side, rows, list
  <2>6. IsFiniteSet(Offered)
    BY <1>2
  <2>7. Linear(Offered, Sooner)
    BY <1>2
  <2>8. side \in SUBSET Offered
    BY <1>1
  <2>i. InPlace(Offered, Sooner, side, PageSize)
    BY <2>3, <2>6, <2>7, <2>8, <1>5, SideFacts
  <2>9. LET rs == Lead(side, Sooner, PageSize) IN
        /\ \A x \in Offered : (\E a, b \in rs : <<a, x>> \in Sooner /\ <<x, b>> \in Sooner) => x \in rs
        /\ rs # {} => (Cardinality(side) > PageSize <=> \E x \in Offered : \A y \in rs : <<y, x>> \in Sooner)
        /\ rs # {} => (side # Offered <=> \E x \in Offered : \A y \in rs : <<x, y>> \in Sooner)
    BY <2>i DEF InPlace
  <2>10. \A x \in Offered, y \in rows : (<<y, x>> \in Sooner <=> Before(y, x))
                                        /\ (<<x, y>> \in Sooner <=> Before(x, y))
    BY <1>1, <1>2
  <2>11. \A x \in Offered : (\E a, b \in rows : Before(a, x) /\ Before(x, b)) => x \in rows
    BY <2>4, <2>9, <2>10
  <2>12. rows # {} => (Back(c) <=> First1)
    BY <2>4, <2>5, <2>9, <2>10
  <2>13. rows # {} => (On(c) <=> Last1)
    BY <2>4, <2>5, <2>9, <2>10
  <2> HIDE DEF First1, Last1
  <2>14. /\ list.rows \subseteq Offered
         /\ list.rows # {} => (list.prev # NoCursor <=> First1) /\ (list.next # NoCursor <=> Last1)
    BY <1>1, <2>12, <2>13
  <2> QED BY <1>1, <2>11, <2>14 DEF Stretch, First1, Last1, list
<1> QED BY <1>9, <1>10

\* The window that a publication of the channel layout shows: a stretch, at the
\* newest message or up to the end that the page keeps, around its target.
LEMMA WindowPublished ==
  ASSUME WorldTyped, NEW pg \in Listings, pg.layout = "channel"
  PROVE  LET w == HistoryWindow(pg)
             end == WindowEnd(pg, w)
         IN  /\ Whole(w)
             /\ end = 0 => w \in {Highest(store, WindowSize), {}}
             /\ end # 0 => Max(w) = end
             /\ Focused(pg) => pg.target \in w
             /\ ~Focused(pg) => w = Highest(Upto(pg.end), WindowSize)
<1> DEFINE w == HistoryWindow(pg)
           end == WindowEnd(pg, w)
<1>1. pg.end \in Nat
  BY DEF Listings
<1>2. store \subseteq Nat /\ \A m \in store : m > 0
  BY StoreFinite
<1>3. w \in SUBSET store
  BY WindowFacts
<1>4. w # {} => Max(w) \in w /\ \A y \in w : Max(w) >= y
  <2> HIDE DEF w
  <2>1. IsFiniteSet(w) /\ w \subseteq Nat
    BY <1>3, StoreFinite
  <2> QED BY <2>1, EndFacts
<1>5. CASE Focused(pg)
  <2>1. pg.target \in store
    BY <1>5 DEF Focused
  <2>2. w = Around(pg.target)
    BY <1>5 DEF HistoryWindow
  <2>3. /\ pg.target \in w /\ Whole(w)
        /\ (~\E x \in store : x > Max(w)) => w = Highest(store, WindowSize)
    BY <2>1, <2>2, AroundFacts
  <2>4. end = IF \E x \in store : x > Max(w) THEN Max(w) ELSE 0
    BY <1>5 DEF WindowEnd
  <2> HIDE DEF w, end
  <2>5. end = 0 => w = Highest(store, WindowSize)
    <3>1. Max(w) # 0
      BY <1>2, <1>3, <1>4, <2>3
    <3> QED BY <2>3, <2>4, <3>1
  <2>6. end # 0 => Max(w) = end
    BY <2>4
  <2> QED BY <1>5, <2>3, <2>5, <2>6 DEF w, end
<1>6. CASE ~Focused(pg)
  <2>1. w = Highest(Upto(pg.end), WindowSize)
    BY <1>6 DEF HistoryWindow
  <2>2. Whole(w) /\ w \in SUBSET Upto(pg.end)
    BY <1>1, <2>1, UptoFacts
  <2>3. end = IF pg.end # 0 /\ pg.end \notin w
              THEN IF w = {} THEN 0 ELSE Max(w)
              ELSE pg.end
    BY <1>6 DEF WindowEnd
  <2> HIDE DEF w, end
  <2>4. ASSUME end = 0
        PROVE  w \in {Highest(store, WindowSize), {}}
    <3>1. CASE pg.end = 0
      <4>1. Upto(pg.end) = store
        BY <3>1 DEF Upto
      <4> QED BY <2>1, <4>1
    <3>2. CASE pg.end # 0
      <4>1. w # {} => Max(w) # 0
        BY <1>2, <1>3, <1>4
      <4> QED BY <2>3, <2>4, <3>2, <4>1
    <3> QED BY <3>1, <3>2
  <2>5. ASSUME end # 0
        PROVE  Max(w) = end
    <3>1. CASE pg.end \notin w
      BY <2>3, <2>5, <3>1
    <3>2. CASE pg.end \in w
      <4>1. end = pg.end /\ pg.end # 0
        BY <2>3, <2>5, <3>2
      <4>2. \A x \in w : x <= pg.end /\ x \in Nat
        BY <2>2, <4>1, <1>2, <1>3 DEF Upto
      <4>3. Max(w) \in w /\ Max(w) >= pg.end
        BY <1>4, <3>2
      <4>4. Max(w) <= pg.end /\ Max(w) \in Nat
        BY <4>2, <4>3
      <4> QED BY <4>1, <4>3, <4>4, <1>1
    <3> QED BY <3>1, <3>2
  <2> QED BY <1>6, <2>1, <2>2, <2>4, <2>5 DEF w, end
<1> QED BY <1>5, <1>6

\* Two windows that end at most half a window apart have a message in common.
LEMMA WindowsMeet ==
  ASSUME WorldTyped, NEW e \in Nat, NEW f \in Nat,
         Cardinality(Upto(e)) <= Cardinality(Upto(f)),
         Cardinality(Upto(f)) < Cardinality(Upto(e)) + WindowSize,
         Upto(e) # {}
  PROVE  Highest(Upto(e), WindowSize) \cap Highest(Upto(f), WindowSize) # {}
<1> DEFINE E == Upto(e)
           F == Upto(f)
<1>1. /\ E \in SUBSET store /\ F \in SUBSET store /\ store \subseteq Nat
      /\ IsFiniteSet(E) /\ IsFiniteSet(F) /\ E \subseteq Nat
      /\ Cardinality(E) \in Nat /\ Cardinality(F) \in Nat
      /\ \A x \in store : x \in Nat
  <2>1. E \in SUBSET store /\ F \in SUBSET store
    BY DEF Upto
  <2> HIDE DEF E, F
  <2> QED BY <2>1, StoreFinite
<1>2. E \subseteq F
  <2>1. \A x \in store : (e = 0 => x \in E) /\ (f = 0 => x \in F)
                         /\ (e # 0 => (x \in E <=> x <= e)) /\ (f # 0 => (x \in F <=> x <= f))
    BY DEF Upto
  <2>2. CASE F \subseteq E
    <3> HIDE DEF E, F
    <3>1. F \in SUBSET E
      BY <2>2
    <3>2. Cardinality(F) <= Cardinality(E)
      BY <3>1, <1>1, FS_Subset
    <3>3. Cardinality(E) = Cardinality(F)
      BY <3>2, <1>1 DEF E, F
    <3>4. E = F
      BY <3>1, <3>3, <1>1, FS_Subset
    <3> QED BY <3>4
  <2>3. CASE ~(F \subseteq E)
    <3>1. PICK z \in store : z \in F /\ z \notin E
      BY <2>3, <1>1
    <3>2. e # 0 /\ ~(z <= e) /\ z \in Nat
      BY <2>1, <3>1, <1>1
    <3>3. ASSUME NEW x \in E PROVE x \in F
      <4>1. x \in store /\ x <= e /\ x \in Nat
        BY <2>1, <3>2, <1>1
      <4>2. f = 0 \/ (z <= f /\ x <= f)
        BY <4>1, <2>1, <3>1, <3>2
      <4> QED BY <4>1, <4>2, <2>1
    <3> QED BY <3>3
  <2> QED BY <2>2, <2>3
<1>3. Max(E) \in E /\ \A y \in E : Max(E) >= y
  <2> HIDE DEF E
  <2>1. E # {}
    BY DEF E
  <2> QED BY <1>1, <2>1, EndFacts
<1> DEFINE z == Max(E)
<1> HIDE DEF z
<1>4. z \in E /\ z \in F /\ z \in store /\ z \in Nat /\ \A y \in E : z >= y
  BY <1>1, <1>2, <1>3 DEF z
<1>5. z \in Highest(E, WindowSize)
  <2>1. ASSUME NEW y \in E PROVE ~(y > z)
    BY <1>1, <1>4
  <2>2. {y \in E : y > z} = {}
    BY <2>1
  <2>3. Cardinality({y \in E : y > z}) < WindowSize
    BY <2>2, FS_EmptySet, QueryConstants
  <2> QED BY <1>4, <2>3 DEF Highest
<1>6. z \in Highest(F, WindowSize)
  <2> DEFINE above == {y \in F : y > z}
  <2>1. above \in SUBSET (F \ E)
    <3>1. ASSUME NEW y \in above PROVE y \in F \ E
      <4>1. y \in F /\ y > z /\ y \in Nat
        BY <1>1
      <4>2. y \notin E
        BY <4>1, <1>4
      <4> QED BY <4>1, <4>2
    <3> HIDE DEF above, E, F
    <3> QED BY <3>1
  <2> HIDE DEF above, E, F
  <2>2. F \cap E = E
    BY <1>2
  <2>3. IsFiniteSet(F \ E) /\ Cardinality(F \ E) = Cardinality(F) - Cardinality(E)
    <3>1. IsFiniteSet(F)
      BY <1>1
    <3>2. IsFiniteSet(F \ E) /\ Cardinality(F \ E) = Cardinality(F) - Cardinality(F \cap E)
      BY <3>1, FS_Difference
    <3> QED BY <2>2, <3>2
  <2>4. Cardinality(above) <= Cardinality(F) - Cardinality(E) /\ Cardinality(above) \in Nat
    BY <2>1, <2>3, FS_Subset, FS_CardinalityType
  <2>5. Cardinality(F) < Cardinality(E) + WindowSize
    BY DEF E, F
  <2>6. Cardinality(above) < WindowSize
    BY <2>4, <2>5, <1>1, QueryConstants
  <2> QED BY <2>6, <1>4 DEF Highest, above
<1> QED BY <1>5, <1>6

\* What a publication of a page owes, whoever asked for it.
LEMMA ListsPublished ==
  ASSUME WorldTyped, NEW pg \in Listings, PublishLists(pg)
  PROVE  ListsStand
<1>1. /\ listing'.text = pg.text /\ display'.messages = MessageList(pg)
      /\ display'.candidates = CandidateList(pg, Searching(pg))
  BY PublishFacts
<1>2. Stretch(display'.messages, Hits(listing'.text), Numbers)
  BY <1>1, MessagesStretch
<1>3. Searching(pg) \in Cursors /\ (Searching(pg) # NoCursor => Searching(pg).position \in Offered)
  <2>1. pg.search \in Cursors /\ NoCursor \in Cursors
    BY DEF Listings, Cursors
  <2> QED BY <2>1 DEF Searching, Stale
<1>4. Stretch(display'.candidates, Offered, Before)
  <2> DEFINE c == Searching(pg)
  <2> HIDE DEF c
  <2>1. Stretch(CandidateList(pg, c), Offered, Before)
    BY <1>3, CandidatesStretch DEF c
  <2> QED BY <1>1, <2>1 DEF c
<1> QED BY <1>2, <1>4 DEF ListsStand

LEMMA HistoryMeets ==
  ASSUME WorldTyped, listing \in Listings, HistoryNewer \/ HistoryOlder,
         Cardinality(Upto(listing.end)) >= WindowSize
  PROVE  display'.window \cap Highest(Upto(listing.end), WindowSize) # {}
<1>1. listing.end \in Nat /\ EndRank = Cardinality(Upto(listing.end)) /\ EndRank >= WindowSize
  BY DEF Listings, EndRank
<1>2. EndRank \in Nat /\ Total \in Nat /\ EndRank <= Total
  BY RankTypes
<1>3. ASSUME NEW anchor \in Nat, listing.layout = "channel", History(anchor)
      PROVE  display'.window = Highest(Upto(anchor), WindowSize)
  <2> DEFINE pg == [listing EXCEPT !.end = anchor, !.target = 0]
             to == Moved(pg)
  <2>1. pg \in Listings /\ pg.end = anchor /\ pg.target = 0 /\ pg.layout = "channel"
    BY <1>3 DEF Listings
  <2>2. PublishLists(to)
    BY <1>3 DEF History, Navigates
  <2> HIDE DEF pg
  <2>3. to \in Listings /\ to.end = anchor /\ to.target = 0 /\ to.layout = "channel"
    BY <2>1, NavigationTyped
  <2> HIDE DEF to
  <2>4. ~Focused(to)
    BY <2>3, StoreFinite DEF Focused
  <2>5. display'.window = HistoryWindow(to)
    BY <2>2, <2>3, PublishFacts
  <2> QED BY <2>3, <2>4, <2>5, WindowPublished
<1>4. CASE HistoryOlder
  <2>1. listing.layout = "channel" /\ StartRank > 0 /\ History(OlderAnchor)
    BY <1>4 DEF HistoryOlder
  <2>2. /\ OlderAnchor \in Nat /\ EndRank > WindowSize
        /\ Cardinality(Upto(OlderAnchor)) = EndRank - WindowSize + Step
    BY <2>1, OlderPlace
  <2>3. Cardinality(Upto(OlderAnchor)) # 0
    BY <2>2, <1>2, QueryConstants
  <2>4. Upto(OlderAnchor) # {}
    BY <2>3, FS_EmptySet
  <2>5. /\ Cardinality(Upto(OlderAnchor)) <= Cardinality(Upto(listing.end))
        /\ Cardinality(Upto(listing.end)) < Cardinality(Upto(OlderAnchor)) + WindowSize
    BY <2>2, <1>1, <1>2, QueryConstants
  <2>6. Highest(Upto(OlderAnchor), WindowSize) \cap Highest(Upto(listing.end), WindowSize) # {}
    BY <2>2, <2>4, <2>5, <1>1, WindowsMeet
  <2> QED BY <2>1, <2>2, <2>6, <1>3
<1>5. CASE HistoryNewer
  <2>1. listing.layout = "channel" /\ EndRank < Total /\ History(NewerAnchor)
    BY <1>5 DEF HistoryNewer
  <2>2. /\ NewerAnchor \in Nat /\ Cardinality(Upto(NewerAnchor)) \in Nat
        /\ Cardinality(Upto(NewerAnchor)) >= EndRank
        /\ Cardinality(Upto(NewerAnchor)) <= EndRank + Step
    BY <2>1, <1>1, NewerPlace
  <2>3. Upto(listing.end) # {}
    BY <1>1, FS_EmptySet, QueryConstants
  <2>4. /\ Cardinality(Upto(listing.end)) <= Cardinality(Upto(NewerAnchor))
        /\ Cardinality(Upto(NewerAnchor)) < Cardinality(Upto(listing.end)) + WindowSize
    BY <2>2, <1>1, <1>2, QueryConstants
  <2>5. Highest(Upto(listing.end), WindowSize) \cap Highest(Upto(NewerAnchor), WindowSize) # {}
    BY <2>2, <2>3, <2>4, <1>1, WindowsMeet
  <2> QED BY <2>1, <2>2, <2>5, <1>3
<1> QED BY <1>4, <1>5

\* A publication shows the message that the page has just been moved to.
LEMMA WindowPublishes ==
  ASSUME WorldTyped, listing \in Listings, NEW pg \in Listings, PublishLists(pg),
         pg.layout = "channel" /\ pg.target \in store /\ pg.target # listing.target => Focused(pg)
  PROVE  ListsStand /\ WindowStands
<1> DEFINE w == HistoryWindow(pg)
<1>1. /\ listing'.layout = pg.layout /\ listing'.target = pg.target
      /\ listing'.end = WindowEnd(pg, w) /\ display'.window = w
  BY PublishFacts
<1>2. ASSUME listing'.layout = "channel"
      PROVE  /\ Whole(w)
             /\ listing'.end = 0 => w \in {Highest(store, WindowSize), {}}
             /\ listing'.end # 0 => Max(w) = listing'.end
             /\ Focused(pg) => pg.target \in w
  BY <1>1, <1>2, WindowPublished
<1> HIDE DEF w
<1>3. ASSUME listing'.layout = "channel", listing'.target \in store, listing'.target # listing.target
      PROVE  listing'.target \in w
  BY <1>1, <1>2, <1>3
<1>4. WindowStands
  BY <1>1, <1>2, <1>3, HistoryMeets DEF WindowStands, Whole
<1> QED BY <1>4, ListsPublished

LEMMA StepStretches ==
  ASSUME WalkInv, [QueriesNext]_queryVars
  PROVE  ListsStand /\ WindowStands
<1>1. WorldTyped /\ listing \in Listings /\ QueryTypes
  BY DEF WalkInv, QueryTypes
<1>2. /\ listing.target \in Nat /\ listing.end \in Nat /\ listing.layout \in {"message", "channel"}
  BY <1>1 DEF Listings
<1>3. SUFFICES ASSUME display' # display PROVE ListsStand /\ WindowStands
  BY DEF ListsStand, WindowStands
<1>4. ASSUME NEW text \in Texts, NEW c \in Held, Browse(text, c)
      PROVE  ListsStand /\ WindowStands
  <2> DEFINE pg == [listing EXCEPT !.text = text, !.cursor = c]
  <2>1. pg \in Listings /\ pg.target = listing.target
    BY <1>1, HeldTyped DEF Listings
  <2>2. PublishLists(pg)
    BY <1>4 DEF Browse
  <2> HIDE DEF pg
  <2> QED BY <1>1, <2>1, <2>2, WindowPublishes
<1>5. ASSUME NEW c \in Held, BrowseCandidates(c)
      PROVE  ListsStand /\ WindowStands
  <2> DEFINE pg == [listing EXCEPT !.search = c]
  <2>1. pg \in Listings /\ pg.target = listing.target
    BY <1>1, HeldTyped DEF Listings
  <2>2. PublishLists(pg)
    BY <1>5 DEF BrowseCandidates
  <2> HIDE DEF pg
  <2> QED BY <1>1, <2>1, <2>2, WindowPublishes
<1>6. CASE RefreshLists
  BY <1>1, <1>6, WindowPublishes DEF RefreshLists
<1>7. ASSUME NEW pg \in Listings, Navigates(pg),
             pg.layout = "channel" /\ pg.target \in store /\ pg.target # listing.target
               => pg.end = pg.target
      PROVE  ListsStand /\ WindowStands
  <2> DEFINE to == Moved(pg)
  <2>1. to \in Listings /\ to.layout = pg.layout /\ to.target = pg.target /\ to.end = pg.end
    BY NavigationTyped
  <2>2. PublishLists(to)
    BY <1>7 DEF Navigates
  <2> HIDE DEF to
  <2>3. to.layout = "channel" /\ to.target \in store /\ to.target # listing.target => Focused(to)
    BY <1>7, <2>1 DEF Focused
  <2> QED BY <1>1, <2>1, <2>2, <2>3, WindowPublishes
<1>8. CASE ViewerChanges
  <2> DEFINE latest == InitialTarget
             end == IF listing.layout = "channel" THEN latest ELSE listing.end
             pg == [listing EXCEPT !.target = latest, !.text = "all", !.end = end]
  <2>1. latest \in Nat
    BY <1>1, InitialTargetTyped
  <2>2. Navigates(pg)
    BY <1>8, <1>1 DEF ViewerChanges, Listings
  <2> HIDE DEF latest
  <2>3. end \in Nat
    BY <1>2, <2>1
  <2>4. pg \in Listings /\ pg.layout = listing.layout /\ pg.target = latest /\ pg.end = end
    <3> HIDE DEF end
    <3> QED BY <1>1, <2>1, <2>3 DEF Listings, Texts
  <2>5. pg.layout = "channel" => pg.end = pg.target
    <3> HIDE DEF pg
    <3> QED BY <2>4
  <2> HIDE DEF pg
  <2> QED BY <2>2, <2>4, <2>5, <1>7
<1>9. ASSUME NEW anchor \in Nat, History(anchor)
      PROVE  ListsStand /\ WindowStands
  <2> DEFINE pg == [listing EXCEPT !.end = anchor, !.target = 0]
  <2>1. Navigates(pg) /\ pg \in Listings /\ pg.target = 0
    BY <1>1, <1>9 DEF History, Listings
  <2> HIDE DEF pg
  <2>2. 0 \notin store
    BY <1>1, StoreFinite
  <2> QED BY <2>1, <2>2, <1>7
<1>10. CASE HistoryOlder
  <2>1. OlderAnchor \in Nat
    BY <1>1, <1>10, OlderPlace DEF HistoryOlder
  <2> QED BY <2>1, <1>9, <1>10 DEF HistoryOlder
<1>11. CASE HistoryNewer
  <2>1. EndRank < Total
    BY <1>11 DEF HistoryNewer
  <2>2. NewerAnchor \in Nat
    BY <1>1, <2>1, NewerPlace
  <2> QED BY <2>2, <1>9, <1>11 DEF HistoryNewer
<1>12. CASE HistoryLatest
  BY <1>9, <1>12 DEF HistoryLatest
<1>13. ASSUME NEW layout \in {"message", "channel"}, Configure(layout)
      PROVE  ListsStand /\ WindowStands
  <2> DEFINE end == IF layout = "channel" THEN listing.target ELSE listing.end
             pg == [listing EXCEPT !.layout = layout, !.end = end]
  <2>1. Navigates(pg)
    BY <1>13, <1>1 DEF Configure, Listings
  <2>2. end \in Nat
    BY <1>2
  <2>3. pg \in Listings /\ pg.target = listing.target
    <3> HIDE DEF end
    <3> QED BY <1>1, <2>2 DEF Listings
  <2> HIDE DEF pg
  <2> QED BY <2>1, <2>3, <1>7
<1>14. ASSUME NEW t \in Ids, Focus(t)
      PROVE  ListsStand /\ WindowStands
  <2> DEFINE end == IF listing.layout = "channel" THEN t ELSE listing.end
             pg == [listing EXCEPT !.target = t, !.end = end]
  <2>1. Navigates(pg)
    BY <1>14, <1>1 DEF Focus, Listings
  <2>2. end \in Nat /\ t \in Nat
    BY <1>2, QueryConstants DEF Ids
  <2>3. pg \in Listings /\ pg.layout = listing.layout /\ pg.target = t /\ pg.end = end
    <3> HIDE DEF end
    <3> QED BY <1>1, <2>2 DEF Listings
  <2>4. pg.layout = "channel" => pg.end = pg.target
    <3> HIDE DEF pg
    <3> QED BY <2>3
  <2> HIDE DEF pg
  <2> QED BY <2>1, <2>3, <2>4, <1>7
<1>15. ~Created /\ ~(\E m \in Ids : Deleted(m)) /\ ~(\E c \in Held : Keep(c))
       /\ ~(\E e \in Options, l \in Labels \cup {0} : Rename(e, l)) /\ ~(UNCHANGED queryVars)
  BY <1>3 DEF Created, Deleted, Rename, Keep, queryVars
<1> QED BY <1>4, <1>5, <1>6, <1>8, <1>10, <1>11, <1>12, <1>13, <1>14, <1>15 DEF QueriesNext

\* Every list and every window that a page publishes is a stretch without a
\* gap that says truly whether there is more, and a step to older or newer
\* messages leaves none unseen (query_window, history_window).
THEOREM StretchesAlwaysTrue == QueriesSpec => StretchesTrue
<1>1. WalkInv /\ [QueriesNext]_queryVars => [ListsStand /\ WindowStands]_queryVars
  BY StepStretches
<1> QED BY <1>1, QueriesStart, QueriesStep, PTL DEF QueriesSpec, StretchesTrue
=============================================================================
