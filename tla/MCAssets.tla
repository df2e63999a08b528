------------------------------ MODULE MCAssets -------------------------------
(***************************************************************************)
(* What a browser asks of a page: its pictures, and its lists a part at a   *)
(* time.  A behaviour is about one of the two, which its initial state      *)
(* chooses.  One about pictures is about two of them in one page, or about  *)
(* one that two pages retain: so many publications, requests and changes of *)
(* the world.  The session ends where there is one page.  One about lists   *)
(* is about the messages, the candidates or the history window.             *)
(***************************************************************************)
EXTENDS Assets, Queries

CONSTANTS t, u, a, b, x, y, q1, q2

CONSTANTS MaxChanges, MaxSteps

VARIABLES part, budget, scene, changes, steps

counting == <<scene, changes, steps>>

Owners == (a :> "message") @@ (b :> "avatar")

Scene(tabs, sources, requests, hows, pages, asks, world) ==
  [tabs |-> tabs, sources |-> sources, requests |-> requests, hows |-> hows,
   pages |-> pages, asks |-> asks, world |-> world]

Budgets == {
  Scene({t}, {a, b}, {q1}, {"show"}, 3, 1, 1),
  Scene({t}, {a}, {q1}, {"download", "show", "capture", "poster"}, 2, 3, 1),
  Scene({t}, {a}, {q1, q2}, {"show", "capture"}, 2, 2, 1),
  Scene({t, u}, {a}, {q1}, {"show"}, 3, 1, 1) }

Cost(happens) == IF happens THEN 1 ELSE 0

Within ==
  /\ \A p \in Tabs \ budget.tabs : ~page'[p].open
  /\ \A p \in Tabs : \A h \in DOMAIN page'[p].assets :
       page'[p].assets[h].source \in budget.sources
  /\ \A s \in Sources \ budget.sources : content'[s] = content[s]
  /\ \A p \in Tabs \ {t} : allowed'[p]
  /\ budget.tabs = Tabs => session' = "open"
  /\ \A z \in Requests : request'[z] # request[z] =>
       /\ z \in budget.requests
       /\ Pending(z)' => request'[z].mode.how \in budget.hows
  /\ budget' = [budget EXCEPT
       !.pages = @ - Cost(page' # page /\ request' = request /\ session' # "closed"),
       !.asks  = @ - Cost(\E z \in Requests : ~Pending(z) /\ request'[z] # request[z]),
       !.world = @ - Cost(content' # content \/ allowed' # allowed)]
  /\ budget'.pages >= 0 /\ budget'.asks >= 0 /\ budget'.world >= 0

-----------------------------------------------------------------------------
Scenes == {"list", "candidates", "window"}

Same(v) == v' = v

Listed ==
  /\ scene # "candidates" => Same(label) /\ listing'.search = NoCursor
  /\ scene # "list" => listing'.cursor = NoCursor /\ Same(listing.text) /\ ~walk'.on
  /\ scene = "candidates" => Same(store)
  /\ IF scene = "window" THEN Same(kept)
     ELSE /\ listing'.layout = "message" /\ listing'.generation <= 2
          /\ listing'.target = Max(store \cup {AtStart})
  /\ changes' = changes + Cost(<<store, label>>' # <<store, label>>)
  /\ changes' <= MaxChanges
  /\ steps' = steps + Cost(display' # display)
  /\ steps' <= MaxSteps

ListInit ==
  /\ QueriesInit /\ scene \in Scenes /\ changes = 0 /\ steps = 0
  /\ listing.layout = IF scene = "window" THEN "channel" ELSE "message"
  /\ scene # "candidates" => label = [e \in Options |-> 1]

\* Where pictures are the matter, the lists stay as they are first published.
NoListing == ListInit /\ scene = "list"

ShowInit ==
  /\ Init /\ budget \in Budgets
  /\ content = (a :> x) @@ (b :> IF a \in budget.sources THEN y ELSE x)

AskInit ==
  \/ part = "pictures" /\ ShowInit /\ NoListing
  \/ part = "lists" /\ ListInit /\ content = 0 /\ allowed = 0 /\ page = 0 /\ media = 0
     /\ request = 0 /\ session = 0 /\ budget = 0

AskNext ==
  \/ part = "pictures" /\ Next /\ Within /\ UNCHANGED <<part, queryVars, counting>>
  \/ part = "lists" /\ QueriesNext /\ Listed /\ UNCHANGED <<part, scene, vars, budget>>

AskSpec == AskInit /\ [][AskNext]_<<part, vars, budget, queryVars, counting>>

\* What is retained is what is counted, and the worker forgets the rest
\* (_retain_blob, MediaWorker).
MediaAccounted == part = "pictures" => Accounted /\ WorkerForgets

\* A handle stands for one payload, and what is answered is what may be seen
\* when it is answered (_Page.asset_id, media).
PicturesTrue == [][part = "pictures" => HandleStays /\ AnswersCurrent]_vars
=============================================================================
