------------------------------- MODULE Queries -------------------------------
(***************************************************************************)
(* How a preview page walks through what is too long for one view: the list *)
(* of messages and of candidates, by signed cursors (preview/_queries.py),  *)
(* and the history window of the channel layout (_snapshot.py,              *)
(* _action_plans.py), while messages come and go and entities are renamed.  *)
(***************************************************************************)
EXTENDS Integers, FiniteSets, FiniteSetsExt

CONSTANTS
  MaxMessages,   \* bound: message ids given out, in order
  AtStart,       \* the messages there at the start are 1..AtStart
  Matching,      \* the ids whose summary holds the text that is searched for
  OfBot,         \* the ids the bot writes
  Options,       \* candidates of a select menu: their ids
  Labels,        \* the labels that order them
  MaxGeneration, \* bound: navigations of the page
  PageSize,      \* QUERY_PAGE_SIZE
  WindowSize,    \* HISTORY_WINDOW_SIZE
  Step,          \* HISTORY_STEP, half of the window
  Older          \* how much of a window lies before its target

ASSUME QueriesAssumption ==
  /\ {MaxMessages, AtStart, PageSize, WindowSize, Step, Older, MaxGeneration} \subseteq Nat
  /\ AtStart <= MaxMessages /\ PageSize > 0 /\ Older < WindowSize
  /\ Step > 0 /\ Step < WindowSize
  /\ IsFiniteSet(Options) /\ Options \subseteq Nat /\ Labels \subseteq Nat

VARIABLES
  store,   \* the messages the viewer sees
  issued,  \* ids given out
  label,   \* a candidate's label; 0: it is not offered
  listing, \* of the page: generation, layout, target, window end, the queries
  display, \* the latest publication
  kept,    \* cursors the browser still has from earlier ones
  walk     \* the walk by "next" that is going on, for the properties

queryVars == <<store, issued, label, listing, display, kept, walk>>

Ids == 1..MaxMessages
Texts == {"all", "text"}
NoCursor == [direction |-> "none"]

(***************************************************************************)
(* Cursors: bound to the generation and the query they were made for.       *)
(***************************************************************************)
Cursor(pg, list, text, direction, position) ==
  [generation |-> pg.generation, list |-> list, text |-> text,
   direction |-> direction, position |-> position]

Reads(pg, list, text, c) ==
  c # NoCursor => c.generation = pg.generation /\ c.list = list /\ c.text = text

Lowest(S, n) == {x \in S : Cardinality({y \in S : y < x}) < n}
Highest(S, n) == {x \in S : Cardinality({y \in S : y > x}) < n}

(***************************************************************************)
(* _message_navigation: the rows of the list, and whether there are more.   *)
(***************************************************************************)
Hits(text) == IF text = "all" THEN store ELSE store \cap Matching

\* the messages on the cursor's side of its position
Beyond(S, c) == CASE c.direction = "after"  -> {x \in S : x > c.position}
                  [] c.direction = "before" -> {x \in S : x < c.position}
                  [] OTHER                  -> S

Rows(text, c) ==
  LET S == Beyond(Hits(text), c)
  IN  IF c.direction = "before" THEN Highest(S, PageSize) ELSE Lowest(S, PageSize)

\* a search looks one further on the side it reads, and seeks on the other
Searched(c, rows) ==
  LET more == Cardinality(Beyond(Hits("text"), c)) > PageSize
  IN  [before |-> IF c.direction = "before" THEN more
                  ELSE c.direction = "after" /\ (\E x \in Hits("text") : x < Min(rows)),
       after  |-> IF c.direction = "before" THEN \E x \in Hits("text") : x > Max(rows)
                  ELSE more]

Edges(text, c, rows) ==
  IF rows = {} THEN [before |-> FALSE, after |-> FALSE]
  ELSE IF text = "all"
  THEN [before |-> \E x \in store : x < Min(rows), after |-> \E x \in store : x > Max(rows)]
  ELSE Searched(c, rows)

\* what a mutant does: the next page begins after the first row it did not show
NextPositionSkips(S, rows) ==
  IF \E x \in S : x > Max(rows) THEN Min({x \in S : x > Max(rows)}) ELSE Max(rows)

NextPosition(S, rows) == Max(rows)

MessageList(pg) ==
  LET rows == Rows(pg.text, pg.cursor)
      edges == Edges(pg.text, pg.cursor, rows)
  IN  [rows |-> rows,
       prev |-> IF edges.before THEN Cursor(pg, "messages", pg.text, "before", Min(rows)) ELSE NoCursor,
       next |-> IF edges.after
                THEN Cursor(pg, "messages", pg.text, "after", NextPosition(Hits(pg.text), rows))
                ELSE NoCursor]

(***************************************************************************)
(* _paginate over the candidates, in the order of label and id; a cursor    *)
(* holds an id, whose place is looked up anew.                              *)
(***************************************************************************)
Offered == {e \in Options : label[e] # 0}
Before(a, b) == label[a] < label[b] \/ (label[a] = label[b] /\ a < b)
Firsts(S, n) == {x \in S : Cardinality({y \in S : Before(y, x)}) < n}
Lasts(S, n) == {x \in S : Cardinality({y \in S : Before(x, y)}) < n}
End(S, last) == CHOOSE x \in S : \A y \in S : y = x \/ (Before(y, x) <=> last)

Side(c) == CASE c.direction = "after"  -> {e \in Offered : Before(c.position, e)}
             [] c.direction = "before" -> {e \in Offered : Before(e, c.position)}
             [] OTHER                  -> Offered

CandidateList(pg, c) ==
  LET S == Side(c)
      rows == IF c.direction = "before" THEN Lasts(S, PageSize) ELSE Firsts(S, PageSize)
      more == Cardinality(S) > PageSize
      passed == S # Offered
      at(direction, last) == Cursor(pg, "candidates", "all", direction, End(rows, last))
      back == IF c.direction = "before" THEN more ELSE c.direction = "after" /\ passed
      on == IF c.direction = "before" THEN passed ELSE more
  IN  [rows |-> rows,
       prev |-> IF rows # {} /\ back THEN at("before", FALSE) ELSE NoCursor,
       next |-> IF rows # {} /\ on THEN at("after", TRUE) ELSE NoCursor]

Stale(pg, c) == ~Reads(pg, "candidates", "all", c) \/ (c # NoCursor /\ c.position \notin Offered)

\* a cursor that has become stale is dropped, and the publication says so
Candidates(pg) ==
  LET lost == Stale(pg, pg.search)
  IN  [list |-> CandidateList(pg, IF lost THEN NoCursor ELSE pg.search), recovered |-> lost]

(***************************************************************************)
(* _history_window: around the target, or the messages up to the window's   *)
(* end; the end is forgotten where it is the newest message.                *)
(***************************************************************************)
Upto(end) == IF end = 0 THEN store ELSE {x \in store : x <= end}

Around(target) ==
  LET older == Highest({x \in store : x < target}, Older)
      first == older \cup Lowest({x \in store : x >= target}, WindowSize - Cardinality(older))
  IN  IF Cardinality(first) < WindowSize THEN Highest(Upto(Max(first)), WindowSize) ELSE first

Focused(pg) == pg.target \in store /\ pg.end = pg.target

HistoryWindow(pg) ==
  IF pg.layout = "message" THEN store \cap {pg.target}
  ELSE IF Focused(pg) THEN Around(pg.target)
  ELSE Highest(Upto(pg.end), WindowSize)

WindowEnd(pg, window) ==
  IF pg.layout = "message" THEN pg.end
  ELSE IF Focused(pg) THEN IF \E x \in store : x > Max(window) THEN Max(window) ELSE 0
  ELSE IF pg.end # 0 /\ pg.end \notin window
  THEN IF window = {} THEN 0 ELSE Max(window)
  ELSE pg.end

(***************************************************************************)
(* A publication of the page as an action has left it.                      *)
(***************************************************************************)
PublishLists(pg) ==
  LET window == HistoryWindow(pg)
      candidates == Candidates(pg)
  IN  /\ listing' = [pg EXCEPT !.end = WindowEnd(pg, window),
                               !.search = IF candidates.recovered THEN NoCursor ELSE @]
      /\ display' = [messages |-> MessageList(pg), window |-> window,
                     candidates |-> candidates.list, recovered |-> candidates.recovered]

Held == {display.messages.prev, display.messages.next,
         display.candidates.prev, display.candidates.next}
          \cup kept \cup {NoCursor}

NoWalk == [on |-> FALSE, seen |-> {}, there |-> {}]

Walks(text, c) ==
  walk' = CASE c = NoCursor -> [on |-> TRUE, seen |-> display'.messages.rows, there |-> Hits(text)]
            [] c # NoCursor /\ walk.on /\ c = display.messages.next ->
                 [walk EXCEPT !.seen = @ \cup display'.messages.rows]
            [] OTHER -> NoWalk

Quiet == UNCHANGED <<store, issued, label, kept>>

Browse(text, c) ==
  /\ c \in Held /\ Reads(listing, "messages", text, c)
  /\ PublishLists([listing EXCEPT !.text = text, !.cursor = c])
  /\ Walks(text, c) /\ Quiet

BrowseCandidates(c) ==
  /\ c \in Held /\ ~Stale(listing, c)
  /\ PublishLists([listing EXCEPT !.search = c])
  /\ walk' = NoWalk /\ Quiet

\* a refresh, or the republication after an action of anyone
RefreshLists ==
  /\ PublishLists(listing)
  /\ walk' = IF walk.on THEN [walk EXCEPT !.seen = @ \cup display'.messages.rows] ELSE walk
  /\ Quiet

\* every navigation of the page starts its lists over
Moved(pg) == [pg EXCEPT !.generation = @ + 1, !.cursor = NoCursor, !.search = NoCursor]

Navigates(pg) ==
  /\ listing.generation < MaxGeneration
  /\ PublishLists(Moved(pg))
  /\ walk' = NoWalk /\ Quiet

Configure(layout) ==
  /\ layout # listing.layout
  /\ Navigates([listing EXCEPT !.layout = layout,
                               !.end = IF layout = "channel" THEN listing.target ELSE @])

Focus(t) ==
  /\ t \in store
  /\ Navigates([listing EXCEPT !.target = t, !.end = IF listing.layout = "channel" THEN t ELSE @])

\* where a viewer's page begins: the bot's newest message, the newest one if it has none
InitialTarget ==
  LET bot == store \cap OfBot
  IN  IF store = {} THEN 0 ELSE IF bot = {} THEN Max(store) ELSE Max(bot)

\* another viewer's page, or preview.show: the searches are forgotten too
ViewerChanges ==
  Navigates([listing EXCEPT !.target = InitialTarget, !.text = "all",
                            !.end = IF listing.layout = "channel" THEN InitialTarget ELSE @])

Total == Cardinality(store)
EndRank == Cardinality(Upto(listing.end))
StartRank == Max({0, EndRank - WindowSize})

\* the message of a rank, counted from 1
Ranked(n) == CHOOSE x \in store : Cardinality(Upto(x)) = n

OlderAnchor == Ranked(Min({EndRank, StartRank + Step}))
\* what a mutant does: the next window begins a step after this one ends
NewerEndFar == Min({Total, EndRank + Step + WindowSize})

NewerEnd == Min({Total, Min({Total - 1, StartRank + Step}) + WindowSize})
NewerAnchor == IF NewerEnd = Total THEN 0 ELSE Ranked(NewerEnd)

History(anchor) == Navigates([listing EXCEPT !.end = anchor, !.target = 0])

HistoryOlder  == listing.layout = "channel" /\ StartRank > 0 /\ History(OlderAnchor)
HistoryNewer  == listing.layout = "channel" /\ EndRank < Total /\ History(NewerAnchor)
HistoryLatest == listing.layout = "channel" /\ History(0)

(***************************************************************************)
(* The world                                                               *)
(***************************************************************************)
Created ==
  /\ issued < MaxMessages
  /\ issued' = issued + 1 /\ store' = store \cup {issued + 1}
  /\ UNCHANGED <<label, listing, display, kept, walk>>

Deleted(m) ==
  /\ m \in store /\ store' = store \ {m}
  /\ walk' = [walk EXCEPT !.there = @ \ {m}]
  /\ UNCHANGED <<issued, label, listing, display, kept>>

\* an entity is renamed, joins or goes
Rename(e, l) ==
  /\ label[e] # l /\ label' = [label EXCEPT ![e] = l]
  /\ UNCHANGED <<store, issued, listing, display, kept, walk>>

\* the browser keeps the cursor of a publication that is replaced
Keep(c) ==
  /\ c \in Held \ {NoCursor} /\ kept' = {c} /\ kept' # kept
  /\ UNCHANGED <<store, issued, label, listing, display, walk>>

QueriesInit ==
  /\ store = 1..AtStart /\ issued = AtStart
  /\ label \in [Options -> Labels]
  /\ listing \in [generation : {1}, layout : {"message", "channel"}, target : {InitialTarget}, end : {0},
                  text : {"all"}, cursor : {NoCursor}, search : {NoCursor}]
  /\ display = [messages |-> MessageList(listing), window |-> HistoryWindow(listing),
                candidates |-> CandidateList(listing, NoCursor), recovered |-> FALSE]
  /\ kept = {} /\ walk = NoWalk

QueriesNext ==
  \/ \E text \in Texts, c \in Held : Browse(text, c)
  \/ \E c \in Held : BrowseCandidates(c)
  \/ RefreshLists \/ ViewerChanges \/ HistoryOlder \/ HistoryNewer \/ HistoryLatest
  \/ \E layout \in {"message", "channel"} : Configure(layout)
  \/ \E t \in Ids : Focus(t)
  \/ Created \/ (\E m \in Ids : Deleted(m))
  \/ \E e \in Options, l \in Labels \cup {0} : Rename(e, l)
  \/ \E c \in Held : Keep(c)

QueriesSpec == QueriesInit /\ [][QueriesNext]_queryVars

(***************************************************************************)
(* Properties                                                              *)
(***************************************************************************)

\* The page can always be published: only the candidates recover from a stale
\* cursor, so none is ever left in the message list, whatever navigation came
\* between (page.navigation_cursor is reset wherever the generation moves).
CursorCurrent == Reads(listing, "messages", listing.text, listing.cursor)

\* Who follows "next" from the first page to the last has met every message
\* that was there all along, whatever was deleted, posted or refreshed between.
WalkMeetsAll == walk.on /\ display.messages.next = NoCursor => walk.there \subseteq walk.seen

\* A published list is a stretch without a gap, and says truly whether there is
\* more on either side: also where the cursor's own message or entity is gone.
Stretch(list, S, Less(_, _)) ==
  /\ list.rows \subseteq S
  /\ \A x \in S : (\E a, b \in list.rows : Less(a, x) /\ Less(x, b)) => x \in list.rows
  /\ list.rows # {} =>
       /\ list.prev # NoCursor <=> \E x \in S : \A y \in list.rows : Less(x, y)
       /\ list.next # NoCursor <=> \E x \in S : \A y \in list.rows : Less(y, x)

Numbers(a, b) == a < b
ListsStand ==
  display' # display =>
    /\ Stretch(display'.messages, Hits(listing'.text), Numbers)
    /\ Stretch(display'.candidates, Offered, Before)

\* The window is a stretch, as long as it can be where it is at the newest
\* message, with the message it was moved to; and a step to older or newer
\* messages from a place with a full window before it leaves none unseen.
WindowStands ==
  display' # display /\ listing'.layout = "channel" =>
    LET w == display'.window
    IN  /\ \A x \in store : (\E a, b \in w : a < x /\ x < b) => x \in w
        /\ listing'.end = 0 => w \in {Highest(store, WindowSize), {}}
        /\ listing'.end # 0 => Max(w) = listing'.end
        /\ listing'.target \in store /\ listing'.target # listing.target => listing'.target \in w
        /\ (HistoryNewer \/ HistoryOlder) /\ Cardinality(Upto(listing.end)) >= WindowSize
             => w \cap Highest(Upto(listing.end), WindowSize) # {}

\* No stale cursor stays in a page, and a walk by "next" meets every message
\* that was there all along (resolve_query).
WalkComplete == CursorCurrent /\ WalkMeetsAll

\* Lists and windows are stretches without a gap (query_window, history_window).
StretchesTrue == [][ListsStand /\ WindowStands]_queryVars
=============================================================================
