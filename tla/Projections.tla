----------------------------- MODULE Projections -----------------------------
(***************************************************************************)
(* What a viewer reads of a preview page.  A publication freezes what the   *)
(* viewer may see (preview/_snapshot.py, _messages.py); until the next one  *)
(* every read filters that copy by what the viewer may see now (_pages.py,  *)
(* _dependencies.py), while messages go, people leave and rights change.    *)
(* A managed capture reads a copy pinned when it began, unfiltered, and is  *)
(* refused when anything of it was lost (__init__.py).                      *)
(* A guild's channel; pictures, candidates and modals pass the same filters *)
(* and are left to Assets and Queries.                                      *)
(***************************************************************************)
EXTENDS Integers, FiniteSets

CONSTANTS
  Messages, Users, Roles, Channels, Commands,
  Viewer,      \* one of the users
  Home,        \* the page's channel
  Parent,      \* the channel whose rights apply: a thread's parent, else itself
  Place,       \* the channel a message is in
  Author,      \* a user, or a webhook, which is nobody's member
  Names,       \* what a message's text mentions
  Reply,       \* the message it replies to
  Refers,      \* the message its interaction or its system notice is about
  Thread,      \* the thread that hangs on it
  Hidden,      \* messages only others see: ephemeral ones
  Nil,
  Turned,      \* bound: the rights, by channel, that may be given and taken
  MaxSchema,   \* bound: changes of a command
  MaxChanges   \* bound: changes of the world

VARIABLES
  gone,     \* deleted messages
  there,    \* members, roles, channels, and the commands shown to the viewer
  can,      \* the viewer's permissions, by channel
  joined,   \* threads the viewer is in
  schema,   \* a command's declaration; 0: it is not registered
  published,     \* the page of the Python test
  pin,      \* the page of a capture that is being drawn
  changes

world == <<gone, there, can, joined, schema>>
projectionVars == <<gone, there, can, joined, schema, published, pin, changes>>

Permissions == {"view", "history", "send", "manage", "use"}
Entities == Users \union Roles \union Channels \union Commands

(***************************************************************************)
(* backend/access.py: what the viewer may see at this moment.               *)
(***************************************************************************)
Can(c, p) == p \in can[Parent[c]]

Accessible(c, history) ==
  /\ c \in there /\ Viewer \in there /\ Can(c, "view") /\ (history => Can(c, "history"))
  /\ Parent[c] # c => c \in joined \/ Can(c, "manage")

Readable(m) == m \notin gone /\ Accessible(Place[m], TRUE) /\ m \notin Hidden

Usable == Accessible(Home, TRUE) /\ Can(Home, "use")

\* _DependencyRead.entity
Mentionable(e) ==
  CASE e \in Channels -> Accessible(e, FALSE)
    [] e \in Commands -> Usable /\ e \in there /\ schema[e] > 0
    [] OTHER          -> e \in there

CanSend(c) == Can(c, "send")

\* _message_allowed_actions, in the channel layout
ActionsOn(m) ==
  (IF CanSend(Home) THEN {"reply"} ELSE {})
  \union (IF Author[m] = Viewer THEN {"edit"} ELSE {})
  \union (IF Author[m] = Viewer \/ Can(Home, "manage") THEN {"delete"} ELSE {})
  \union (IF Can(Home, "manage") THEN {"pin"} ELSE {})

(***************************************************************************)
(* A publication.                                                           *)
(***************************************************************************)
IfReadable(m) == IF m # Nil /\ Readable(m) THEN m ELSE Nil
IfOpen(t) == IF t # Nil /\ Accessible(t, TRUE) THEN t ELSE Nil

\* a command is named in a text whether the viewer may use it or not
Mentioned(m) == {e \in Names[m] : IF e \in Commands THEN schema[e] > 0 ELSE Mentionable(e)}

Projection(m) ==
  [names |-> Mentioned(m), reply |-> IfReadable(Reply[m]), refers |-> IfReadable(Refers[m]),
   thread |-> IfOpen(Thread[m]), actions |-> ActionsOn(m)]

Window == {m \in Messages : Place[m] = Home /\ Readable(m)}

Unavailable == [usable |-> FALSE, entries |-> {}]
Catalog ==
  IF Usable
  THEN [usable |-> TRUE,
        entries |-> {<<c, schema[c]>> : c \in {x \in Commands : Mentionable(x)}}]
  ELSE Unavailable

\* _entity_projection: the target's author and what it mentions, the author of what it answers
Listed(t) ==
  {Home} \union
  (IF t = Nil THEN {}
   ELSE {Author[t]} \union (Mentioned(t) \intersect (Users \union Roles))
        \union (IF IfReadable(Reply[t]) # Nil THEN {Author[Reply[t]]} ELSE {}))

DeniedView == [messages |-> [m \in {} |-> Nil], target |-> Nil, listed |-> {},
           send |-> FALSE, use |-> FALSE]

Snapshot(t) ==
  IF Accessible(Home, TRUE)
  THEN [messages |-> [m \in Window |-> Projection(m)], target |-> t, listed |-> Listed(t),
        send |-> CanSend(Home), use |-> Usable]
  ELSE DeniedView

NoReceipt == [target |-> Nil, outcomes |-> {}]

\* _redact_page_receipts, and the status of a page that may not be read
Refused(pg) == [pg EXCEPT !.status = "access_denied", !.receipt = NoReceipt]

Projected(pg) ==
  LET allowed == Accessible(Home, TRUE)
      t == IF pg.target # Nil /\ Readable(pg.target) THEN pg.target ELSE Nil
      shown == IF allowed THEN Window ELSE {}
  IN  [IF allowed THEN [pg EXCEPT !.status = "current"] ELSE Refused(pg) EXCEPT
         !.snap = Snapshot(t),
         !.catalog = Catalog,
         !.referenced = {Reply[m] : m \in {x \in shown : IfReadable(Reply[x]) # Nil}}
                        \union {Refers[m] : m \in {x \in shown : IfReadable(Refers[x]) # Nil}},
         !.sources = [m \in {x \in shown : IfReadable(Refers[x]) # Nil} |-> Refers[m]],
         !.named = IF allowed /\ t # Nil /\ IfReadable(Reply[t]) # Nil
                   THEN {<<Author[Reply[t]], Reply[t]>>} ELSE {}]

(***************************************************************************)
(* A read.                                                                  *)
(***************************************************************************)
\* what a mutant does: the message a reply quotes is taken to be there still
FilteredTrusting(pg, m, p) ==
  [names |-> {e \in p.names : Mentionable(e)}, reply |-> p.reply,
   refers |-> IF m \in DOMAIN pg.sources /\ ~Readable(pg.sources[m]) THEN Nil ELSE p.refers,
   thread |-> IfOpen(p.thread), actions |-> p.actions \intersect ActionsOn(m)]

\* _filter_message
FilteredMessage(pg, m, p) ==
  [names |-> {e \in p.names : Mentionable(e)}, reply |-> IfReadable(p.reply),
   refers |-> IF m \in DOMAIN pg.sources /\ ~Readable(pg.sources[m]) THEN Nil ELSE p.refers,
   thread |-> IfOpen(p.thread), actions |-> p.actions \intersect ActionsOn(m)]

Authorized(pg) ==
  IF Usable /\ pg.catalog.usable
  THEN [usable |-> TRUE,
        entries |-> {e \in pg.catalog.entries : Mentionable(e[1]) /\ schema[e[1]] = e[2]}]
  ELSE Unavailable

StillReadable(snap) == {m \in DOMAIN snap.messages : Readable(m)}
Orphaned(pg, snap, e) ==
  /\ \E n \in pg.named : n[1] = e /\ ~Readable(n[2])
  /\ \A m \in StillReadable(snap) : Author[m] # e

\* _filter_dependencies
Filtered(pg, snap) ==
  [messages |-> [m \in StillReadable(snap) |-> FilteredMessage(pg, m, snap.messages[m])],
   target |-> IF snap.target \in StillReadable(snap) THEN snap.target ELSE Nil,
   listed |-> {e \in snap.listed : Mentionable(e) /\ ~Orphaned(pg, snap, e)},
   send |-> snap.send /\ CanSend(Home),
   use |-> snap.use /\ Authorized(pg).usable]

\* _DependencyRead.retain, where the filters call it
LostMessage(pg, m, p) ==
  \/ \E e \in p.names : ~Mentionable(e)
  \/ p.reply # Nil /\ ~Readable(p.reply)
  \/ p.thread # Nil /\ ~Accessible(p.thread, TRUE)
  \/ m \in DOMAIN pg.sources /\ ~Readable(pg.sources[m])
  \/ ~(p.actions \subseteq ActionsOn(m))

Lost(pg, snap) ==
  \/ \E m \in DOMAIN snap.messages :
       ~Readable(m) \/ LostMessage(pg, m, snap.messages[m])
  \/ \E e \in snap.listed : ~Mentionable(e) \/ Orphaned(pg, snap, e)
  \/ snap.send /\ ~CanSend(Home)
  \/ snap.use /\ ~Authorized(pg).usable
  \/ Authorized(pg) # pg.catalog

\* _filter_receipt
FilteredReceipt(r) ==
  [target |-> IF r.target \in Messages /\ Readable(r.target) THEN r.target ELSE Nil,
   outcomes |-> {m \in r.outcomes : Readable(m)}]

\* _page_payload
Payload(pg) ==
  IF Accessible(Home, TRUE)
  THEN [view |-> Filtered(pg, pg.snap), catalog |-> Authorized(pg), receipt |-> FilteredReceipt(pg.receipt)]
  ELSE [view |-> DeniedView, catalog |-> Unavailable, receipt |-> NoReceipt]

PinLive(pg) ==
  /\ Accessible(Home, TRUE)
  /\ \A m \in DOMAIN pg.pinned.messages \union pg.referenced \union ({pg.target} \ {Nil}) : Readable(m)
  /\ ~Lost(pg, pg.pinned)

(***************************************************************************)
(* Steps of the test and of the browser.                                    *)
(***************************************************************************)
UnpublishedPage(t) ==
  [target |-> t, status |-> "current", snap |-> DeniedView, pinned |-> Nil, catalog |-> Unavailable,
   referenced |-> {}, sources |-> [m \in {} |-> Nil], named |-> {},
   receipt |-> NoReceipt]

ProjectionInit ==
  /\ gone = {} /\ there = Entities /\ joined = {c \in Channels : Parent[c] # c}
  /\ can = [c \in {Parent[x] : x \in Channels} |-> Permissions \ {"manage"}]
  /\ schema = [c \in Commands |-> 1]
  /\ published = Projected(UnpublishedPage(Nil))
  /\ pin = Nil /\ changes = 0

Refresh ==
  /\ published' = Projected(published)
  /\ pin' = IF pin = Nil THEN Nil ELSE Projected(pin)
  /\ UNCHANGED <<world, changes>>

ShowMessage(m) ==
  /\ Place[m] = Home /\ Readable(m)
  /\ published' = Projected([published EXCEPT !.target = m])
  /\ UNCHANGED <<world, pin, changes>>

\* _capture_target: the message in focus, or the newest one if that may not be read any more.
\* Messages have no order here, so the newest is any.
CaptureTargets ==
  IF IfReadable(published.target) # Nil THEN {published.target}
  ELSE IF Window = {} THEN {Nil} ELSE Window

\* a screenshot: every page is published, one more made and pinned. The receipt it copies is
\* no part of what a capture is checked for, and is left out.
PinCopy ==
  /\ pin = Nil /\ Accessible(Home, TRUE)
  /\ published' = Projected(published)
  /\ \E t \in CaptureTargets :
       LET made == Projected(UnpublishedPage(t))
       IN  pin' = [made EXCEPT !.pinned = made.snap]
  /\ UNCHANGED <<world, changes>>

PinEnds == pin # Nil /\ pin' = Nil /\ UNCHANGED <<world, published, changes>>

\* a read of a page that may not be read any more drops its receipts
Read ==
  /\ ~Accessible(Home, TRUE) /\ published.status # "access_denied"
  /\ published' = Refused(published)
  /\ UNCHANGED <<world, pin, changes>>

\* an action on a shown message that ends with an edit of it; every page is published after it
EditShown(m) ==
  /\ published.status = "current" /\ m \in DOMAIN Payload(published).view.messages
  /\ published' = Projected([published EXCEPT !.receipt = [target |-> m, outcomes |-> {m}]])
  /\ pin' = IF pin = Nil THEN Nil ELSE Projected(pin)
  /\ UNCHANGED <<world, changes>>

(***************************************************************************)
(* The world goes on.                                                       *)
(***************************************************************************)
Change == changes < MaxChanges /\ changes' = changes + 1 /\ UNCHANGED <<published, pin>>
Toggled(S, x) == IF x \in S THEN S \ {x} ELSE S \union {x}

Delete(m) == Change /\ m \notin gone /\ gone' = gone \union {m} /\ UNCHANGED <<there, can, joined, schema>>

\* people come and go; a role or a channel that is deleted does not come back
Presence(e) ==
  /\ Change /\ (e \in Roles \union Channels => e \in there)
  /\ there' = Toggled(there, e)
  /\ gone' = gone \union {m \in Messages : Place[m] = e}
  /\ UNCHANGED <<can, joined, schema>>

Right(c, p) == Change /\ can' = [can EXCEPT ![c] = Toggled(@, p)] /\ UNCHANGED <<gone, there, joined, schema>>
Membership(t) == Change /\ joined' = Toggled(joined, t) /\ UNCHANGED <<gone, there, can, schema>>
Declare(c) ==
  /\ Change /\ schema[c] < MaxSchema /\ schema' = [schema EXCEPT ![c] = @ + 1]
  /\ UNCHANGED <<gone, there, can, joined>>

ProjectionNext ==
  \/ Refresh \/ PinCopy \/ PinEnds \/ Read
  \/ \E m \in Messages : ShowMessage(m) \/ EditShown(m) \/ Delete(m)
  \/ \E e \in Entities : Presence(e)
  \/ \E r \in Turned : Right(r[1], r[2])
  \/ \E t \in Channels : Parent[t] # t /\ Membership(t)
  \/ \E c \in Commands : Declare(c)

ProjectionSpec == ProjectionInit /\ [][ProjectionNext]_projectionVars

(***************************************************************************)
(* Properties.                                                              *)
(***************************************************************************)
\* what a view tells, as facts
Facts(v) ==
  {<<"message", m>> : m \in DOMAIN v.messages \union ({v.target} \ {Nil})}
  \union {<<"message", m>> : m \in ({v.messages[x].reply : x \in DOMAIN v.messages}
                                   \union {v.messages[x].refers : x \in DOMAIN v.messages}) \ {Nil}}
  \union {<<"thread", t>> : t \in {v.messages[x].thread : x \in DOMAIN v.messages} \ {Nil}}
  \union {<<"entity", e>> : e \in v.listed \union (UNION {v.messages[x].names : x \in DOMAIN v.messages})}
  \union (UNION {{<<a, m>> : a \in v.messages[m].actions} : m \in DOMAIN v.messages})
  \union (IF v.send THEN {<<"send", Home>>} ELSE {})
  \union (IF v.use THEN {<<"use", Home>>} ELSE {})

\* whether the viewer may be told it now
True(f) ==
  CASE f[1] = "message" -> Readable(f[2])
    [] f[1] = "thread"  -> Accessible(f[2], TRUE)
    [] f[1] = "entity"  -> Mentionable(f[2])
    [] f[1] = "send"    -> CanSend(Home)
    [] f[1] = "use"     -> Usable
    [] OTHER            -> f[1] \in ActionsOn(f[2])

\* a read tells nothing the viewer may not see at that moment, however old the publication:
\* no message, quotation, mention, name, thread, right, command or receipt (_page_payload)
NothingRevoked ==
  LET p == Payload(published)
  IN  /\ \A f \in Facts(p.view) : True(f)
      /\ \A e \in p.catalog.entries : Mentionable(e[1]) /\ schema[e[1]] = e[2]
      /\ \A m \in p.receipt.outcomes \union ({p.receipt.target} \ {Nil}) : Readable(m)

\* and nothing that was not in the publication: what was granted since waits for the next one
NothingGranted ==
  LET p == Payload(published)
  IN  Facts(p.view) \subseteq Facts(published.snap) /\ p.catalog.entries \subseteq published.catalog.entries

\* a capture that is accepted shows messages, quotations, mentions and threads the viewer may see
CaptureReadable ==
  pin # Nil => (PinLive(pin) =>
    \A m \in DOMAIN pin.pinned.messages :
      LET p == pin.pinned.messages[m]
      IN  /\ Readable(m) /\ (p.reply # Nil => Readable(p.reply))
          /\ p.thread = IfOpen(p.thread) /\ (\A e \in p.names : Mentionable(e)))

ReadsHonest == NothingRevoked /\ NothingGranted /\ CaptureReadable

\* whatever a read leaves out of the publication is reported as a loss, by which a capture is
\* refused: the copy a capture shows unfiltered is what the filter would have shown
LossTold ==
  Accessible(Home, TRUE) /\ ~Lost(published, published.snap) =>
    Filtered(published, published.snap) = published.snap

\* what a page answers is what its viewer may still see, and what it lost is said to be
\* lost (read_message, _dependencies.py)
ReadsTrue == ReadsHonest /\ LossTold

\* docs/guides/preview.md: a pinned capture fails closed if a published dependency loses access
CaptureFailsClosed ==
  pin # Nil => (PinLive(pin) => \A f \in Facts(pin.pinned) : True(f))

==============================================================================
