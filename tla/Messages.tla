------------------------------- MODULE Messages -------------------------------
(***************************************************************************)
(* The messages of one guild channel: what people, the bot and an incoming *)
(* webhook do to them, the filter rule, and the clock that closes polls.   *)
(* A call that its checks reject changes nothing and is no step; a message *)
(* the filter blocks is answered as if it were sent, and uses up its id.   *)
(*                                                                         *)
(* What the backend keeps is a value: the messages, the index of ids by    *)
(* viewer and pin, the registration orders, the deadlines of open polls,   *)
(* the interactions and, as a witness, what a listener to the events knows *)
(* of the messages. Each operation on it is one call of the backend, which *)
(* nothing interrupts: the change, the indexes that follow it, the event.  *)
(*                                                                         *)
(* Left out: the fields of a message that no operation here reads, emoji   *)
(* other than one, other channels.                                         *)
(***************************************************************************)
EXTENDS Naturals, FiniteSets, Bags

CONSTANTS
  Bot,
  Hook,      \* the author of an incoming webhook's messages
  Users,     \* the people of the test, members of the guild
  Mods,      \* of them, who may manage messages
  Shy,       \* of them, who may not put a new reaction on a message
  Exempt,    \* of them, whose roles the filter rule exempts
  Everyone,  \* the owner of a message all can see
  Answers,   \* answers of a poll
  MaxMessages,  \* bound: message ids given out
  MaxClock,     \* bound: instants the clock reaches
  MaxMarks,     \* bound: reactions and votes in the channel at a time
  PollLife,     \* instants a poll is open
  PollKinds     \* bound: whether polls take many answers

ASSUME PeopleAssumption ==
  /\ Bot # Hook /\ {Bot, Hook, Everyone} \cap Users = {}
  /\ Mods \cup Shy \cup Exempt \subseteq Users
ASSUME MessagesAssumption ==
  /\ {MaxMessages, MaxClock, MaxMarks, PollLife} \subseteq Nat /\ PollLife > 0
  /\ PollKinds \subseteq BOOLEAN

People == Users \cup {Bot}
Texts == {"plain", "rude"}

NoPoll == [expiry |-> 0, closed |-> TRUE, multi |-> FALSE, votes |-> [u \in Users |-> {}]]
OpenPoll(expiry, multi) ==
  [expiry |-> expiry, closed |-> FALSE, multi |-> multi, votes |-> [u \in Users |-> {}]]

\* from: the interaction a message answers; of: the message it forwards.
Message(author, text) ==
  [author |-> author, text |-> text, owner |-> Everyone, from |-> 0, of |-> 0,
   loading |-> FALSE, notice |-> FALSE, pinned |-> FALSE, poll |-> NoPoll, reactions |-> {}]

Empty ==
  [messages |-> <<>>, index |-> EmptyBag, order |-> {}, deadlines |-> <<>>,
   interactions |-> <<>>, told |-> <<>>]

Put(f, x, y) == [z \in DOMAIN f \cup {x} |-> IF z = x THEN y ELSE f[z]]
Without(f, S) == [x \in DOMAIN f \ S |-> f[x]]
Public(m) == m.owner = Everyone
VisibleTo(m, u) == m.owner \in {Everyone, u}

-----------------------------------------------------------------------------
(* The index and the poll deadlines *)

Keys(m, id) == {<<m.owner, p, id>> : p \in {FALSE} \cup {m.pinned}}
Index(st, id) == [st EXCEPT !.index = @ (+) SetToBag(Keys(st.messages[id], id))]
Unindex(st, id) == [st EXCEPT !.index = @ (-) SetToBag(Keys(st.messages[id], id))]

Schedule(st, id) ==
  LET poll == st.messages[id].poll IN
  [st EXCEPT !.deadlines = IF poll.closed THEN Without(@, {id})
                                          ELSE Put(@, id, poll.expiry)]

\* What a viewer's listing finds: ids under the viewer and under everyone.
Listed(st, u, pinned) ==
  {id \in DOMAIN st.messages :
     \E o \in {Everyone, u} : BagIn(<<o, pinned, id>>, st.index)}

-----------------------------------------------------------------------------
(* Events *)

View(m) == [text |-> m.text, poll |-> m.poll, reactions |-> m.reactions]

TellNew(st, id) ==
  IF Public(st.messages[id])
    THEN [st EXCEPT !.told = Put(@, id, View(st.messages[id]))] ELSE st
\* An event about a message the listener was never told of says nothing to it.
Tell(st, id) ==
  IF id \in DOMAIN st.told THEN [st EXCEPT !.told[id] = View(st.messages[id])] ELSE st

-----------------------------------------------------------------------------
(* Messages *)

Commit(st, id, m) ==
  LET installed == [st EXCEPT !.messages = Put(@, id, m), !.order = @ \cup {id}]
  IN  TellNew(Schedule(Index(installed, id), id), id)

\* The first edit of a "thinking" answer completes it.
Completed(st, id) ==
  LET i == st.messages[id].from IN
  IF /\ st.messages[id].loading
     /\ st.interactions[i].message = id
     /\ st.interactions[i].kind = "deferred"
    THEN [st.interactions EXCEPT ![i].kind = "message"]
    ELSE st.interactions

\* An edit keeps the viewer, the pin and the id: the index stays.
Edit(st, id, text, poll) ==
  LET edited == [st EXCEPT !.messages[id] = [@ EXCEPT !.text = text, !.poll = poll, !.loading = FALSE],
                           !.interactions = Completed(st, id)]
      planned == Schedule(edited, id)
  IN  IF Public(st.messages[id]) THEN Tell(planned, id) ELSE planned

\* Mutant: what is deleted many at a time stays in the index.
EraseKeepsIndex(st, ids) ==
  [st EXCEPT !.deadlines = Without(@, ids), !.messages = Without(@, ids),
             !.order = @ \ ids, !.told = Without(@, ids)]

\* Deletes those of the ids that are there, one by one or many at once.
Erase(st, ids) ==
  LET keys == UNION {Keys(st.messages[id], id) : id \in ids \cap DOMAIN st.messages} IN
  [st EXCEPT !.index = @ (-) SetToBag(keys), !.deadlines = Without(@, ids),
             !.messages = Without(@, ids), !.order = @ \ ids, !.told = Without(@, ids)]

DropChannel(st) == [Empty EXCEPT !.interactions = st.interactions]

\* Pinning announces itself in the channel; `next` is the id of the notice.
SetPinned(st, id, pinned, actor, next) ==
  LET repinned == [st EXCEPT !.messages[id].pinned = pinned]
      moved == Index([repinned EXCEPT !.index = Unindex(st, id).index], id)
      notice == [Message(actor, "plain") EXCEPT !.notice = TRUE]
  IN  IF pinned THEN Commit(moved, next, notice) ELSE moved

-----------------------------------------------------------------------------
(* Reactions and polls *)

SetReaction(st, id, u, reacted) ==
  Tell([st EXCEPT !.messages[id].reactions = IF reacted THEN @ \cup {u} ELSE @ \ {u}], id)
ClearReactions(st, id) == Tell([st EXCEPT !.messages[id].reactions = {}], id)

Selected(poll, u, answer) ==
  IF poll.multi THEN poll.votes[u] \cup {answer} ELSE {answer}

SetVotes(st, id, u, selected) == Tell([st EXCEPT !.messages[id].poll.votes[u] = selected], id)

FinalizePoll(st, id) ==
  Tell(Schedule([st EXCEPT !.messages[id].poll.closed = TRUE], id), id)

\* The polls that are due when the clock has come to `now`, in one go.
Due(st, now) == {id \in DOMAIN st.deadlines : st.deadlines[id] <= now}
ExpireDuePolls(st, now) ==
  LET due == Due(st, now) IN
  [st EXCEPT
     !.messages = [id \in DOMAIN @ |-> IF id \in due THEN [@[id] EXCEPT !.poll.closed = TRUE] ELSE @[id]],
     !.deadlines = Without(@, due),
     !.told = [id \in DOMAIN @ |-> IF id \in due THEN [@[id] EXCEPT !.poll.closed = TRUE] ELSE @[id]]]

-----------------------------------------------------------------------------
(* What a person or the bot may do *)

\* Joining a reaction that is there takes less than putting a new one.
MayReact(st, id, u) == u \notin Shy \/ st.messages[id].reactions # {}

Forwardable(st, id, u) ==
  LET m == st.messages[id] IN
  /\ VisibleTo(m, u) /\ Public(m) /\ ~m.loading /\ ~m.notice /\ m.poll = NoPoll /\ m.of = 0

\* Mutant: webhooks are taken for bots.
FilteredPeople(rule, author, text) ==
  /\ rule = "block" /\ text = "rude"
  /\ author \in Users \ Exempt

\* The filter looks at what people and webhooks send, never at the bot's.
Filtered(rule, author, text) ==
  /\ rule = "block" /\ text = "rude"
  /\ author \notin Exempt \cup {Bot}

-----------------------------------------------------------------------------
(* The channel *)

VARIABLES
  store,   \* what the backend keeps
  issued,  \* message ids given out so far
  clock,
  filter,  \* what the filter rule does with a rude message, alerts apart
  there    \* whether the channel is

vars == <<store, issued, clock, filter, there>>

Ids == 1..MaxMessages
messages == store.messages
Has(id) == there /\ id \in DOMAIN messages
NewId == issued + 1
Fresh == there /\ NewId \in Ids
Polls == {OpenPoll(clock + PollLife, multi) : multi \in PollKinds}

Init ==
  /\ store = Empty /\ issued = 0 /\ clock = 0 /\ filter = "none" /\ there = TRUE

Marks(st) ==
  {mark \in (DOMAIN st.messages) \X People : mark[2] \in st.messages[mark[1]].reactions}
  \cup {mark \in (DOMAIN st.messages) \X Users \X Answers :
          mark[3] \in st.messages[mark[1]].poll.votes[mark[2]]}

Becomes(st) == Cardinality(Marks(st)) <= MaxMarks /\ store' = st /\ UNCHANGED <<issued, clock, filter, there>>

\* A message is prepared, which gives it its id, passes the filter, and is
\* installed.
Post(m) ==
  /\ Fresh
  /\ issued' = NewId
  /\ store' = IF Filtered(filter, m.author, m.text) /\ m.of = 0
                THEN store ELSE Commit(store, NewId, m)
  /\ UNCHANGED <<clock, filter, there>>

-----------------------------------------------------------------------------
(* People *)

\* A person sees the message they act on.
Sees(u, id) == Has(id) /\ VisibleTo(messages[id], u)
MayManage(u, id) == u \in Mods \/ messages[id].author = u

Send(u, text) == Post(Message(u, text))

\* What is forwarded has no words of its own for the filter to look at.
Forward(u, id) ==
  /\ Has(id) /\ Forwardable(store, id, u)
  /\ Post([Message(u, "plain") EXCEPT !.of = id])

EditOwn(u, id, text) ==
  /\ Sees(u, id) /\ messages[id].author = u
  /\ Becomes(Edit(store, id, text, messages[id].poll))

Delete(u, id) ==
  /\ Sees(u, id) /\ MayManage(u, id)
  /\ Becomes(Erase(store, {id}))

Pin(actor, id, pinned) ==
  /\ messages[id].pinned # pinned
  /\ pinned => Fresh
  /\ store' = SetPinned(store, id, pinned, actor, NewId)
  /\ issued' = IF pinned THEN NewId ELSE issued
  /\ UNCHANGED <<clock, filter, there>>

SetPin(u, id, pinned) == Sees(u, id) /\ u \in Mods /\ Pin(u, id, pinned)

React(u, id, reacted) ==
  /\ Sees(u, id) /\ (reacted => MayReact(store, id, u))
  /\ (u \in messages[id].reactions) # reacted
  /\ Becomes(SetReaction(store, id, u, reacted))

\* A vote replaces the others, or joins them; it is read before it is set.
Vote(u, id, answer) ==
  /\ Sees(u, id) /\ ~messages[id].poll.closed
  /\ Becomes(SetVotes(store, id, u, Selected(messages[id].poll, u, answer)))
RemoveVote(u, id, answer) ==
  /\ Sees(u, id) /\ ~messages[id].poll.closed
  /\ Becomes(SetVotes(store, id, u, messages[id].poll.votes[u] \ {answer}))

Person ==
  \E u \in Users :
    \/ \E text \in Texts : Send(u, text)
    \/ \E id \in Ids :
         \/ Forward(u, id)
         \/ Delete(u, id)
         \/ \E text \in Texts : EditOwn(u, id, text)
         \/ \E pinned \in BOOLEAN : SetPin(u, id, pinned)
         \/ \E reacted \in BOOLEAN : React(u, id, reacted)
         \/ \E answer \in Answers : Vote(u, id, answer) \/ RemoveVote(u, id, answer)

-----------------------------------------------------------------------------
(* The bot, which may manage messages, and the webhook. The channel routes *)
(* hide private messages; the one that deletes many takes any ids.         *)

Open(id) == Has(id) /\ Public(messages[id])

BotSend(poll) == Post([Message(Bot, "plain") EXCEPT !.poll = poll])
BotForward(id) == Has(id) /\ Forwardable(store, id, Bot) /\ Post([Message(Bot, "plain") EXCEPT !.of = id])
\* A poll comes with an edit only when it completes a "thinking" answer.
BotEdit(id, text, poll) ==
  /\ Open(id) /\ messages[id].author = Bot
  /\ poll # messages[id].poll => messages[id].loading
  /\ Becomes(Edit(store, id, text, poll))
BotDelete(id) == Open(id) /\ Becomes(Erase(store, {id}))
BulkDelete(ids) ==
  /\ there /\ \E id \in ids : ids # {id}
  /\ Becomes(Erase(store, ids))
BotPin(id, pinned) == Open(id) /\ Pin(Bot, id, pinned)
BotReact(id) == Open(id) /\ Bot \notin messages[id].reactions /\ Becomes(SetReaction(store, id, Bot, TRUE))
BotUnreact(id, u) == Open(id) /\ u \in messages[id].reactions /\ Becomes(SetReaction(store, id, u, FALSE))
BotClear(id) == Open(id) /\ Becomes(ClearReactions(store, id))
ExpirePoll(id) ==
  /\ Open(id) /\ messages[id].author = Bot /\ ~messages[id].poll.closed
  /\ Becomes(FinalizePoll(store, id))

WebhookSend(text) == Post(Message(Hook, text))
WebhookEdit(id, text) ==
  /\ Has(id) /\ messages[id].author = Hook
  /\ Becomes(Edit(store, id, text, messages[id].poll))
WebhookDelete(id) == Has(id) /\ messages[id].author = Hook /\ Becomes(Erase(store, {id}))

Program ==
  \/ \E poll \in Polls \cup {NoPoll} : BotSend(poll)
  \/ \E text \in Texts : WebhookSend(text)
  \/ \E id \in Ids :
       \/ BotForward(id) \/ BotDelete(id) \/ BotReact(id) \/ BotClear(id)
       \/ ExpirePoll(id) \/ WebhookDelete(id)
       \/ \E text \in Texts : BotEdit(id, text, messages[id].poll) \/ WebhookEdit(id, text)
       \/ \E pinned \in BOOLEAN : BotPin(id, pinned)
       \/ \E u \in People : BotUnreact(id, u)
  \/ \E ids \in SUBSET (1..issued) : BulkDelete(ids)

-----------------------------------------------------------------------------
(* The rule, the clock, the end of the channel *)

SetFilter ==
  /\ there
  /\ filter' \in {"none", "block"} \ {filter}
  /\ UNCHANGED <<store, issued, clock, there>>

Tick ==
  /\ clock < MaxClock
  /\ clock' = clock + 1
  /\ store' = ExpireDuePolls(store, clock + 1)
  /\ UNCHANGED <<issued, filter, there>>

DeleteChannel ==
  /\ there
  /\ there' = FALSE /\ store' = DropChannel(store)
  /\ UNCHANGED <<issued, clock, filter>>

Next == Person \/ Program \/ SetFilter \/ Tick \/ DeleteChannel
Spec == Init /\ [][Next]_vars

-----------------------------------------------------------------------------
(* Properties *)

\* Whoever lists the channel, or its pins, finds exactly what they may see;
\* each message has a registration order, and the deadlines are those of the
\* polls that are open. The index, the orders and the deadlines are kept
\* beside the messages by every operation that touches them.
StoreFollows ==
  /\ \A u \in Users \cup {Everyone}, pinned \in BOOLEAN :
       Listed(store, u, pinned) =
         {id \in DOMAIN messages : VisibleTo(messages[id], u) /\ (pinned => messages[id].pinned)}
  /\ BagToSet(store.index) = UNION {Keys(messages[id], id) : id \in DOMAIN messages}
  /\ \A key \in DOMAIN store.index : store.index[key] = 1
  /\ store.order = DOMAIN messages /\ DOMAIN messages \subseteq 1..issued
  /\ store.deadlines =
       [id \in {x \in DOMAIN messages : ~messages[x].poll.closed} |-> messages[id].poll.expiry]

\* No poll is open at or past its expiry, however the clock came there, and
\* a poll that takes one answer has at most one of each voter.
PollsClose ==
  \A id \in DOMAIN messages :
    LET poll == messages[id].poll IN
    /\ ~poll.closed => clock < poll.expiry
    /\ ~poll.multi => \A u \in Users : \A a, b \in poll.votes[u] : a = b

\* A program that keeps what the events tell it has the public messages, with
\* their words, reactions, votes and results, and no others: no change goes
\* untold and nothing stays with it that is gone.
ListenersFollow ==
  store.told =
    [id \in {x \in DOMAIN messages : Public(messages[x])} |-> View(messages[id])]

\* While the rule blocks, a rude message appears only by an edit, from an
\* exempt member or from the bot; what a message forwards was public.
AppearsRightly ==
  \A id \in DOMAIN store'.messages \ DOMAIN messages :
    LET m == store'.messages[id] IN
    /\ filter = "block" /\ m.text = "rude" => m.author \in Exempt
    /\ m.of # 0 => m.of \in DOMAIN messages /\ Public(messages[m.of]) /\ ~messages[m.of].loading
FilterHolds == [][AppearsRightly]_vars
=============================================================================
