----------------------------- MODULE Interactions -----------------------------
(***************************************************************************)
(* Interactions on top of the messages of a channel: a person runs a       *)
(* command, clicks or submits a modal; the bot answers in time, "thinks",  *)
(* follows up, edits and deletes, while everything of Messages goes on.    *)
(*                                                                         *)
(* The bot puts its one button on the messages it sends for interactions.  *)
(* Kinds of answer are those discord.py sends to a type of interaction.    *)
(* Left out: options and component trees, uploads, the result objects.     *)
(***************************************************************************)
EXTENDS Messages

CONSTANTS
  MaxInteractions,  \* bound: interactions asked
  Window,  \* instants the first answer may take
  Life     \* instants a token lives

ASSUME InteractionsAssumption ==
  {MaxInteractions, Window, Life} \subseteq Nat /\ 0 < Window /\ Window <= Life

interactions == store.interactions
InteractionIds == 1..MaxInteractions

Interaction(type, u, source) ==
  [type |-> type, user |-> u, source |-> source, born |-> clock, kind |-> "none",
   message |-> 0, private |-> FALSE, followups |-> {}, consumed |-> FALSE]

Responded(i) == interactions[i].kind # "none"
Loading(i) == interactions[i].kind = "deferred"

\* The first answer: the token lives, none was given, the window is open.
Answerable(i) ==
  /\ i \in DOMAIN interactions /\ ~Responded(i)
  /\ clock < interactions[i].born + Life /\ clock < interactions[i].born + Window

\* The token serves follow-ups before the first answer too, in its window.
TokenLives(i) ==
  /\ i \in DOMAIN interactions
  /\ clock < interactions[i].born + Life
  /\ Responded(i) \/ clock < interactions[i].born + Window

-----------------------------------------------------------------------------
(* People *)

\* Bound: what comes before the first interaction is nothing.
Untouched == <<Empty, 0, 0, "none", TRUE>>

Ask(interaction, st) ==
  LET i == Cardinality(DOMAIN st.interactions) + 1 IN
  /\ there /\ i \in InteractionIds
  /\ i = 1 => vars = Untouched
  /\ Becomes([st EXCEPT !.interactions = Put(@, i, interaction)])

Invoke(u, type) == Ask(Interaction(type, u, 0), store)

HasButton(id) == messages[id].from # 0 /\ ~messages[id].loading
Click(u, id) == Sees(u, id) /\ HasButton(id) /\ Ask(Interaction("component", u, id), store)

\* A modal is submitted once, by who opened it, while its source is there.
SubmitModal(i) ==
  LET shown == interactions[i] IN
  /\ i \in DOMAIN interactions /\ shown.kind = "modal" /\ ~shown.consumed
  /\ shown.source # 0 => Sees(shown.user, shown.source)
  /\ Ask(Interaction("modal", shown.user, shown.source),
         [store EXCEPT !.interactions[i].consumed = TRUE])

-----------------------------------------------------------------------------
(* The first answer: the record is marked only when the answer was handled *)

Mark(i, kind, message) == [interactions[i] EXCEPT !.kind = kind, !.message = message]

AnswerFor(i, private, loading) ==
  [Message(Bot, "plain") EXCEPT
     !.owner = IF private THEN interactions[i].user ELSE Everyone, !.from = i, !.loading = loading]

Respond(i, private, kind) ==
  /\ Answerable(i) /\ Fresh
  /\ issued' = NewId
  /\ store' = Commit([store EXCEPT !.interactions[i] = [Mark(i, kind, NewId) EXCEPT !.private = private]],
                     NewId, AnswerFor(i, private, kind = "deferred"))
  /\ UNCHANGED <<clock, filter, there>>

\* The clicked message is the original, none for a modal of a command.
DeferUpdate(i) ==
  /\ Answerable(i) /\ interactions[i].type \in {"component", "modal"}
  /\ Becomes([store EXCEPT !.interactions[i] = Mark(i, "deferred_update", interactions[i].source)])

UpdateSource(i, text) ==
  LET source == interactions[i].source
      edited == Edit(store, source, text, messages[source].poll)
  IN  /\ Answerable(i) /\ interactions[i].type \in {"component", "modal"}
      /\ source # 0 /\ Has(source)
      /\ Becomes([edited EXCEPT !.interactions[i] = Mark(i, "update", source)])

ShowModal(i) ==
  /\ Answerable(i) /\ interactions[i].type \in {"command", "component"}
  /\ Becomes([store EXCEPT !.interactions[i] = Mark(i, "modal", 0)])

CompleteAutocomplete(i) ==
  /\ Answerable(i) /\ interactions[i].type = "autocomplete"
  /\ Becomes([store EXCEPT !.interactions[i] = Mark(i, "autocomplete", 0)])

-----------------------------------------------------------------------------
(* The token's routes *)

\* Mutant: a follow-up is a message of its own while the original thinks.
FollowupNew(i, private) ==
  /\ TokenLives(i) /\ Fresh
  /\ issued' = NewId
  /\ store' = Commit([store EXCEPT !.interactions[i].followups = @ \cup {NewId}],
                     NewId, AnswerFor(i, private, FALSE))
  /\ UNCHANGED <<clock, filter, there>>

EditOriginal(i, text, poll) ==
  LET id == interactions[i].message IN
  /\ TokenLives(i) /\ Has(id)
  /\ poll # messages[id].poll => messages[id].loading
  /\ Becomes(Edit(store, id, text, poll))

\* While the original "thinks" a follow-up is the edit that completes it, and
\* is refused when the original is gone.
Followup(i, private) ==
  /\ TokenLives(i)
  /\ \/ Loading(i) /\ EditOriginal(i, "plain", NoPoll)
     \/ ~Loading(i) /\ Fresh
        /\ issued' = NewId
        /\ store' = Commit([store EXCEPT !.interactions[i].followups = @ \cup {NewId}],
                           NewId, AnswerFor(i, private, FALSE))
        /\ UNCHANGED <<clock, filter, there>>

DeleteOriginal(i) ==
  /\ TokenLives(i) /\ Has(interactions[i].message)
  /\ Becomes(Erase(store, {interactions[i].message}))

OfInteraction(i, id) ==
  TokenLives(i) /\ Has(id) /\ id \in {interactions[i].message} \cup interactions[i].followups
EditFollowup(i, id, text) == OfInteraction(i, id) /\ Becomes(Edit(store, id, text, messages[id].poll))
DeleteFollowup(i, id) == OfInteraction(i, id) /\ Becomes(Erase(store, {id}))

-----------------------------------------------------------------------------
Answering(i) ==
  \/ \E private \in BOOLEAN, kind \in {"message", "deferred"} :
       interactions[i].type # "autocomplete" /\ Respond(i, private, kind)
  \/ DeferUpdate(i) \/ ShowModal(i) \/ CompleteAutocomplete(i)
  \/ UpdateSource(i, "plain")
Continuing(i) ==
  \/ \E private \in BOOLEAN : Followup(i, private)
  \/ DeleteOriginal(i)
  \/ \E poll \in Polls : EditOriginal(i, "plain", poll)
  \/ EditOriginal(i, "plain", messages[interactions[i].message].poll)
  \/ \E id \in Ids : DeleteFollowup(i, id) \/ EditFollowup(i, id, "plain")

InteractionNext ==
  \/ \E u \in Users : \/ \E type \in {"command", "autocomplete"} : Invoke(u, type)
                      \/ \E id \in Ids : Click(u, id)
  \/ \E i \in DOMAIN interactions : SubmitModal(i) \/ Answering(i) \/ Continuing(i)

\* Bound: beside interactions messages are deleted, pinned and edited by
\* other routes, and votes are cast; without any, all of Messages happens.
Beside ==
  \/ \E ids \in SUBSET (1..issued) : BulkDelete(ids)
  \/ \E id \in Ids :
       \/ BotDelete(id) \/ BotEdit(id, "plain", messages[id].poll)
       \/ \E poll \in Polls : BotEdit(id, "plain", poll)
       \/ \E u \in Users : \/ Delete(u, id) \/ SetPin(u, id, TRUE)
                          \/ \E answer \in Answers : Vote(u, id, answer)
  \/ Tick \/ DeleteChannel

AllNext ==
  \/ interactions = <<>> /\ Next
  \/ interactions # <<>> /\ Beside
  \/ InteractionNext

AllSpec == Init /\ [][AllNext]_vars

-----------------------------------------------------------------------------
(* Properties *)

\* A message "thinks" exactly while its interaction has it for a pending
\* original, through whatever route it is edited or deleted, and original and
\* follow-ups are seen by whom the interaction says.
ThinkingOwned ==
  /\ \A id \in DOMAIN messages :
       messages[id].loading => LET i == messages[id].from IN
         i \in DOMAIN interactions /\ Loading(i) /\ interactions[i].message = id
  /\ \A i \in DOMAIN interactions :
       interactions[i].message \in DOMAIN messages /\ interactions[i].kind \in {"message", "deferred"} =>
         LET m == messages[interactions[i].message] IN
         /\ m.loading = Loading(i)
         /\ m.owner = IF interactions[i].private THEN interactions[i].user ELSE Everyone

\* The stores beside the messages follow them, polls close in time, listeners
\* miss nothing, and a message "thinks" exactly for its own interaction.
MessagesSound == StoreFollows /\ PollsClose /\ ListenersFollow /\ ThinkingOwned

State(i) ==
  IF i \notin DOMAIN interactions THEN "unasked"
  ELSE IF Loading(i) THEN IF Has(interactions[i].message) THEN "thinking" ELSE "gone"
  ELSE IF Responded(i) THEN "answered"
  ELSE IF clock < interactions[i].born + Window THEN "open" ELSE "lapsed"

Original(i) == IF i \in DOMAIN interactions THEN interactions[i].message ELSE 0
Spoken(i) == IF i \in DOMAIN interactions THEN interactions[i].followups ELSE {}
Tired(i) == i \in DOMAIN interactions /\ clock >= interactions[i].born + Life

Promise == INSTANCE Replies WITH
  Question <- InteractionIds,
  state <- [i \in InteractionIds |-> State(i)],
  original <- [i \in InteractionIds |-> Original(i)],
  spoken <- [i \in InteractionIds |-> Spoken(i)],
  tired <- [i \in InteractionIds |-> Tired(i)]

\* Every answer keeps the promise of Replies, with edits, deletions, the
\* clock and the channel's end anywhere in between.
ImplementsReplies == Promise!Spec
=============================================================================
