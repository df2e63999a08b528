-------------------------- MODULE InteractionsProofs --------------------------
(***************************************************************************)
(* Proofs about the messages of a channel and the interactions answered in *)
(* it.  An operation is a chain of changes to one record, the store: what  *)
(* each link does to each of its parts comes first, once, and every proof  *)
(* about a step then speaks of the parts.                                  *)
(***************************************************************************)
EXTENDS Interactions, FiniteSetTheorems, TLAPS

Parts == {"messages", "index", "order", "deadlines", "interactions", "told"}
IsStore(st) == st = [p \in Parts |-> st[p]]

-----------------------------------------------------------------------------
(* The links *)

LEMMA EmptyParts ==
  /\ IsStore(Empty)
  /\ Empty.messages = <<>> /\ Empty.interactions = <<>> /\ Empty.index = EmptyBag
  /\ Empty.order = {} /\ Empty.deadlines = <<>> /\ Empty.told = <<>>
  BY DEF IsStore, Parts, Empty

LEMMA IndexParts ==
  ASSUME NEW st, NEW id, IsStore(st)
  PROVE  LET new == Index(st, id) IN
         /\ IsStore(new)
         /\ new.index = st.index (+) SetToBag(Keys(st.messages[id], id))
         /\ new.messages = st.messages /\ new.interactions = st.interactions
         /\ new.order = st.order /\ new.deadlines = st.deadlines /\ new.told = st.told
  BY DEF IsStore, Parts, Index

LEMMA ScheduleParts ==
  ASSUME NEW st, NEW id, IsStore(st)
  PROVE  LET new == Schedule(st, id) IN
         /\ IsStore(new)
         /\ new.deadlines = IF st.messages[id].poll.closed
                              THEN Without(st.deadlines, {id})
                              ELSE Put(st.deadlines, id, st.messages[id].poll.expiry)
         /\ new.messages = st.messages /\ new.interactions = st.interactions
         /\ new.order = st.order /\ new.index = st.index /\ new.told = st.told
  BY DEF IsStore, Parts, Schedule

LEMMA TellNewParts ==
  ASSUME NEW st, NEW id, IsStore(st)
  PROVE  LET new == TellNew(st, id) IN
         /\ IsStore(new)
         /\ new.told = IF Public(st.messages[id])
                         THEN Put(st.told, id, View(st.messages[id])) ELSE st.told
         /\ new.messages = st.messages /\ new.interactions = st.interactions
         /\ new.order = st.order /\ new.index = st.index /\ new.deadlines = st.deadlines
  BY DEF IsStore, Parts, TellNew

LEMMA TellParts ==
  ASSUME NEW st, NEW id, IsStore(st)
  PROVE  LET new == Tell(st, id) IN
         /\ IsStore(new)
         /\ new.told = IF id \in DOMAIN st.told
                         THEN [st.told EXCEPT ![id] = View(st.messages[id])] ELSE st.told
         /\ new.messages = st.messages /\ new.interactions = st.interactions
         /\ new.order = st.order /\ new.index = st.index /\ new.deadlines = st.deadlines
  BY DEF IsStore, Parts, Tell

-----------------------------------------------------------------------------
(* The operations *)

Commits(st, id, m, new) ==
  /\ IsStore(new)
  /\ new.messages = Put(st.messages, id, m)
  /\ new.order = st.order \cup {id}
  /\ new.index = st.index (+) SetToBag(Keys(m, id))
  /\ new.deadlines = IF m.poll.closed THEN Without(st.deadlines, {id})
                                      ELSE Put(st.deadlines, id, m.poll.expiry)
  /\ new.told = IF Public(m) THEN Put(st.told, id, View(m)) ELSE st.told
  /\ new.interactions = st.interactions

LEMMA CommitParts ==
  ASSUME NEW st, NEW id, NEW m, IsStore(st)
  PROVE  Commits(st, id, m, Commit(st, id, m))
<1> DEFINE installed == [st EXCEPT !.messages = Put(@, id, m), !.order = @ \cup {id}]
           indexed == Index(installed, id)
           planned == Schedule(indexed, id)
<1>1. /\ IsStore(installed) /\ installed.messages = Put(st.messages, id, m)
      /\ installed.order = st.order \cup {id} /\ installed.index = st.index
      /\ installed.deadlines = st.deadlines /\ installed.told = st.told
      /\ installed.interactions = st.interactions
  BY DEF IsStore, Parts
<1>2. installed.messages[id] = m
  BY <1>1 DEF Put
<1>3. Commit(st, id, m) = TellNew(planned, id)
  BY DEF Commit
<1> HIDE DEF installed
<1>4. /\ IsStore(indexed) /\ indexed.index = installed.index (+) SetToBag(Keys(m, id))
      /\ indexed.messages = installed.messages /\ indexed.interactions = installed.interactions
      /\ indexed.order = installed.order /\ indexed.deadlines = installed.deadlines
      /\ indexed.told = installed.told
  BY <1>1, <1>2, IndexParts
<1> HIDE DEF indexed
<1>5. /\ IsStore(planned)
      /\ planned.deadlines = IF m.poll.closed THEN Without(st.deadlines, {id})
                                              ELSE Put(st.deadlines, id, m.poll.expiry)
      /\ planned.messages = indexed.messages /\ planned.interactions = indexed.interactions
      /\ planned.order = indexed.order /\ planned.index = indexed.index
      /\ planned.told = indexed.told
  <2>1. indexed.messages[id] = m
    BY <1>1, <1>2, <1>4
  <2>2. /\ IsStore(planned)
        /\ planned.deadlines = IF indexed.messages[id].poll.closed
                                 THEN Without(indexed.deadlines, {id})
                                 ELSE Put(indexed.deadlines, id, indexed.messages[id].poll.expiry)
        /\ planned.messages = indexed.messages /\ planned.interactions = indexed.interactions
        /\ planned.order = indexed.order /\ planned.index = indexed.index
        /\ planned.told = indexed.told
    BY <1>4, ScheduleParts
  <2> QED BY <2>1, <2>2, <1>1, <1>4
<1> HIDE DEF planned
<1>6. /\ IsStore(TellNew(planned, id))
      /\ TellNew(planned, id).told = IF Public(m) THEN Put(st.told, id, View(m)) ELSE st.told
      /\ TellNew(planned, id).messages = planned.messages
      /\ TellNew(planned, id).interactions = planned.interactions
      /\ TellNew(planned, id).order = planned.order
      /\ TellNew(planned, id).index = planned.index
      /\ TellNew(planned, id).deadlines = planned.deadlines
  BY <1>1, <1>2, <1>4, <1>5, TellNewParts
<1> QED BY <1>1, <1>3, <1>4, <1>5, <1>6 DEF Commits

Edited(m, text, poll) == [m EXCEPT !.text = text, !.poll = poll, !.loading = FALSE]

Edits(st, id, text, poll, new) ==
  /\ IsStore(new)
  /\ new.messages = [st.messages EXCEPT ![id] = Edited(@, text, poll)]
  /\ new.interactions = Completed(st, id)
  /\ new.order = st.order /\ new.index = st.index
  /\ new.deadlines = IF poll.closed THEN Without(st.deadlines, {id})
                                    ELSE Put(st.deadlines, id, poll.expiry)
  /\ new.told = IF Public(st.messages[id]) /\ id \in DOMAIN st.told
                  THEN [st.told EXCEPT ![id] = View(Edited(st.messages[id], text, poll))]
                  ELSE st.told

LEMMA EditParts ==
  ASSUME NEW st, NEW id, NEW text, NEW poll, IsStore(st), id \in DOMAIN st.messages,
         {"text", "poll", "loading"} \subseteq DOMAIN st.messages[id]
  PROVE  Edits(st, id, text, poll, Edit(st, id, text, poll))
<1> DEFINE edited == [st EXCEPT !.messages[id] = [@ EXCEPT !.text = text, !.poll = poll, !.loading = FALSE],
                                !.interactions = Completed(st, id)]
           planned == Schedule(edited, id)
<1>1. /\ IsStore(edited)
      /\ edited.messages = [st.messages EXCEPT ![id] = Edited(@, text, poll)]
      /\ edited.order = st.order /\ edited.index = st.index
      /\ edited.deadlines = st.deadlines /\ edited.told = st.told
      /\ edited.interactions = Completed(st, id)
  BY DEF IsStore, Parts, Edited
<1>2. edited.messages[id] = Edited(st.messages[id], text, poll) /\ edited.messages[id].poll = poll
  BY <1>1 DEF Edited
<1>3. Edit(st, id, text, poll) = IF Public(st.messages[id]) THEN Tell(planned, id) ELSE planned
  BY DEF Edit
<1> HIDE DEF edited
<1>4. /\ IsStore(planned)
      /\ planned.deadlines = IF poll.closed THEN Without(st.deadlines, {id})
                                            ELSE Put(st.deadlines, id, poll.expiry)
      /\ planned.messages = edited.messages /\ planned.interactions = edited.interactions
      /\ planned.order = edited.order /\ planned.index = edited.index
      /\ planned.told = edited.told
  <2>1. edited.messages[id].poll = poll
    BY <1>2
  <2>2. /\ IsStore(planned)
        /\ planned.deadlines = IF edited.messages[id].poll.closed
                                 THEN Without(edited.deadlines, {id})
                                 ELSE Put(edited.deadlines, id, edited.messages[id].poll.expiry)
        /\ planned.messages = edited.messages /\ planned.interactions = edited.interactions
        /\ planned.order = edited.order /\ planned.index = edited.index
        /\ planned.told = edited.told
    BY <1>1, ScheduleParts
  <2> QED BY <2>1, <2>2, <1>1
<1> HIDE DEF planned
<1>5. /\ IsStore(Tell(planned, id))
      /\ Tell(planned, id).told =
           IF id \in DOMAIN st.told
             THEN [st.told EXCEPT ![id] = View(Edited(st.messages[id], text, poll))] ELSE st.told
      /\ Tell(planned, id).messages = planned.messages
      /\ Tell(planned, id).interactions = planned.interactions
      /\ Tell(planned, id).order = planned.order
      /\ Tell(planned, id).index = planned.index
      /\ Tell(planned, id).deadlines = planned.deadlines
  <2>1. planned.messages[id] = Edited(st.messages[id], text, poll) /\ planned.told = st.told
    BY <1>1, <1>2, <1>4
  <2> QED BY SMTT(60), <2>1, <1>4, TellParts
<1> QED BY <1>1, <1>3, <1>4, <1>5 DEF Edits

GoneKeys(ms, ids) == UNION {Keys(ms[id], id) : id \in ids \cap DOMAIN ms}

Erases(st, ids, new) ==
  /\ IsStore(new)
  /\ new.messages = Without(st.messages, ids)
  /\ new.index = st.index (-) SetToBag(GoneKeys(st.messages, ids))
  /\ new.deadlines = Without(st.deadlines, ids)
  /\ new.order = st.order \ ids
  /\ new.told = Without(st.told, ids)
  /\ new.interactions = st.interactions

LEMMA EraseParts ==
  ASSUME NEW st, NEW ids, IsStore(st)
  PROVE  Erases(st, ids, Erase(st, ids))
  BY DEF IsStore, Parts, Erase, Erases, GoneKeys

Drops(st, new) ==
  /\ IsStore(new) /\ new.interactions = st.interactions
  /\ new.messages = <<>> /\ new.index = EmptyBag /\ new.order = {}
  /\ new.deadlines = <<>> /\ new.told = <<>>

LEMMA DropParts ==
  ASSUME NEW st
  PROVE  Drops(st, DropChannel(st))
  BY EmptyParts DEF DropChannel, Empty, IsStore, Parts, Drops

\* A change of one message that its listeners are told of.
Changed(st, id, m) ==
  Tell([st EXCEPT !.messages = [@ EXCEPT ![id] = m]], id)

Changes(st, id, m, new) ==
  /\ IsStore(new)
  /\ new.messages = [st.messages EXCEPT ![id] = m]
  /\ new.told = IF id \in DOMAIN st.told THEN [st.told EXCEPT ![id] = View(m)] ELSE st.told
  /\ new.interactions = st.interactions
  /\ new.order = st.order /\ new.index = st.index /\ new.deadlines = st.deadlines

LEMMA ChangedParts ==
  ASSUME NEW st, NEW id, NEW m, IsStore(st), id \in DOMAIN st.messages
  PROVE  Changes(st, id, m, Changed(st, id, m))
<1> DEFINE changed == [st EXCEPT !.messages = [@ EXCEPT ![id] = m]]
<1>1. /\ IsStore(changed) /\ changed.messages = [st.messages EXCEPT ![id] = m]
      /\ changed.told = st.told /\ changed.interactions = st.interactions
      /\ changed.order = st.order /\ changed.index = st.index /\ changed.deadlines = st.deadlines
  BY DEF IsStore, Parts
<1>2. changed.messages[id] = m
  BY <1>1
<1>3. Changed(st, id, m) = Tell(changed, id)
  BY DEF Changed
<1> HIDE DEF changed
<1>4. /\ IsStore(Tell(changed, id))
      /\ Tell(changed, id).told = IF id \in DOMAIN changed.told
                                    THEN [changed.told EXCEPT ![id] = View(changed.messages[id])]
                                    ELSE changed.told
      /\ Tell(changed, id).messages = changed.messages
      /\ Tell(changed, id).interactions = changed.interactions
      /\ Tell(changed, id).order = changed.order /\ Tell(changed, id).index = changed.index
      /\ Tell(changed, id).deadlines = changed.deadlines
  BY ZenonT(60), <1>1, TellParts
<1> QED BY <1>1, <1>2, <1>3, <1>4 DEF Changes

LEMMA ReactionParts ==
  ASSUME NEW st, NEW id, NEW u, NEW reacted, NEW to, IsStore(st), id \in DOMAIN st.messages,
         to = IF reacted THEN st.messages[id].reactions \cup {u} ELSE st.messages[id].reactions \ {u}
  PROVE  SetReaction(st, id, u, reacted) = Changed(st, id, [st.messages[id] EXCEPT !.reactions = to])
  BY DEF SetReaction, Changed, IsStore, Parts

LEMMA ClearParts ==
  ASSUME NEW st, NEW id, IsStore(st), id \in DOMAIN st.messages
  PROVE  ClearReactions(st, id) = Changed(st, id, [st.messages[id] EXCEPT !.reactions = {}])
  BY DEF ClearReactions, Changed, IsStore, Parts

Voted(m, u, selected) == [m EXCEPT !.poll.votes[u] = selected]

LEMMA VotesParts ==
  ASSUME NEW st, NEW id, NEW u, NEW selected, IsStore(st), id \in DOMAIN st.messages
  PROVE  SetVotes(st, id, u, selected) = Changed(st, id, Voted(st.messages[id], u, selected))
<1> DEFINE m == st.messages[id]
<1>1. [st EXCEPT !.messages[id].poll.votes[u] = selected]
        = [st EXCEPT !.messages = [@ EXCEPT ![id] = Voted(m, u, selected)]]
  BY DEF IsStore, Parts, Voted
<1> HIDE DEF m
<1> QED BY <1>1 DEF SetVotes, Changed, m

Closed(m) == [m EXCEPT !.poll.closed = TRUE]

Finalizes(st, id, new) ==
  /\ IsStore(new)
  /\ new.messages = [st.messages EXCEPT ![id] = Closed(st.messages[id])]
  /\ new.told = IF id \in DOMAIN st.told
                  THEN [st.told EXCEPT ![id] = View(Closed(st.messages[id]))] ELSE st.told
  /\ new.deadlines = Without(st.deadlines, {id})
  /\ new.interactions = st.interactions
  /\ new.order = st.order /\ new.index = st.index

LEMMA FinalizeParts ==
  ASSUME NEW st, NEW id, IsStore(st), id \in DOMAIN st.messages,
         "poll" \in DOMAIN st.messages[id], "closed" \in DOMAIN st.messages[id].poll
  PROVE  Finalizes(st, id, FinalizePoll(st, id))
<1> DEFINE m == Closed(st.messages[id])
           closed == [st EXCEPT !.messages[id].poll.closed = TRUE]
           planned == Schedule(closed, id)
<1>1. /\ IsStore(closed) /\ closed.messages = [st.messages EXCEPT ![id] = m]
      /\ closed.interactions = st.interactions
      /\ closed.order = st.order /\ closed.index = st.index
      /\ closed.deadlines = st.deadlines /\ closed.told = st.told
  BY DEF IsStore, Parts, Closed
<1>2. closed.messages[id] = m /\ m.poll.closed
  BY <1>1 DEF Closed
<1>3. FinalizePoll(st, id) = Tell(planned, id)
  BY DEF FinalizePoll
<1> HIDE DEF m, closed
<1>4. /\ IsStore(planned)
      /\ planned.deadlines = IF closed.messages[id].poll.closed
                               THEN Without(closed.deadlines, {id})
                               ELSE Put(closed.deadlines, id, closed.messages[id].poll.expiry)
      /\ planned.messages = closed.messages /\ planned.interactions = closed.interactions
      /\ planned.order = closed.order /\ planned.index = closed.index
      /\ planned.told = closed.told
  BY <1>1, ScheduleParts
<1> HIDE DEF planned
<1>5. planned.deadlines = Without(st.deadlines, {id}) /\ planned.messages[id] = m
  BY <1>1, <1>2, <1>4
<1>6. /\ IsStore(Tell(planned, id))
      /\ Tell(planned, id).told = IF id \in DOMAIN planned.told
                                    THEN [planned.told EXCEPT ![id] = View(planned.messages[id])]
                                    ELSE planned.told
      /\ Tell(planned, id).messages = planned.messages
      /\ Tell(planned, id).interactions = planned.interactions
      /\ Tell(planned, id).order = planned.order /\ Tell(planned, id).index = planned.index
      /\ Tell(planned, id).deadlines = planned.deadlines
  BY <1>4, TellParts, ZenonT(60)
<1>7. FinalizePoll(st, id) = Tell(planned, id) /\ m = Closed(st.messages[id])
  BY <1>3 DEF planned, m
<1> QED BY <1>1, <1>4, <1>5, <1>6, <1>7 DEF Finalizes

Repinned(m, pinned) == [m EXCEPT !.pinned = pinned]
Notice(actor) == [Message(actor, "plain") EXCEPT !.notice = TRUE]

Moves(st, id, pinned, moved) ==
  /\ IsStore(moved)
  /\ moved.messages = [st.messages EXCEPT ![id] = Repinned(st.messages[id], pinned)]
  /\ moved.index = (st.index (-) SetToBag(Keys(st.messages[id], id)))
                   (+) SetToBag(Keys(Repinned(st.messages[id], pinned), id))
  /\ moved.interactions = st.interactions /\ moved.order = st.order
  /\ moved.deadlines = st.deadlines /\ moved.told = st.told

LEMMA PinnedParts ==
  ASSUME NEW st, NEW id, NEW pinned, NEW actor, NEW next, IsStore(st), id \in DOMAIN st.messages
  PROVE  \E moved :
         /\ Moves(st, id, pinned, moved)
         /\ SetPinned(st, id, pinned, actor, next) =
              IF pinned THEN Commit(moved, next, Notice(actor)) ELSE moved
<1> DEFINE repinned == [st EXCEPT !.messages[id].pinned = pinned]
           removed == [repinned EXCEPT !.index = Unindex(st, id).index]
           moved == Index(removed, id)
<1>1. /\ IsStore(removed) /\ removed.messages = [st.messages EXCEPT ![id] = Repinned(@, pinned)]
      /\ removed.index = Unindex(st, id).index
      /\ removed.interactions = st.interactions /\ removed.order = st.order
      /\ removed.deadlines = st.deadlines /\ removed.told = st.told
  BY DEF IsStore, Parts, Repinned
<1>2. Unindex(st, id).index = st.index (-) SetToBag(Keys(st.messages[id], id))
  BY DEF Unindex, IsStore, Parts
<1>3. removed.messages[id] = Repinned(st.messages[id], pinned)
  BY <1>1
<1>4. SetPinned(st, id, pinned, actor, next) =
        IF pinned THEN Commit(moved, next, Notice(actor)) ELSE moved
  BY DEF SetPinned, Notice
<1> HIDE DEF removed
<1>5. /\ IsStore(moved)
      /\ moved.index = removed.index (+) SetToBag(Keys(removed.messages[id], id))
      /\ moved.messages = removed.messages /\ moved.interactions = removed.interactions
      /\ moved.order = removed.order /\ moved.deadlines = removed.deadlines
      /\ moved.told = removed.told
  BY <1>1, IndexParts
<1> HIDE DEF moved
<1>6. Moves(st, id, pinned, moved)
  BY <1>1, <1>2, <1>3, <1>5 DEF Moves
<1> QED BY <1>4, <1>6

CloseAll(f, due) == [id \in DOMAIN f |-> IF id \in due THEN [f[id] EXCEPT !.poll.closed = TRUE] ELSE f[id]]

Expires(st, now, new) ==
  /\ IsStore(new)
  /\ new.messages = CloseAll(st.messages, Due(st, now))
  /\ new.told = CloseAll(st.told, Due(st, now))
  /\ new.deadlines = Without(st.deadlines, Due(st, now))
  /\ new.interactions = st.interactions /\ new.order = st.order /\ new.index = st.index

LEMMA ExpireParts ==
  ASSUME NEW st, NEW now, IsStore(st)
  PROVE  Expires(st, now, ExpireDuePolls(st, now))
<1> HIDE DEF Due
<1> QED BY DEF ExpireDuePolls, CloseAll, IsStore, Parts, Expires

-----------------------------------------------------------------------------
(* What holds of a store at every moment: its records have their types, the *)
(* index, the orders and the deadlines follow the messages, listeners have  *)
(* what is public, and no poll is open past its time.                       *)

Poll == [expiry : Nat, closed : BOOLEAN, multi : BOOLEAN, votes : [Users -> SUBSET Answers]]

MessageRecord ==
  [author : People \cup {Hook}, text : Texts, owner : Users \cup {Everyone}, from : Nat, of : Nat,
   loading : BOOLEAN, notice : BOOLEAN, pinned : BOOLEAN, poll : Poll, reactions : SUBSET People]

PollRight(poll, now) ==
  /\ ~poll.closed => now < poll.expiry
  /\ ~poll.multi => \A u \in Users : \A a, b \in poll.votes[u] : a = b

MessageRight(m, now) == m \in MessageRecord /\ PollRight(m.poll, now)

AllKeys(ms) == UNION {Keys(ms[id], id) : id \in DOMAIN ms}
OpenPolls(ms) == {id \in DOMAIN ms : ~ms[id].poll.closed}
Shown(ms) == {id \in DOMAIN ms : Public(ms[id])}

ChannelRight(st, n, now) ==
  /\ IsStore(st)
  /\ st.messages = [id \in DOMAIN st.messages |-> st.messages[id]]
  /\ DOMAIN st.messages \subseteq 1..n
  /\ \A id \in DOMAIN st.messages : MessageRight(st.messages[id], now)
  /\ st.order = DOMAIN st.messages
  /\ st.index = SetToBag(AllKeys(st.messages))
  /\ st.deadlines = [id \in OpenPolls(st.messages) |-> st.messages[id].poll.expiry]
  /\ st.told = [id \in Shown(st.messages) |-> View(st.messages[id])]

\* And of the interactions: who "thinks" is who is being answered.
InteractionRecord ==
  [type : {"command", "autocomplete", "component", "modal"}, user : Users, source : Nat, born : Nat,
   kind : {"none", "message", "deferred", "deferred_update", "update", "modal", "autocomplete"},
   message : Nat, private : BOOLEAN, followups : SUBSET Nat, consumed : BOOLEAN]

HasOriginal(r) == r.kind \in {"message", "deferred"}

OwnedRight(ms, is, n) ==
  /\ \E k \in 0..MaxInteractions : DOMAIN is = 1..k
  /\ \A i \in DOMAIN is : is[i] \in InteractionRecord /\ is[i].message \in 0..n /\ is[i].source \in 0..n
  /\ \A id \in DOMAIN ms : ms[id].loading =>
       /\ ms[id].from \in DOMAIN is
       /\ is[ms[id].from].kind = "deferred" /\ is[ms[id].from].message = id
  /\ \A i \in DOMAIN is : is[i].message \in DOMAIN ms /\ HasOriginal(is[i]) =>
       LET m == ms[is[i].message] IN
       /\ m.from = i
       /\ m.loading = (is[i].kind = "deferred")
       /\ m.owner = IF is[i].private THEN is[i].user ELSE Everyone

IInv ==
  /\ issued \in Nat /\ clock \in Nat /\ there \in BOOLEAN
  /\ ChannelRight(store, issued, clock)
  /\ OwnedRight(messages, interactions, issued)

-----------------------------------------------------------------------------
(* The index is a bag without repetitions *)

LEMMA BagAdds ==
  ASSUME NEW A, NEW B, A \cap B = {}
  PROVE  SetToBag(A) (+) SetToBag(B) = SetToBag(A \cup B)
  BY DEF SetToBag, (+)

LEMMA BagTakes ==
  ASSUME NEW A, NEW B, B \subseteq A
  PROVE  SetToBag(A) (-) SetToBag(B) = SetToBag(A \ B)
  BY DEF SetToBag, (-)

LEMMA KeyOf ==
  ASSUME NEW m, NEW id, NEW k \in Keys(m, id)
  PROVE  k[3] = id
<1>1. PICK p \in {FALSE} \cup {m.pinned} : k = <<m.owner, p, id>>
  BY DEF Keys
<1> QED BY <1>1

LEMMA KeysPut ==
  ASSUME NEW ms, NEW id, NEW m, id \notin DOMAIN ms
  PROVE  /\ AllKeys(ms) \cap Keys(m, id) = {}
         /\ AllKeys(Put(ms, id, m)) = AllKeys(ms) \cup Keys(m, id)
<1>1. AllKeys(ms) \cap Keys(m, id) = {}
  BY KeyOf DEF AllKeys
<1>2. Put(ms, id, m)[id] = m /\ DOMAIN Put(ms, id, m) = DOMAIN ms \cup {id}
      /\ \A x \in DOMAIN ms : Put(ms, id, m)[x] = ms[x]
  BY DEF Put
<1>3. AllKeys(Put(ms, id, m)) = AllKeys(ms) \cup Keys(m, id)
  BY <1>2 DEF AllKeys
<1> QED BY <1>1, <1>3

LEMMA KeysWithout ==
  ASSUME NEW ms, NEW ids
  PROVE  /\ GoneKeys(ms, ids) \subseteq AllKeys(ms)
         /\ AllKeys(Without(ms, ids)) = AllKeys(ms) \ GoneKeys(ms, ids)
<1> DEFINE gone == GoneKeys(ms, ids)
<1>1. gone \subseteq AllKeys(ms)
  BY DEF AllKeys, GoneKeys
<1>2. AllKeys(Without(ms, ids)) = UNION {Keys(ms[id], id) : id \in DOMAIN ms \ ids}
  BY DEF AllKeys, Without
<1>3. ASSUME NEW a \in DOMAIN ms \ ids, NEW k \in Keys(ms[a], a)
      PROVE  k \in AllKeys(ms) \ gone
  <2>1. k[3] = a /\ a \notin ids
    BY <1>3, KeyOf
  <2>2. \A b \in ids \cap DOMAIN ms : k \notin Keys(ms[b], b)
    BY <2>1, KeyOf
  <2> QED BY <2>2, <1>3 DEF AllKeys, GoneKeys
<1>4. \A k \in AllKeys(ms) \ gone : \E a \in DOMAIN ms \ ids : k \in Keys(ms[a], a)
  BY DEF AllKeys, GoneKeys
<1> HIDE DEF gone
<1>5. AllKeys(Without(ms, ids)) = AllKeys(ms) \ gone
  BY <1>2, <1>3, <1>4
<1> QED BY <1>1, <1>5 DEF gone

LEMMA KeysSame ==
  ASSUME NEW ms, NEW new, DOMAIN new = DOMAIN ms,
         \A id \in DOMAIN ms : new[id].owner = ms[id].owner /\ new[id].pinned = ms[id].pinned
  PROVE  AllKeys(new) = AllKeys(ms)
<1>1. \A id \in DOMAIN ms : Keys(new[id], id) = Keys(ms[id], id)
  BY DEF Keys
<1> QED BY <1>1 DEF AllKeys

LEMMA KeysMoved ==
  ASSUME NEW ms, NEW id \in DOMAIN ms, NEW m
  PROVE  /\ Keys(ms[id], id) \subseteq AllKeys(ms)
         /\ (AllKeys(ms) \ Keys(ms[id], id)) \cap Keys(m, id) = {}
         /\ AllKeys([ms EXCEPT ![id] = m]) = (AllKeys(ms) \ Keys(ms[id], id)) \cup Keys(m, id)
<1> DEFINE new == [ms EXCEPT ![id] = m]
<1>1. Keys(ms[id], id) \subseteq AllKeys(ms)
  BY DEF AllKeys
<1>2. \A x \in DOMAIN ms : \A k \in Keys(ms[x], x) : x # id => k \notin Keys(ms[id], id) \cup Keys(m, id)
  BY KeyOf
<1>3. (AllKeys(ms) \ Keys(ms[id], id)) \cap Keys(m, id) = {}
  BY <1>2 DEF AllKeys
<1>4. DOMAIN new = DOMAIN ms /\ new[id] = m /\ \A x \in DOMAIN ms : x # id => new[x] = ms[x]
  OBVIOUS
<1> HIDE DEF new
<1>5. ASSUME NEW k \in AllKeys(new) PROVE k \in (AllKeys(ms) \ Keys(ms[id], id)) \cup Keys(m, id)
  <2>1. PICK x \in DOMAIN ms : k \in Keys(new[x], x)
    BY <1>4 DEF AllKeys
  <2>2. CASE x = id
    BY <2>1, <2>2, <1>4
  <2>3. CASE x # id
    <3>1. k \in Keys(ms[x], x)
      BY <2>1, <2>3, <1>4
    <3> QED BY <3>1, <2>3, <1>2 DEF AllKeys
  <2> QED BY <2>2, <2>3
<1>6. ASSUME NEW k \in AllKeys(ms), k \notin Keys(ms[id], id) PROVE k \in AllKeys(new)
  <2>1. PICK x \in DOMAIN ms : k \in Keys(ms[x], x)
    BY DEF AllKeys
  <2>2. x # id /\ new[x] = ms[x]
    BY <2>1, <1>4, <1>6
  <2> QED BY <2>1, <2>2, <1>4 DEF AllKeys
<1>7. Keys(m, id) \subseteq AllKeys(new)
  BY <1>4 DEF AllKeys
<1>8. AllKeys(new) = (AllKeys(ms) \ Keys(ms[id], id)) \cup Keys(m, id)
  BY <1>5, <1>6, <1>7
<1> QED BY <1>1, <1>3, <1>8 DEF new

-----------------------------------------------------------------------------
(* Each operation keeps a channel right *)

Deadlines(ms) == [id \in OpenPolls(ms) |-> ms[id].poll.expiry]
Told(ms) == [id \in Shown(ms) |-> View(ms[id])]

LEMMA RightTypes ==
  /\ NoPoll \in Poll
  /\ \A now \in Nat, multi \in BOOLEAN : OpenPoll(now, multi) \in Poll
  /\ \A author \in People \cup {Hook}, text \in Texts : Message(author, text) \in MessageRecord
<1>1. NoPoll \in Poll
  BY DEF NoPoll, Poll
<1>2. \A now \in Nat, multi \in BOOLEAN : OpenPoll(now, multi) \in Poll
  BY DEF OpenPoll, Poll
<1>3. \A author \in People \cup {Hook}, text \in Texts : Message(author, text) \in MessageRecord
  BY <1>1 DEF Message, MessageRecord
<1> QED BY <1>1, <1>2, <1>3

LEMMA EmptyRight ==
  ASSUME NEW st, NEW n \in Nat, NEW now, IsStore(st),
         st.messages = <<>>, st.order = {}, st.index = EmptyBag, st.deadlines = <<>>, st.told = <<>>
  PROVE  ChannelRight(st, n, now)
<1>1. DOMAIN st.messages = {} /\ st.messages = [id \in DOMAIN st.messages |-> st.messages[id]]
  OBVIOUS
<1>2. AllKeys(st.messages) = {} /\ OpenPolls(st.messages) = {} /\ Shown(st.messages) = {}
  BY <1>1 DEF AllKeys, OpenPolls, Shown
<1>3. st.index = SetToBag(AllKeys(st.messages))
  BY <1>2 DEF EmptyBag, SetToBag
<1>4. st.deadlines = Deadlines(st.messages) /\ st.told = Told(st.messages)
  BY <1>2 DEF Deadlines, Told
<1> QED BY <1>1, <1>3, <1>4 DEF ChannelRight, Deadlines, Told

LEMMA SameRight ==
  ASSUME NEW st, NEW new, NEW n, NEW now, ChannelRight(st, n, now), IsStore(new),
         new.messages = st.messages, new.order = st.order, new.index = st.index,
         new.deadlines = st.deadlines, new.told = st.told
  PROVE  ChannelRight(new, n, now)
  BY DEF ChannelRight

LEMMA CommitRight ==
  ASSUME NEW st, NEW n \in Nat, NEW now, NEW m, ChannelRight(st, n, now), MessageRight(m, now)
  PROVE  ChannelRight(Commit(st, n + 1, m), n + 1, now)
<1> DEFINE id == n + 1
           after == Commit(st, id, m)
           ms == st.messages
<1>1. IsStore(st) /\ id \notin DOMAIN ms /\ id \in 1..id /\ DOMAIN ms \subseteq 1..id
  BY DEF ChannelRight
<1> HIDE DEF id
<1>2. /\ IsStore(after) /\ after.messages = Put(ms, id, m) /\ after.order = st.order \cup {id}
      /\ after.index = st.index (+) SetToBag(Keys(m, id))
      /\ after.deadlines = IF m.poll.closed THEN Without(st.deadlines, {id})
                                          ELSE Put(st.deadlines, id, m.poll.expiry)
      /\ after.told = IF Public(m) THEN Put(st.told, id, View(m)) ELSE st.told
  <2>1. Commits(st, id, m, after)
    BY <1>1, CommitParts
  <2> QED BY <2>1 DEF Commits
<1> HIDE DEF after
<1>3. /\ DOMAIN after.messages = DOMAIN ms \cup {id}
      /\ after.messages[id] = m
      /\ \A x \in DOMAIN ms : after.messages[x] = ms[x]
      /\ after.messages = [x \in DOMAIN after.messages |-> after.messages[x]]
  BY <1>2, <1>1 DEF Put
<1>4. \A x \in DOMAIN after.messages : MessageRight(after.messages[x], now)
  BY <1>3 DEF ChannelRight
<1>5. after.index = SetToBag(AllKeys(after.messages))
  BY <1>1, <1>2, KeysPut, BagAdds DEF ChannelRight
<1>6. after.deadlines = Deadlines(after.messages)
  <2>1. st.deadlines = Deadlines(ms) /\ id \notin DOMAIN st.deadlines
    BY <1>1 DEF ChannelRight, Deadlines, OpenPolls
  <2>2. OpenPolls(after.messages) = OpenPolls(ms) \cup (IF m.poll.closed THEN {} ELSE {id})
    BY <1>1, <1>3 DEF OpenPolls
  <2>3. \A x \in OpenPolls(ms) : after.messages[x] = ms[x]
    BY <1>3 DEF OpenPolls
  <2>4. DOMAIN st.deadlines = OpenPolls(ms) /\ \A x \in OpenPolls(ms) : st.deadlines[x] = ms[x].poll.expiry
    BY <2>1 DEF Deadlines
  <2>5. CASE m.poll.closed
    BY <1>2, <1>3, <2>1, <2>2, <2>3, <2>4, <2>5 DEF Deadlines, Without
  <2>6. CASE ~m.poll.closed
    <3>1. Deadlines(after.messages) = [x \in OpenPolls(ms) \cup {id} |-> after.messages[x].poll.expiry]
      BY <2>2, <2>6 DEF Deadlines
    <3>2. after.deadlines = [x \in OpenPolls(ms) \cup {id} |->
                             IF x = id THEN m.poll.expiry ELSE st.deadlines[x]]
      BY <1>2, <2>4, <2>6 DEF Put
    <3> QED BY <3>1, <3>2, <1>3, <2>3, <2>4
  <2> QED BY <2>5, <2>6
<1>7. after.told = Told(after.messages)
  <2>1. st.told = Told(ms) /\ id \notin DOMAIN st.told
    BY <1>1 DEF ChannelRight, Told, Shown
  <2>2. Shown(after.messages) = Shown(ms) \cup (IF Public(m) THEN {id} ELSE {})
    BY <1>1, <1>3 DEF Shown
  <2>3. \A x \in Shown(ms) : after.messages[x] = ms[x]
    BY <1>3 DEF Shown
  <2>4. DOMAIN st.told = Shown(ms) /\ \A x \in Shown(ms) : st.told[x] = View(ms[x])
    BY <2>1 DEF Told
  <2>5. CASE Public(m)
    <3>1. after.told = [x \in Shown(ms) \cup {id} |-> IF x = id THEN View(m) ELSE st.told[x]]
      BY <1>2, <2>4, <2>5 DEF Put
    <3>2. Told(after.messages) = [x \in Shown(ms) \cup {id} |-> View(after.messages[x])]
      BY <2>2, <2>5 DEF Told
    <3>3. \A x \in Shown(ms) \cup {id} :
            View(after.messages[x]) = IF x = id THEN View(m) ELSE st.told[x]
      BY <1>3, <2>3, <2>4
    <3> QED BY <3>1, <3>2, <3>3
  <2>6. CASE ~Public(m)
    <3>1. after.told = st.told /\ Shown(after.messages) = Shown(ms)
      BY <1>2, <2>2, <2>6
    <3>2. Told(after.messages) = [x \in Shown(ms) |-> View(after.messages[x])]
      BY <3>1 DEF Told
    <3>3. st.told = [x \in Shown(ms) |-> View(ms[x])]
      BY <2>1 DEF Told
    <3> QED BY <3>1, <3>2, <3>3, <2>3
  <2> QED BY <2>5, <2>6
<1>8. ChannelRight(after, id, now)
  BY <1>1, <1>2, <1>3, <1>4, <1>5, <1>6, <1>7 DEF ChannelRight, Deadlines, Told
<1> QED BY <1>8 DEF after, id

\* What follows when one message becomes another for the same viewers.
LEMMA OneFollows ==
  ASSUME NEW ms, NEW id \in DOMAIN ms, NEW m, m.owner = ms[id].owner
  PROVE  LET to == [ms EXCEPT ![id] = m] IN
         /\ Told(to) = IF id \in DOMAIN Told(ms) THEN [Told(ms) EXCEPT ![id] = View(m)] ELSE Told(ms)
         /\ View(m) = View(ms[id]) => Told(to) = Told(ms)
         /\ id \in DOMAIN Told(ms) <=> Public(ms[id])
<1> DEFINE to == [ms EXCEPT ![id] = m]
<1>1. DOMAIN to = DOMAIN ms /\ to[id] = m /\ \A x \in DOMAIN ms : x # id => to[x] = ms[x]
  OBVIOUS
<1> HIDE DEF to
<1>2. Shown(to) = Shown(ms)
  BY <1>1 DEF Shown, Public
<1>3. DOMAIN Told(ms) = Shown(ms) /\ \A x \in Shown(ms) : Told(ms)[x] = View(ms[x])
  BY DEF Told
<1>4. Told(to) = [x \in Shown(ms) |-> IF x = id THEN View(m) ELSE View(ms[x])]
  BY <1>1, <1>2 DEF Told, Shown
<1>5. Told(to) = IF id \in DOMAIN Told(ms) THEN [Told(ms) EXCEPT ![id] = View(m)] ELSE Told(ms)
  <2>1. CASE id \in Shown(ms)
    <3>1. [Told(ms) EXCEPT ![id] = View(m)] = [x \in Shown(ms) |-> IF x = id THEN View(m) ELSE View(ms[x])]
      BY <1>3
    <3> QED BY <3>1, <1>3, <1>4, <2>1
  <2>2. CASE id \notin Shown(ms)
    BY <1>3, <1>4, <2>2 DEF Told
  <2> QED BY <2>1, <2>2
<1>6. View(m) = View(ms[id]) => Told(to) = Told(ms)
  BY <1>4 DEF Told
<1>7. id \in DOMAIN Told(ms) <=> Public(ms[id])
  BY <1>3 DEF Shown
<1> QED BY <1>5, <1>6, <1>7 DEF to

LEMMA DeadlineFollows ==
  ASSUME NEW ms, NEW id \in DOMAIN ms, NEW m
  PROVE  LET to == [ms EXCEPT ![id] = m] IN
         /\ m.poll.closed => Deadlines(to) = Without(Deadlines(ms), {id})
         /\ ~m.poll.closed => Deadlines(to) = Put(Deadlines(ms), id, m.poll.expiry)
         /\ m.poll.closed = ms[id].poll.closed /\ m.poll.expiry = ms[id].poll.expiry
              => Deadlines(to) = Deadlines(ms)
<1> DEFINE to == [ms EXCEPT ![id] = m]
<1>1. DOMAIN to = DOMAIN ms /\ to[id] = m /\ \A x \in DOMAIN ms : x # id => to[x] = ms[x]
  OBVIOUS
<1> HIDE DEF to
<1>2. DOMAIN Deadlines(ms) = OpenPolls(ms) /\ \A x \in OpenPolls(ms) : Deadlines(ms)[x] = ms[x].poll.expiry
  BY DEF Deadlines
<1>3. ASSUME m.poll.closed PROVE Deadlines(to) = Without(Deadlines(ms), {id})
  <2>1. OpenPolls(to) = OpenPolls(ms) \ {id}
    BY <1>1, <1>3 DEF OpenPolls
  <2> QED BY <1>1, <1>2, <2>1 DEF Deadlines, Without, OpenPolls
<1>4. ASSUME ~m.poll.closed PROVE Deadlines(to) = Put(Deadlines(ms), id, m.poll.expiry)
  <2>1. OpenPolls(to) = OpenPolls(ms) \cup {id}
    BY <1>1, <1>4 DEF OpenPolls
  <2>2. Put(Deadlines(ms), id, m.poll.expiry)
          = [x \in OpenPolls(to) |-> IF x = id THEN m.poll.expiry ELSE Deadlines(ms)[x]]
    BY <1>2, <2>1 DEF Put
  <2>3. \A x \in OpenPolls(to) : x # id => Deadlines(ms)[x] = to[x].poll.expiry
    BY <1>1, <1>2, <2>1 DEF OpenPolls
  <2> QED BY <1>1, <2>2, <2>3 DEF Deadlines
<1>5. ASSUME m.poll.closed = ms[id].poll.closed, m.poll.expiry = ms[id].poll.expiry
      PROVE  Deadlines(to) = Deadlines(ms)
  <2>1. OpenPolls(to) = OpenPolls(ms) /\ \A x \in DOMAIN ms : to[x].poll.expiry = ms[x].poll.expiry
    BY <1>1, <1>5 DEF OpenPolls
  <2> QED BY <2>1 DEF Deadlines, OpenPolls
<1> QED BY <1>3, <1>4, <1>5 DEF to

LEMMA ReplaceRight ==
  ASSUME NEW st, NEW n, NEW now, NEW new, NEW id \in DOMAIN st.messages, NEW m,
         ChannelRight(st, n, now), MessageRight(m, now), IsStore(new),
         new.messages = [st.messages EXCEPT ![id] = m], new.order = st.order,
         new.index = SetToBag(AllKeys(new.messages)),
         new.deadlines = Deadlines(new.messages), new.told = Told(new.messages)
  PROVE  ChannelRight(new, n, now)
<1>1. /\ DOMAIN new.messages = DOMAIN st.messages /\ new.messages[id] = m
      /\ \A x \in DOMAIN st.messages : x # id => new.messages[x] = st.messages[x]
      /\ new.messages = [x \in DOMAIN new.messages |-> new.messages[x]]
  OBVIOUS
<1> QED BY <1>1 DEF ChannelRight, Deadlines, Told

LEMMA EditRight ==
  ASSUME NEW st, NEW n, NEW now, NEW id \in DOMAIN st.messages, NEW text \in Texts,
         NEW poll \in Poll, ChannelRight(st, n, now), PollRight(poll, now)
  PROVE  /\ ChannelRight(Edit(st, id, text, poll), n, now)
         /\ Edits(st, id, text, poll, Edit(st, id, text, poll))
<1> DEFINE after == Edit(st, id, text, poll)
           old == st.messages[id]
           m == Edited(old, text, poll)
<1>1. IsStore(st) /\ MessageRight(old, now)
  BY DEF ChannelRight
<1>2. {"text", "poll", "loading"} \subseteq DOMAIN old
  BY <1>1 DEF MessageRight, MessageRecord
<1>3. Edits(st, id, text, poll, after)
  BY <1>1, <1>2, EditParts
<1> HIDE DEF after
<1>4. m \in MessageRecord /\ m.poll = poll /\ m.owner = old.owner /\ m.pinned = old.pinned
  BY <1>1 DEF MessageRight, MessageRecord, Edited
<1>5. MessageRight(m, now)
  BY <1>4 DEF MessageRight
<1>6. /\ IsStore(after) /\ after.messages = [st.messages EXCEPT ![id] = m]
      /\ after.order = st.order /\ after.index = st.index
      /\ after.deadlines = IF poll.closed THEN Without(st.deadlines, {id})
                                          ELSE Put(st.deadlines, id, poll.expiry)
      /\ after.told = IF Public(old) /\ id \in DOMAIN st.told
                        THEN [st.told EXCEPT ![id] = View(m)] ELSE st.told
  BY <1>3 DEF Edits
<1>7. st.index = SetToBag(AllKeys(st.messages)) /\ st.deadlines = Deadlines(st.messages)
      /\ st.told = Told(st.messages)
  BY DEF ChannelRight, Deadlines, Told
<1> HIDE DEF m
<1>8. after.index = SetToBag(AllKeys(after.messages))
  <2>1. AllKeys(after.messages) = AllKeys(st.messages)
    <3>1. /\ DOMAIN after.messages = DOMAIN st.messages
          /\ \A x \in DOMAIN st.messages : /\ after.messages[x].owner = st.messages[x].owner
                                           /\ after.messages[x].pinned = st.messages[x].pinned
      BY <1>4, <1>6
    <3> QED BY <3>1, KeysSame
  <2> QED BY <2>1, <1>6, <1>7
<1>9. after.deadlines = Deadlines(after.messages)
  <2>1. poll.closed => Deadlines([st.messages EXCEPT ![id] = m]) = Without(Deadlines(st.messages), {id})
    BY <1>4, DeadlineFollows, ZenonT(30)
  <2>2. ~poll.closed => Deadlines([st.messages EXCEPT ![id] = m]) = Put(Deadlines(st.messages), id, poll.expiry)
    BY <1>4, DeadlineFollows, ZenonT(30)
  <2> QED BY <2>1, <2>2, <1>6, <1>7
<1>10. after.told = Told(after.messages)
  <2>1. /\ Told([st.messages EXCEPT ![id] = m])
             = IF id \in DOMAIN Told(st.messages)
                 THEN [Told(st.messages) EXCEPT ![id] = View(m)] ELSE Told(st.messages)
        /\ id \in DOMAIN Told(st.messages) <=> Public(old)
    BY <1>4, OneFollows
  <2> QED BY <2>1, <1>6, <1>7
<1>11. ChannelRight(after, n, now)
  BY <1>5, <1>6, <1>8, <1>9, <1>10, ReplaceRight
<1> QED BY <1>3, <1>11 DEF after

LEMMA ChangedRight ==
  ASSUME NEW st, NEW n, NEW now, NEW id \in DOMAIN st.messages, NEW m,
         ChannelRight(st, n, now), MessageRight(m, now),
         m.owner = st.messages[id].owner, m.pinned = st.messages[id].pinned,
         m.poll.closed = st.messages[id].poll.closed, m.poll.expiry = st.messages[id].poll.expiry
  PROVE  /\ ChannelRight(Changed(st, id, m), n, now)
         /\ Changes(st, id, m, Changed(st, id, m))
<1> DEFINE after == Changed(st, id, m)
<1>1. IsStore(st)
  BY DEF ChannelRight
<1>2. Changes(st, id, m, after)
  BY <1>1, ChangedParts
<1> HIDE DEF after
<1>3. /\ IsStore(after) /\ after.messages = [st.messages EXCEPT ![id] = m]
      /\ after.order = st.order /\ after.index = st.index /\ after.deadlines = st.deadlines
      /\ after.told = IF id \in DOMAIN st.told THEN [st.told EXCEPT ![id] = View(m)] ELSE st.told
  BY <1>2 DEF Changes
<1>4. st.index = SetToBag(AllKeys(st.messages)) /\ st.deadlines = Deadlines(st.messages)
      /\ st.told = Told(st.messages)
  BY DEF ChannelRight, Deadlines, Told
<1>5. after.index = SetToBag(AllKeys(after.messages))
  <2>1. AllKeys(after.messages) = AllKeys(st.messages)
    <3>1. /\ DOMAIN after.messages = DOMAIN st.messages
          /\ \A x \in DOMAIN st.messages : /\ after.messages[x].owner = st.messages[x].owner
                                           /\ after.messages[x].pinned = st.messages[x].pinned
      BY <1>3
    <3> QED BY <3>1, KeysSame
  <2> QED BY <2>1, <1>3, <1>4
<1>6. after.deadlines = Deadlines(after.messages)
  <2>1. Deadlines([st.messages EXCEPT ![id] = m]) = Deadlines(st.messages)
    BY DeadlineFollows
  <2> QED BY <2>1, <1>3, <1>4
<1>7. after.told = Told(after.messages)
  <2>1. Told([st.messages EXCEPT ![id] = m])
           = IF id \in DOMAIN Told(st.messages)
               THEN [Told(st.messages) EXCEPT ![id] = View(m)] ELSE Told(st.messages)
    BY OneFollows
  <2> QED BY <2>1, <1>3, <1>4
<1>8. ChannelRight(after, n, now)
  BY <1>3, <1>5, <1>6, <1>7, ReplaceRight
<1> QED BY <1>2, <1>8 DEF after

LEMMA FinalizeRight ==
  ASSUME NEW st, NEW n, NEW now, NEW id \in DOMAIN st.messages, ChannelRight(st, n, now)
  PROVE  /\ ChannelRight(FinalizePoll(st, id), n, now)
         /\ Finalizes(st, id, FinalizePoll(st, id))
<1> DEFINE after == FinalizePoll(st, id)
           old == st.messages[id]
           m == Closed(old)
<1>1. IsStore(st) /\ MessageRight(old, now)
  BY DEF ChannelRight
<1>2. "poll" \in DOMAIN old /\ "closed" \in DOMAIN old.poll
  BY <1>1 DEF MessageRight, MessageRecord, Poll
<1>3. Finalizes(st, id, after)
  BY <1>1, <1>2, FinalizeParts
<1> HIDE DEF after
<1>4. old.poll \in Poll /\ m = [old EXCEPT !.poll = [old.poll EXCEPT !.closed = TRUE]]
  BY <1>1 DEF MessageRight, MessageRecord, Closed
<1>5. [old.poll EXCEPT !.closed = TRUE] \in Poll
  BY <1>4 DEF Poll
<1>6. m \in MessageRecord /\ m.owner = old.owner /\ m.pinned = old.pinned
      /\ m.poll = [old.poll EXCEPT !.closed = TRUE]
  BY <1>1, <1>4, <1>5 DEF MessageRight, MessageRecord
<1>7. m.poll.closed /\ m.poll.multi = old.poll.multi /\ m.poll.votes = old.poll.votes
  BY <1>4, <1>6 DEF Poll
<1>8. MessageRight(m, now)
  <2>1. PollRight(old.poll, now)
    BY <1>1 DEF MessageRight
  <2>2. PollRight(m.poll, now)
    BY <1>7, <2>1 DEF PollRight
  <2> QED BY <1>6, <2>2 DEF MessageRight
<1>9. /\ IsStore(after) /\ after.messages = [st.messages EXCEPT ![id] = m]
      /\ after.order = st.order /\ after.index = st.index
      /\ after.deadlines = Without(st.deadlines, {id})
      /\ after.told = IF id \in DOMAIN st.told THEN [st.told EXCEPT ![id] = View(m)] ELSE st.told
  BY <1>3 DEF Finalizes
<1>10. st.index = SetToBag(AllKeys(st.messages)) /\ st.deadlines = Deadlines(st.messages)
      /\ st.told = Told(st.messages)
  BY DEF ChannelRight, Deadlines, Told
<1> HIDE DEF m
<1>11. after.index = SetToBag(AllKeys(after.messages))
  <2>1. AllKeys(after.messages) = AllKeys(st.messages)
    <3>1. /\ DOMAIN after.messages = DOMAIN st.messages
          /\ \A x \in DOMAIN st.messages : /\ after.messages[x].owner = st.messages[x].owner
                                           /\ after.messages[x].pinned = st.messages[x].pinned
      BY <1>6, <1>9
    <3> QED BY <3>1, KeysSame
  <2> QED BY <2>1, <1>9, <1>10
<1>12. after.deadlines = Deadlines(after.messages)
  <2>1. Deadlines([st.messages EXCEPT ![id] = m]) = Without(Deadlines(st.messages), {id})
    BY <1>7, DeadlineFollows
  <2> QED BY <2>1, <1>9, <1>10
<1>13. after.told = Told(after.messages)
  <2>1. Told([st.messages EXCEPT ![id] = m])
           = IF id \in DOMAIN Told(st.messages)
               THEN [Told(st.messages) EXCEPT ![id] = View(m)] ELSE Told(st.messages)
    BY <1>6, OneFollows
  <2> QED BY <2>1, <1>9, <1>10
<1>14. ChannelRight(after, n, now)
  BY <1>8, <1>9, <1>11, <1>12, <1>13, ReplaceRight
<1> QED BY <1>3, <1>14 DEF after

LEMMA EraseRight ==
  ASSUME NEW st, NEW n, NEW now, NEW ids, ChannelRight(st, n, now)
  PROVE  /\ ChannelRight(Erase(st, ids), n, now)
         /\ Erases(st, ids, Erase(st, ids))
<1> DEFINE after == Erase(st, ids)
           ms == st.messages
<1>1. Erases(st, ids, after)
  BY EraseParts DEF ChannelRight
<1> HIDE DEF after
<1>2. /\ IsStore(after) /\ after.messages = Without(ms, ids) /\ after.order = st.order \ ids
      /\ after.index = st.index (-) SetToBag(GoneKeys(ms, ids))
      /\ after.deadlines = Without(st.deadlines, ids) /\ after.told = Without(st.told, ids)
  BY <1>1 DEF Erases
<1>3. /\ DOMAIN after.messages = DOMAIN ms \ ids
      /\ \A x \in DOMAIN ms \ ids : after.messages[x] = ms[x]
      /\ after.messages = [x \in DOMAIN after.messages |-> after.messages[x]]
  BY <1>2 DEF Without
<1>4. after.index = SetToBag(AllKeys(after.messages))
  BY <1>2, KeysWithout, BagTakes DEF ChannelRight
<1>5. after.deadlines = Deadlines(after.messages)
  <2>1. OpenPolls(after.messages) = OpenPolls(ms) \ ids
    BY <1>3 DEF OpenPolls
  <2>2. DOMAIN st.deadlines = OpenPolls(ms) /\ \A x \in OpenPolls(ms) : st.deadlines[x] = ms[x].poll.expiry
    BY DEF ChannelRight
  <2>3. after.deadlines = [x \in OpenPolls(ms) \ ids |-> st.deadlines[x]]
    BY <1>2, <2>2 DEF Without
  <2>4. Deadlines(after.messages) = [x \in OpenPolls(ms) \ ids |-> after.messages[x].poll.expiry]
    BY <2>1 DEF Deadlines
  <2>5. \A x \in OpenPolls(ms) \ ids : after.messages[x] = ms[x]
    BY <1>3 DEF OpenPolls
  <2> QED BY <2>2, <2>3, <2>4, <2>5
<1>6. after.told = Told(after.messages)
  <2>1. Shown(after.messages) = Shown(ms) \ ids
    BY <1>3 DEF Shown
  <2>2. DOMAIN st.told = Shown(ms) /\ \A x \in Shown(ms) : st.told[x] = View(ms[x])
    BY DEF ChannelRight
  <2> QED BY <1>2, <1>3, <2>1, <2>2 DEF Told, Without, Shown
<1>7. ChannelRight(after, n, now)
  BY <1>2, <1>3, <1>4, <1>5, <1>6 DEF ChannelRight, Deadlines, Told
<1> QED BY <1>1, <1>7 DEF after

LEMMA DropRight ==
  ASSUME NEW st, NEW n \in Nat, NEW now
  PROVE  ChannelRight(DropChannel(st), n, now) /\ Drops(st, DropChannel(st))
<1>1. Drops(st, DropChannel(st))
  BY DropParts
<1>2. ChannelRight(DropChannel(st), n, now)
  BY <1>1, EmptyRight DEF Drops
<1> QED BY <1>1, <1>2

LEMMA MovedRight ==
  ASSUME NEW st, NEW n, NEW now, NEW id \in DOMAIN st.messages, NEW pinned \in BOOLEAN,
         NEW moved, ChannelRight(st, n, now), Moves(st, id, pinned, moved)
  PROVE  ChannelRight(moved, n, now)
<1> DEFINE old == st.messages[id]
           m == Repinned(old, pinned)
<1>1. MessageRight(old, now)
  BY DEF ChannelRight
<1>2. m \in MessageRecord /\ m.owner = old.owner /\ m.poll = old.poll /\ View(m) = View(old)
  BY <1>1 DEF MessageRight, MessageRecord, Repinned, View
<1>3. MessageRight(m, now)
  BY <1>1, <1>2 DEF MessageRight
<1>4. /\ IsStore(moved) /\ moved.messages = [st.messages EXCEPT ![id] = m]
      /\ moved.index = (st.index (-) SetToBag(Keys(old, id))) (+) SetToBag(Keys(m, id))
      /\ moved.order = st.order /\ moved.deadlines = st.deadlines /\ moved.told = st.told
  BY DEF Moves
<1>5. st.index = SetToBag(AllKeys(st.messages)) /\ st.deadlines = Deadlines(st.messages)
      /\ st.told = Told(st.messages)
  BY DEF ChannelRight, Deadlines, Told
<1> HIDE DEF m
<1>6. moved.index = SetToBag(AllKeys(moved.messages))
  <2>1. /\ Keys(old, id) \subseteq AllKeys(st.messages)
        /\ (AllKeys(st.messages) \ Keys(old, id)) \cap Keys(m, id) = {}
        /\ AllKeys([st.messages EXCEPT ![id] = m]) = (AllKeys(st.messages) \ Keys(old, id)) \cup Keys(m, id)
    BY KeysMoved
  <2>2. st.index (-) SetToBag(Keys(old, id)) = SetToBag(AllKeys(st.messages) \ Keys(old, id))
    BY <1>5, <2>1, BagTakes
  <2>3. moved.index = SetToBag((AllKeys(st.messages) \ Keys(old, id)) \cup Keys(m, id))
    BY <1>4, <2>1, <2>2, BagAdds
  <2> QED BY <2>1, <2>3, <1>4
<1>7. moved.deadlines = Deadlines(moved.messages)
  <2>1. Deadlines([st.messages EXCEPT ![id] = m]) = Deadlines(st.messages)
    BY <1>2, DeadlineFollows
  <2> QED BY <2>1, <1>4, <1>5
<1>8. moved.told = Told(moved.messages)
  <2>1. Told([st.messages EXCEPT ![id] = m]) = Told(st.messages)
    BY <1>2, OneFollows
  <2> QED BY <2>1, <1>4, <1>5
<1> QED BY <1>3, <1>4, <1>6, <1>7, <1>8, ReplaceRight

LEMMA PollsRight ==
  /\ \A now : PollRight(NoPoll, now)
  /\ \A now \in Nat, multi \in BOOLEAN : PollRight(OpenPoll(now + PollLife, multi), now)
<1>1. \A now : PollRight(NoPoll, now)
  BY DEF PollRight, NoPoll
<1>2. ASSUME NEW now \in Nat, NEW multi \in BOOLEAN PROVE PollRight(OpenPoll(now + PollLife, multi), now)
  BY MessagesAssumption DEF PollRight, OpenPoll
<1> QED BY <1>1, <1>2

LEMMA PlainRight ==
  ASSUME NEW author \in People \cup {Hook}, NEW text \in Texts, NEW now
  PROVE  MessageRight(Message(author, text), now)
<1>1. Message(author, text).poll = NoPoll
  BY DEF Message
<1> QED BY <1>1, RightTypes, PollsRight DEF MessageRight

LEMMA ExpireRight ==
  ASSUME NEW st, NEW n, NEW now \in Nat, ChannelRight(st, n, now)
  PROVE  /\ ChannelRight(ExpireDuePolls(st, now + 1), n, now + 1)
         /\ Expires(st, now + 1, ExpireDuePolls(st, now + 1))
<1> DEFINE after == ExpireDuePolls(st, now + 1)
           ms == st.messages
           due == Due(st, now + 1)
<1>1. Expires(st, now + 1, after)
  BY ExpireParts DEF ChannelRight
<1> HIDE DEF after
<1>2. /\ IsStore(after) /\ after.messages = CloseAll(ms, due) /\ after.told = CloseAll(st.told, due)
      /\ after.deadlines = Without(st.deadlines, due)
      /\ after.order = st.order /\ after.index = st.index
  BY <1>1 DEF Expires
<1>3. /\ st.deadlines = Deadlines(ms) /\ st.told = Told(ms) /\ st.index = SetToBag(AllKeys(ms))
      /\ \A id \in DOMAIN ms : MessageRight(ms[id], now)
  BY DEF ChannelRight, Deadlines, Told
<1>4. due = {id \in OpenPolls(ms) : ms[id].poll.expiry <= now + 1}
  BY <1>3 DEF Due, Deadlines
<1> HIDE DEF due
<1>5. /\ DOMAIN after.messages = DOMAIN ms
      /\ after.messages = [x \in DOMAIN after.messages |-> after.messages[x]]
      /\ \A x \in DOMAIN ms : x \notin due => after.messages[x] = ms[x]
      /\ \A x \in due : after.messages[x] = Closed(ms[x])
  BY <1>2, <1>4 DEF CloseAll, Closed, OpenPolls
<1>6. ASSUME NEW x \in DOMAIN ms
      PROVE  /\ Closed(ms[x]) \in MessageRecord
             /\ Closed(ms[x]).owner = ms[x].owner /\ Closed(ms[x]).pinned = ms[x].pinned
             /\ Closed(ms[x]).poll.closed
             /\ PollRight(Closed(ms[x]).poll, now + 1)
  <2>1. ms[x].poll \in Poll /\ Closed(ms[x]) = [ms[x] EXCEPT !.poll = [ms[x].poll EXCEPT !.closed = TRUE]]
        /\ ms[x] \in MessageRecord /\ PollRight(ms[x].poll, now)
    BY <1>3 DEF MessageRight, MessageRecord, Closed
  <2>2. [ms[x].poll EXCEPT !.closed = TRUE] \in Poll
    BY <2>1 DEF Poll
  <2>3. Closed(ms[x]) \in MessageRecord /\ Closed(ms[x]).poll = [ms[x].poll EXCEPT !.closed = TRUE]
        /\ Closed(ms[x]).owner = ms[x].owner /\ Closed(ms[x]).pinned = ms[x].pinned
    BY <2>1, <2>2 DEF MessageRecord
  <2>4. Closed(ms[x]).poll.closed /\ Closed(ms[x]).poll.multi = ms[x].poll.multi
        /\ Closed(ms[x]).poll.votes = ms[x].poll.votes
    BY <2>1, <2>3 DEF Poll
  <2>5. PollRight(Closed(ms[x]).poll, now + 1)
    BY <2>1, <2>4 DEF PollRight
  <2> QED BY <2>3, <2>4, <2>5
<1>7. ASSUME NEW x \in DOMAIN ms PROVE MessageRight(after.messages[x], now + 1)
  <2>1. CASE x \in due
    BY <2>1, <1>5, <1>6 DEF MessageRight
  <2>2. CASE x \notin due
    <3>1. ms[x] \in MessageRecord /\ PollRight(ms[x].poll, now) /\ ms[x].poll \in Poll
      BY <1>3 DEF MessageRight, MessageRecord
    <3>2. ms[x].poll.closed \/ ~(ms[x].poll.expiry <= now + 1)
      BY <2>2, <1>4 DEF OpenPolls
    <3>3. PollRight(ms[x].poll, now + 1)
      BY <3>1, <3>2 DEF PollRight, Poll
    <3> QED BY <3>1, <3>3, <2>2, <1>5 DEF MessageRight
  <2> QED BY <2>1, <2>2
<1>8. after.index = SetToBag(AllKeys(after.messages))
  <2>1. \A x \in DOMAIN ms : after.messages[x].owner = ms[x].owner /\ after.messages[x].pinned = ms[x].pinned
    BY <1>5, <1>6
  <2> QED BY <2>1, <1>2, <1>3, <1>5, KeysSame
<1>9. after.deadlines = Deadlines(after.messages)
  <2>1. OpenPolls(after.messages) = OpenPolls(ms) \ due
    BY <1>4, <1>5, <1>6 DEF OpenPolls
  <2>2. after.deadlines = [x \in OpenPolls(ms) \ due |-> ms[x].poll.expiry]
    BY <1>2, <1>3 DEF Deadlines, Without
  <2>3. \A x \in OpenPolls(ms) \ due : after.messages[x] = ms[x]
    BY <1>5 DEF OpenPolls
  <2>4. Deadlines(after.messages) = [x \in OpenPolls(ms) \ due |-> after.messages[x].poll.expiry]
    BY <2>1 DEF Deadlines
  <2> QED BY <2>2, <2>3, <2>4
<1>10. after.told = Told(after.messages)
  <2>1. Shown(after.messages) = Shown(ms)
    BY <1>5, <1>6 DEF Shown, Public
  <2>2. DOMAIN st.told = Shown(ms) /\ \A x \in Shown(ms) : st.told[x] = View(ms[x])
    BY <1>3 DEF Told
  <2>3. ASSUME NEW x \in Shown(ms), x \in due
        PROVE  [st.told[x] EXCEPT !.poll.closed = TRUE] = View(Closed(ms[x]))
    <3>1. x \in DOMAIN ms /\ ms[x] \in MessageRecord
      BY <1>3 DEF Shown, MessageRight
    <3> DEFINE c == [ms[x].poll EXCEPT !.closed = TRUE]
    <3>2. Closed(ms[x]).text = ms[x].text /\ Closed(ms[x]).reactions = ms[x].reactions
          /\ Closed(ms[x]).poll = c
      BY <3>1 DEF Closed, MessageRecord
    <3>3. [View(ms[x]) EXCEPT !.poll.closed = TRUE]
            = [text |-> ms[x].text, poll |-> c, reactions |-> ms[x].reactions]
      <4> DEFINE v == View(ms[x])
      <4>1. [v EXCEPT !.poll.closed = TRUE] = [v EXCEPT !.poll = [v.poll EXCEPT !.closed = TRUE]]
        OBVIOUS
      <4>2. [v.poll EXCEPT !.closed = TRUE] = c
        BY DEF View
      <4> HIDE DEF c
      <4>3. [v EXCEPT !.poll = c] = [text |-> ms[x].text, poll |-> c, reactions |-> ms[x].reactions]
        BY DEF View
      <4> HIDE DEF v
      <4>4. [v EXCEPT !.poll.closed = TRUE]
              = [text |-> ms[x].text, poll |-> c, reactions |-> ms[x].reactions]
        BY <4>1, <4>2, <4>3
      <4> QED BY <4>4 DEF v
    <3> HIDE DEF c
    <3>4. View(Closed(ms[x])) = [text |-> ms[x].text, poll |-> c, reactions |-> ms[x].reactions]
      BY <3>2 DEF View
    <3> QED BY <3>3, <3>4, <2>2
  <2>4. \A x \in Shown(ms) : after.told[x] = View(after.messages[x])
    BY <1>2, <1>5, <2>2, <2>3 DEF CloseAll, Shown
  <2>5. after.told = [x \in Shown(ms) |-> after.told[x]]
    BY <1>2, <2>2 DEF CloseAll
  <2> QED BY <2>1, <2>4, <2>5 DEF Told
<1>11. ChannelRight(after, n, now + 1)
  BY <1>2, <1>5, <1>7, <1>8, <1>9, <1>10 DEF ChannelRight, Deadlines, Told
<1> QED BY <1>1, <1>11 DEF after

-----------------------------------------------------------------------------
(* Each operation keeps "thinking" messages and their interactions together *)

LEMMA OwnedCalm ==
  ASSUME NEW ms, NEW is, NEW n, NEW to, OwnedRight(ms, is, n), DOMAIN to \subseteq DOMAIN ms,
         \A id \in DOMAIN to : /\ to[id].from = ms[id].from /\ to[id].loading = ms[id].loading
                               /\ to[id].owner = ms[id].owner
  PROVE  OwnedRight(to, is, n)
  BY DEF OwnedRight

LEMMA OwnedPut ==
  ASSUME NEW ms, NEW is, NEW n \in Nat, NEW m, OwnedRight(ms, is, n), DOMAIN ms \subseteq 1..n, ~m.loading
  PROVE  OwnedRight(Put(ms, n + 1, m), is, n + 1)
<1> DEFINE id == n + 1
           to == Put(ms, id, m)
<1>1. /\ DOMAIN to = DOMAIN ms \cup {id} /\ to[id] = m /\ id \notin DOMAIN ms
      /\ \A x \in DOMAIN ms : to[x] = ms[x]
  BY DEF Put
<1>2. \A i \in DOMAIN is : is[i].message \in 0..n /\ is[i].source \in 0..n
                           /\ is[i].message \in 0..id /\ is[i].source \in 0..id /\ is[i].message # id
  BY DEF OwnedRight
<1> HIDE DEF id, to
<1> SUFFICES OwnedRight(to, is, id)
  BY DEF id, to
<1> QED BY <1>1, <1>2 DEF OwnedRight

\* Some interactions change, none of them one with an original.
Touched(r, to) ==
  \/ to.kind = r.kind /\ to.message = r.message /\ to.private = r.private /\ to.user = r.user
  \/ r.kind = "none" /\ ~HasOriginal(to)

LEMMA OwnedTouch ==
  ASSUME NEW ms, NEW is, NEW n, NEW to, OwnedRight(ms, is, n), DOMAIN to = DOMAIN is,
         \A i \in DOMAIN is :
           /\ to[i] \in InteractionRecord /\ to[i].message \in 0..n /\ to[i].source \in 0..n
           /\ Touched(is[i], to[i])
  PROVE  OwnedRight(ms, to, n)
<1>1. ASSUME NEW id \in DOMAIN ms, ms[id].loading
      PROVE  /\ ms[id].from \in DOMAIN to
             /\ to[ms[id].from].kind = "deferred" /\ to[ms[id].from].message = id
  <2>1. /\ ms[id].from \in DOMAIN is
        /\ is[ms[id].from].kind = "deferred" /\ is[ms[id].from].message = id
    BY <1>1, Zenon DEF OwnedRight
  <2> QED BY <2>1 DEF Touched
<1>2. ASSUME NEW i \in DOMAIN to, to[i].message \in DOMAIN ms, HasOriginal(to[i])
      PROVE  LET m == ms[to[i].message] IN
             /\ m.from = i /\ m.loading = (to[i].kind = "deferred")
             /\ m.owner = IF to[i].private THEN to[i].user ELSE Everyone
  <2>1. /\ to[i].kind = is[i].kind /\ to[i].message = is[i].message
        /\ to[i].private = is[i].private /\ to[i].user = is[i].user
    BY <1>2 DEF Touched
  <2>2. HasOriginal(is[i]) /\ is[i].message \in DOMAIN ms /\ i \in DOMAIN is
    BY <2>1, <1>2 DEF HasOriginal
  <2> QED BY <2>1, <2>2 DEF OwnedRight
<1>3. \E k \in 0..MaxInteractions : DOMAIN to = 1..k
  BY DEF OwnedRight
<1> QED BY <1>1, <1>2, <1>3 DEF OwnedRight

LEMMA OwnedAsk ==
  ASSUME NEW ms, NEW is, NEW n, NEW k \in 0..MaxInteractions, NEW r, OwnedRight(ms, is, n),
         DOMAIN is = 1..k, k + 1 \in InteractionIds,
         r \in InteractionRecord, r.message \in 0..n, r.source \in 0..n, r.kind = "none"
  PROVE  OwnedRight(ms, Put(is, k + 1, r), n)
<1> DEFINE i == k + 1
           to == Put(is, i, r)
<1>1. /\ DOMAIN to = 1..i /\ to[i] = r /\ i \notin DOMAIN is /\ DOMAIN to = DOMAIN is \cup {i}
      /\ \A x \in DOMAIN is : to[x] = is[x]
  BY DEF Put
<1>2. i \in 0..MaxInteractions
  BY InteractionsAssumption DEF InteractionIds
<1> HIDE DEF i, to
<1>3. ~HasOriginal(r)
  BY DEF HasOriginal
<1>4. OwnedRight(ms, to, n)
  <2>1. \A x \in DOMAIN to :
          to[x] \in InteractionRecord /\ to[x].message \in 0..n /\ to[x].source \in 0..n
    BY <1>1 DEF OwnedRight
  <2>2. ASSUME NEW id \in DOMAIN ms, ms[id].loading
        PROVE  /\ ms[id].from \in DOMAIN to
               /\ to[ms[id].from].kind = "deferred" /\ to[ms[id].from].message = id
    <3>1. ms[id].from \in DOMAIN is /\ is[ms[id].from].kind = "deferred" /\ is[ms[id].from].message = id
      BY <2>2 DEF OwnedRight
    <3> QED BY <3>1, <1>1
  <2>3. ASSUME NEW x \in DOMAIN to, to[x].message \in DOMAIN ms, HasOriginal(to[x])
        PROVE  LET m == ms[to[x].message] IN
               /\ m.from = x /\ m.loading = (to[x].kind = "deferred")
               /\ m.owner = IF to[x].private THEN to[x].user ELSE Everyone
    <3>1. x \in DOMAIN is /\ to[x] = is[x]
      BY <2>3, <1>1, <1>3
    <3> QED BY <3>1, <2>3 DEF OwnedRight
  <2> QED BY <1>1, <1>2, <2>1, <2>2, <2>3 DEF OwnedRight
<1> QED BY <1>4 DEF i, to

\* An edit ends the "thinking" of the one interaction it answers.
Settled(ms, r, to) ==
  \/ to = r
  \/ /\ r.kind = "deferred" /\ r.message \in DOMAIN ms
     /\ to = [r EXCEPT !.kind = "message"]

\* What an answered interaction says of its original.
LEMMA OwnedReply ==
  ASSUME NEW ms, NEW is, NEW n, OwnedRight(ms, is, n),
         NEW i \in DOMAIN is, is[i].message \in DOMAIN ms, HasOriginal(is[i])
  PROVE  /\ ms[is[i].message].from = i
         /\ ms[is[i].message].loading = (is[i].kind = "deferred")
         /\ ms[is[i].message].owner = IF is[i].private THEN is[i].user ELSE Everyone
BY Zenon DEF OwnedRight

OfKind(r, kind) == [r EXCEPT !.kind = kind]
AnsweredBy(r, kind, id, private) == [r EXCEPT !.kind = kind, !.message = id, !.private = private]

LEMMA OfKindRight ==
  ASSUME NEW r \in InteractionRecord,
         NEW kind \in {"none", "message", "deferred", "deferred_update", "update", "modal", "autocomplete"}
  PROVE  /\ OfKind(r, kind) \in InteractionRecord /\ OfKind(r, kind).kind = kind
         /\ OfKind(r, kind).user = r.user /\ OfKind(r, kind).source = r.source
         /\ OfKind(r, kind).message = r.message /\ OfKind(r, kind).private = r.private
BY SMTT(30) DEF InteractionRecord, OfKind

LEMMA AnsweredByRight ==
  ASSUME NEW r \in InteractionRecord, NEW kind \in {"message", "deferred"}, NEW id \in Nat,
         NEW private \in BOOLEAN
  PROVE  LET s == AnsweredBy(r, kind, id, private) IN
         /\ s \in InteractionRecord
         /\ s.kind = kind /\ s.message = id /\ s.private = private
         /\ s.source = r.source /\ s.user = r.user
BY ZenonT(60) DEF InteractionRecord, AnsweredBy

LEMMA OwnedEdit ==
  ASSUME NEW st, NEW n, NEW id \in DOMAIN st.messages, NEW text, NEW poll,
         st.messages[id] \in MessageRecord,
         OwnedRight(st.messages, st.interactions, n)
  PROVE  /\ OwnedRight([st.messages EXCEPT ![id] = Edited(@, text, poll)], Completed(st, id), n)
         /\ DOMAIN Completed(st, id) = DOMAIN st.interactions
         /\ \A i \in DOMAIN st.interactions :
              Settled(st.messages, st.interactions[i], Completed(st, id)[i])
<1> DEFINE ms == st.messages
           is == st.interactions
           old == ms[id]
           m == Edited(old, text, poll)
           to == [ms EXCEPT ![id] = m]
           done == Completed(st, id)
           f == old.from
<1>1. /\ DOMAIN to = DOMAIN ms /\ to[id] = m /\ \A x \in DOMAIN ms : x # id => to[x] = ms[x]
  OBVIOUS
<1>2. m.from = old.from /\ m.loading = FALSE /\ m.owner = old.owner
  BY DEF Edited, MessageRecord
<1>3. /\ DOMAIN is \subseteq Nat
      /\ \A i \in DOMAIN is : is[i] \in InteractionRecord
  <2>1. PICK k \in 0..MaxInteractions : DOMAIN is = 1..k
    BY Zenon DEF OwnedRight
  <2>2. \A i \in DOMAIN is : is[i] \in InteractionRecord
    BY Zenon DEF OwnedRight
  <2> QED BY <2>1, <2>2, InteractionsAssumption
<1>4. CASE old.loading
  <2>1. f \in DOMAIN is /\ is[f].kind = "deferred" /\ is[f].message = id
    BY <1>4 DEF OwnedRight
  <2>2. done = [is EXCEPT ![f].kind = "message"]
    BY <1>4, <2>1 DEF Completed
  <2> DEFINE r == [is[f] EXCEPT !.kind = "message"]
  <2>3. /\ DOMAIN done = DOMAIN is /\ done[f] = r
        /\ \A x \in DOMAIN is : x # f => done[x] = is[x]
    BY <2>1, <2>2
  <2>4. /\ r \in InteractionRecord /\ r.kind = "message" /\ r.message = id
        /\ r.private = is[f].private /\ r.user = is[f].user /\ r.source = is[f].source
    <3>1. is[f] \in InteractionRecord /\ is[f].message = id
      BY <1>3, <2>1
    <3>2. r = OfKind(is[f], "message")
      BY Zenon DEF OfKind
    <3> HIDE DEF r
    <3> QED BY <3>1, <3>2, OfKindRight
  <2>5. \A i \in DOMAIN is : Settled(ms, is[i], done[i])
    BY <2>1, <2>3 DEF Settled
  <2> HIDE DEF r, done, to, m
  <2>6. \A x \in DOMAIN done :
          done[x] \in InteractionRecord /\ done[x].message \in 0..n /\ done[x].source \in 0..n
    <3>1. \A x \in DOMAIN is : is[x] \in InteractionRecord /\ is[x].message \in 0..n /\ is[x].source \in 0..n
      BY Zenon DEF OwnedRight
    <3>2. /\ done[f] \in InteractionRecord /\ done[f].message \in 0..n /\ done[f].source \in 0..n
      BY <2>1, <2>3, <2>4, <3>1
    <3> QED BY <2>3, <3>1, <3>2, Zenon
  <2>7. ASSUME NEW x \in DOMAIN to, to[x].loading
        PROVE  /\ to[x].from \in DOMAIN done
               /\ done[to[x].from].kind = "deferred" /\ done[to[x].from].message = x
    <3>1. x # id /\ to[x] = ms[x] /\ x \in DOMAIN ms
      BY <2>7, <1>1, <1>2
    <3>2. /\ ms[x].from \in DOMAIN is
          /\ is[ms[x].from].kind = "deferred" /\ is[ms[x].from].message = x
      BY <3>1, <2>7 DEF OwnedRight
    <3>3. ms[x].from # f
      BY <3>1, <3>2, <2>1
    <3> QED BY <3>1, <3>2, <3>3, <2>3
  <2>8. ASSUME NEW x \in DOMAIN done, done[x].message \in DOMAIN to, HasOriginal(done[x])
        PROVE  LET a == to[done[x].message] IN
               /\ a.from = x /\ a.loading = (done[x].kind = "deferred")
               /\ a.owner = IF done[x].private THEN done[x].user ELSE Everyone
    <3>1. CASE x = f
      <4>1. /\ old.from = f
            /\ old.owner = IF is[f].private THEN is[f].user ELSE Everyone
        <5>1. HasOriginal(is[f]) /\ is[f].message \in DOMAIN ms /\ old = ms[is[f].message]
          BY <2>1 DEF HasOriginal
        <5> HIDE DEF old, ms, is, f
        <5>2. OwnedRight(ms, is, n) /\ f \in DOMAIN is
          BY <2>1 DEF ms, is
        <5>3. /\ ms[is[f].message].from = f
              /\ ms[is[f].message].owner = IF is[f].private THEN is[f].user ELSE Everyone
          BY <5>1, <5>2, OwnedReply
        <5> HIDE <5>2
        <5> QED BY <5>1, <5>3
      <4> QED BY <3>1, <4>1, <1>1, <1>2, <2>3, <2>4
    <3>2. CASE x # f
      <4>1. done[x] = is[x] /\ x \in DOMAIN is
        BY <3>2, <2>3
      <4>2. LET a == ms[is[x].message] IN
            /\ a.from = x /\ a.loading = (is[x].kind = "deferred")
            /\ a.owner = IF is[x].private THEN is[x].user ELSE Everyone
        BY <4>1, <2>8, <1>1 DEF OwnedRight
      <4>3. is[x].message # id
        BY <4>2, <3>2
      <4> QED BY <4>1, <4>2, <4>3, <1>1, <2>8
    <3> QED BY <3>1, <3>2
  <2>9. OwnedRight(to, done, n)
    BY <2>3, <2>6, <2>7, <2>8 DEF OwnedRight
  <2>10. to = [ms EXCEPT ![id] = Edited(@, text, poll)]
    BY DEF to, m
  <2> QED BY <2>3, <2>5, <2>9, <2>10 DEF done
<1>5. CASE ~old.loading
  <2>1. done = is
    BY <1>5 DEF Completed
  <2>2. OwnedRight(to, is, n)
    <3>1. old.loading = FALSE
      BY <1>5 DEF MessageRecord
    <3>2. \A x \in DOMAIN to : /\ to[x].from = ms[x].from /\ to[x].loading = ms[x].loading
                               /\ to[x].owner = ms[x].owner
      BY <1>1, <1>2, <3>1
    <3> HIDE DEF to
    <3> QED BY <3>2, <1>1, OwnedCalm
  <2> QED BY <2>1, <2>2 DEF Settled
<1> QED BY <1>4, <1>5

LEMMA OwnedAnswer ==
  ASSUME NEW ms, NEW is, NEW n \in Nat, NEW i \in DOMAIN is, NEW private \in BOOLEAN,
         NEW kind \in {"message", "deferred"}, NEW m,
         OwnedRight(ms, is, n), DOMAIN ms \subseteq 1..n, is[i].kind = "none",
         m.from = i, m.loading = (kind = "deferred"),
         m.owner = IF private THEN is[i].user ELSE Everyone
  PROVE  OwnedRight(Put(ms, n + 1, m),
                    [is EXCEPT ![i] = [@ EXCEPT !.kind = kind, !.message = n + 1, !.private = private]],
                    n + 1)
<1> DEFINE id == n + 1
           r == [is[i] EXCEPT !.kind = kind, !.message = id, !.private = private]
           to == Put(ms, id, m)
           done == [is EXCEPT ![i] = r]
<1>1. /\ DOMAIN to = DOMAIN ms \cup {id} /\ to[id] = m /\ id \notin DOMAIN ms
      /\ \A x \in DOMAIN ms : to[x] = ms[x]
  BY DEF Put
<1>2. \A x \in DOMAIN is : is[x] \in InteractionRecord /\ is[x].message \in 0..n /\ is[x].source \in 0..n
                           /\ is[x].message \in 0..id /\ is[x].source \in 0..id /\ is[x].message # id
  BY DEF OwnedRight
<1>3. id \in 0..id /\ id \in Nat
  OBVIOUS
<1> HIDE DEF id
<1>4. /\ r \in InteractionRecord /\ r.kind = kind /\ r.message = id /\ r.private = private
      /\ r.source = is[i].source /\ r.user = is[i].user
  <2>1. is[i] \in InteractionRecord
    BY <1>2
  <2>2. r = AnsweredBy(is[i], kind, id, private)
    BY Zenon DEF AnsweredBy
  <2> HIDE DEF r
  <2> QED BY <1>3, <2>1, <2>2, AnsweredByRight
<1>5. DOMAIN done = DOMAIN is /\ done[i] = r /\ \A x \in DOMAIN is : x # i => done[x] = is[x]
  OBVIOUS
<1>6. done = [is EXCEPT ![i] = [@ EXCEPT !.kind = kind, !.message = id, !.private = private]]
  OBVIOUS
<1> HIDE DEF r, to, done
<1>7. \A x \in DOMAIN done :
        done[x] \in InteractionRecord /\ done[x].message \in 0..id /\ done[x].source \in 0..id
  BY <1>2, <1>3, <1>4, <1>5
<1>8. ASSUME NEW x \in DOMAIN to, to[x].loading
      PROVE  /\ to[x].from \in DOMAIN done
             /\ done[to[x].from].kind = "deferred" /\ done[to[x].from].message = x
  <2>1. CASE x = id
    BY <2>1, <1>8, <1>1, <1>4, <1>5
  <2>2. CASE x # id
    <3>1. x \in DOMAIN ms /\ to[x] = ms[x]
      BY <2>2, <1>1
    <3>2. ms[x].from \in DOMAIN is /\ is[ms[x].from].kind = "deferred" /\ is[ms[x].from].message = x
      BY <3>1, <1>8 DEF OwnedRight
    <3> QED BY <3>1, <3>2, <1>5
  <2> QED BY <2>1, <2>2
<1>9. ASSUME NEW x \in DOMAIN done, done[x].message \in DOMAIN to, HasOriginal(done[x])
      PROVE  LET a == to[done[x].message] IN
             /\ a.from = x /\ a.loading = (done[x].kind = "deferred")
             /\ a.owner = IF done[x].private THEN done[x].user ELSE Everyone
  <2>1. CASE x = i
    BY <2>1, <1>1, <1>4, <1>5
  <2>2. CASE x # i
    <3>1. done[x] = is[x] /\ x \in DOMAIN is /\ is[x].message \in DOMAIN ms
      BY <2>2, <1>1, <1>2, <1>5, <1>9
    <3>2. LET a == ms[is[x].message] IN
          /\ a.from = x /\ a.loading = (is[x].kind = "deferred")
          /\ a.owner = IF is[x].private THEN is[x].user ELSE Everyone
      BY <3>1, <1>9 DEF OwnedRight
    <3> QED BY <3>1, <3>2, <1>1
  <2> QED BY <2>1, <2>2
<1>10. OwnedRight(to, done, id)
  <2>1. \E k \in 0..MaxInteractions : DOMAIN done = 1..k
    BY <1>5 DEF OwnedRight
  <2> QED BY <2>1, <1>7, <1>8, <1>9 DEF OwnedRight
<1> QED BY <1>6, <1>10 DEF to, id

-----------------------------------------------------------------------------
(* How an interaction may go on in a step *)

Passing ==
  /\ clock' \in Nat /\ clock <= clock' /\ (there' => there)
  /\ DOMAIN messages' \subseteq DOMAIN messages \cup {NewId}

Stays(i) ==
  /\ i \in DOMAIN interactions <=> i \in DOMAIN interactions'
  /\ i \in DOMAIN interactions =>
       LET r == interactions[i]
           to == interactions'[i] IN
       /\ to.born = r.born /\ to.message = r.message /\ to.followups = r.followups
       /\ to.kind = r.kind \/ (r.kind = "deferred" /\ to.kind = "message" /\ Has(r.message))

LEMMA StaysMoves ==
  ASSUME IInv, IInv', Passing, NEW i \in InteractionIds, Stays(i)
  PROVE  Promise!Move(i)
<1>1. CASE i \notin DOMAIN interactions
  BY <1>1 DEF Promise!Move, Stays, State, Original, Spoken, Tired
<1>2. CASE i \in DOMAIN interactions
  <2> DEFINE r == interactions[i]
             to == interactions'[i]
  <2>1. /\ i \in DOMAIN interactions' /\ to.born = r.born /\ to.message = r.message
        /\ to.followups = r.followups
        /\ to.kind = r.kind \/ (r.kind = "deferred" /\ to.kind = "message" /\ Has(r.message))
    BY <1>2 DEF Stays
  <2>2. r \in InteractionRecord /\ r.message \in 0..issued /\ issued \in Nat /\ r.born \in Nat
    BY <1>2 DEF IInv, OwnedRight, InteractionRecord
  <2>3. Original(i)' = Original(i) /\ Spoken(i)' = Spoken(i)
    BY <1>2, <2>1 DEF Original, Spoken
  <2>4. Tired(i) => Tired(i)'
    BY <1>2, <2>1, <2>2, InteractionsAssumption DEF Tired, Passing, IInv
  <2>5. Has(r.message)' => Has(r.message)
    <3>1. (r.message)' = r.message
      BY <2>1
    <3> QED BY <2>2, <3>1 DEF Has, Passing, NewId
  <2>6. State(i)' = State(i) \/ <<State(i), State(i)'>> \in Promise!Moves
    <3>1. State(i) = IF r.kind = "deferred" THEN IF Has(r.message) THEN "thinking" ELSE "gone"
                     ELSE IF r.kind # "none" THEN "answered"
                     ELSE IF clock < r.born + Window THEN "open" ELSE "lapsed"
      BY <1>2 DEF State, Loading, Responded
    <3>2. State(i)' = IF to.kind = "deferred" THEN IF Has(r.message)' THEN "thinking" ELSE "gone"
                      ELSE IF to.kind # "none" THEN "answered"
                      ELSE IF clock' < r.born + Window THEN "open" ELSE "lapsed"
      <4>1. (interactions[i])' = to
        OBVIOUS
      <4> QED BY <2>1, <4>1 DEF State, Loading, Responded, Has
    <3>3. clock' < r.born + Window => clock < r.born + Window
      BY <2>2, InteractionsAssumption DEF Passing, IInv
    <3> QED BY <2>1, <2>5, <3>1, <3>2, <3>3 DEF Promise!Moves
  <2> QED BY <2>3, <2>4, <2>6 DEF Promise!Move
<1> QED BY <1>1, <1>2

LEMMA AskedMoves ==
  ASSUME IInv, NEW i \in InteractionIds, i \notin DOMAIN interactions, i \in DOMAIN interactions',
         clock' = clock, interactions'[i].kind = "none", interactions'[i].born = clock,
         interactions'[i].message = 0, interactions'[i].followups = {}
  PROVE  Promise!Move(i)
<1>1. State(i) = "unasked" /\ Original(i) = 0 /\ Spoken(i) = {} /\ ~Tired(i)
  BY DEF State, Original, Spoken, Tired
<1>2. clock < clock + Window /\ clock \in Nat
  BY InteractionsAssumption DEF IInv
<1>3. State(i)' = "open"
  BY <1>2 DEF State, Loading, Responded
<1>4. Original(i)' = 0 /\ Spoken(i)' = {}
  BY DEF Original, Spoken
<1> QED BY <1>1, <1>3, <1>4 DEF Promise!Move, Promise!Moves

LEMMA AnsweredMoves ==
  ASSUME IInv, NEW i \in InteractionIds, Answerable(i), i \in DOMAIN interactions',
         clock' = clock, interactions'[i].kind # "none", interactions'[i].born = interactions[i].born,
         interactions'[i].followups = interactions[i].followups,
         interactions'[i].kind = "deferred" => Has(interactions[i].message)'
  PROVE  Promise!Move(i)
<1>1. /\ i \in DOMAIN interactions /\ interactions[i].kind = "none"
      /\ clock < interactions[i].born + Window /\ clock < interactions[i].born + Life
  BY DEF Answerable, Responded
<1>2. interactions[i].born \in Nat /\ clock \in Nat
  BY <1>1 DEF IInv, OwnedRight, InteractionRecord
<1>3. State(i) = "open" /\ ~Tired(i)
  BY <1>1, <1>2, InteractionsAssumption DEF State, Loading, Responded, Tired
<1>4. State(i)' \in {"thinking", "answered"}
  BY DEF State, Loading, Responded
<1>5. Spoken(i)' = Spoken(i)
  BY <1>1 DEF Spoken
<1> QED BY <1>3, <1>4, <1>5 DEF Promise!Move, Promise!Moves

LEMMA SpokeMoves ==
  ASSUME IInv, NEW i \in InteractionIds, TokenLives(i), ~Loading(i), i \in DOMAIN interactions',
         clock' = clock, interactions'[i].kind = interactions[i].kind,
         interactions'[i].born = interactions[i].born,
         interactions'[i].message = interactions[i].message,
         interactions[i].followups \subseteq interactions'[i].followups
  PROVE  Promise!Move(i)
<1>1. /\ i \in DOMAIN interactions /\ interactions[i].kind # "deferred"
      /\ clock < interactions[i].born + Life
      /\ interactions[i].kind # "none" \/ clock < interactions[i].born + Window
  BY DEF TokenLives, Loading, Responded
<1>2. interactions[i].born \in Nat /\ clock \in Nat
  BY <1>1 DEF IInv, OwnedRight, InteractionRecord
<1>3. State(i) \in {"open", "answered"} /\ ~Tired(i)
  BY <1>1, <1>2, InteractionsAssumption DEF State, Loading, Responded, Tired
<1>4. State(i)' = State(i)
  BY <1>1 DEF State, Loading, Responded
<1>5. Spoken(i) \subseteq Spoken(i)' /\ Original(i)' = Original(i)
  BY <1>1 DEF Spoken, Original
<1> QED BY <1>3, <1>4, <1>5 DEF Promise!Move, Promise!Moves

-----------------------------------------------------------------------------
(* What every step is shown to do *)

Kept == IInv' /\ AppearsRightly /\ \A i \in InteractionIds : Promise!Move(i)

\* A change of the store in which nothing is said and no one is answered.
Quiet(st) ==
  /\ ChannelRight(st, issued, clock)
  /\ OwnedRight(st.messages, st.interactions, issued)
  /\ DOMAIN st.messages \subseteq DOMAIN messages
  /\ DOMAIN st.interactions = DOMAIN interactions
  /\ \A i \in DOMAIN interactions : Settled(messages, interactions[i], st.interactions[i])

LEMMA SettledStays ==
  ASSUME IInv, there, NEW i \in InteractionIds, DOMAIN interactions' = DOMAIN interactions,
         i \in DOMAIN interactions => Settled(messages, interactions[i], interactions'[i])
  PROVE  Stays(i)
<1>1. CASE i \notin DOMAIN interactions
  BY <1>1 DEF Stays
<1>2. CASE i \in DOMAIN interactions
  <2>1. interactions[i] \in InteractionRecord
    BY <1>2 DEF IInv, OwnedRight
  <2>2. CASE interactions'[i] = interactions[i]
    BY <1>2, <2>2 DEF Stays
  <2>3. CASE /\ interactions[i].kind = "deferred" /\ interactions[i].message \in DOMAIN messages
             /\ interactions'[i] = [interactions[i] EXCEPT !.kind = "message"]
    <3>1. /\ interactions'[i].kind = "message" /\ interactions'[i].born = interactions[i].born
          /\ interactions'[i].message = interactions[i].message
          /\ interactions'[i].followups = interactions[i].followups
      BY <2>1, <2>3 DEF InteractionRecord
    <3> QED BY <1>2, <2>3, <3>1 DEF Stays, Has
  <2> QED BY <1>2, <2>2, <2>3 DEF Settled
<1> QED BY <1>1, <1>2

LEMMA QuietStep ==
  ASSUME IInv, there, NEW st, Quiet(st), store' = st, UNCHANGED <<issued, clock, filter, there>>
  PROVE  Kept
<1>1. store' = st /\ issued' = issued /\ clock' = clock /\ there' = there
  OBVIOUS
<1>2. messages' = st.messages /\ interactions' = st.interactions
  BY <1>1 DEF messages, interactions
<1>3. IInv'
  BY <1>1, <1>2 DEF IInv, Quiet
<1>4. AppearsRightly
  BY <1>1, <1>2 DEF AppearsRightly, Quiet, messages
<1>5. Passing
  BY <1>1, <1>2 DEF Passing, Quiet, IInv
<1>6. ASSUME NEW i \in InteractionIds PROVE Promise!Move(i)
  BY <1>2, <1>3, <1>5, SettledStays, StaysMoves DEF Quiet
<1> QED BY <1>3, <1>4, <1>6 DEF Kept

LEMMA QuietKept ==
  ASSUME IInv, there, NEW st, Quiet(st), Becomes(st)
  PROVE  Kept
  BY QuietStep DEF Becomes

LEMMA QuietSame ==
  ASSUME IInv, NEW st, ChannelRight(st, issued, clock), st.interactions = interactions,
         DOMAIN st.messages \subseteq DOMAIN messages,
         \A id \in DOMAIN st.messages :
           /\ st.messages[id].from = messages[id].from /\ st.messages[id].loading = messages[id].loading
           /\ st.messages[id].owner = messages[id].owner
  PROVE  Quiet(st)
<1>1. OwnedRight(st.messages, st.interactions, issued)
  BY OwnedCalm DEF IInv
<1> QED BY <1>1 DEF Quiet, Settled

LEMMA QuietEdit ==
  ASSUME IInv, NEW id \in DOMAIN messages, NEW text \in Texts, NEW poll \in Poll, PollRight(poll, clock)
  PROVE  Quiet(Edit(store, id, text, poll))
<1> DEFINE st == Edit(store, id, text, poll)
<1>1. ChannelRight(st, issued, clock) /\ Edits(store, id, text, poll, st)
  BY EditRight DEF IInv, messages
<1> HIDE DEF st
<1>2. st.messages = [messages EXCEPT ![id] = Edited(@, text, poll)] /\ st.interactions = Completed(store, id)
  BY <1>1 DEF Edits, messages
<1>3. messages[id] \in MessageRecord
  BY DEF IInv, ChannelRight, MessageRight, messages
<1>4. /\ OwnedRight([messages EXCEPT ![id] = Edited(@, text, poll)], Completed(store, id), issued)
      /\ DOMAIN Completed(store, id) = DOMAIN interactions
      /\ \A i \in DOMAIN interactions : Settled(messages, interactions[i], Completed(store, id)[i])
  BY <1>3, OwnedEdit DEF IInv, messages, interactions
<1>5. DOMAIN st.messages = DOMAIN messages
  BY <1>2
<1>6. Quiet(st)
  BY <1>1, <1>2, <1>4, <1>5 DEF Quiet
<1> QED BY <1>6 DEF st

LEMMA QuietErase ==
  ASSUME IInv, NEW ids
  PROVE  Quiet(Erase(store, ids))
<1> DEFINE st == Erase(store, ids)
<1>1. ChannelRight(st, issued, clock) /\ Erases(store, ids, st)
  BY EraseRight DEF IInv
<1> HIDE DEF st
<1>2. /\ st.interactions = interactions /\ DOMAIN st.messages = DOMAIN messages \ ids
      /\ \A id \in DOMAIN st.messages : st.messages[id] = messages[id]
  BY <1>1 DEF Erases, Without, messages, interactions
<1>3. Quiet(st)
  BY <1>1, <1>2, QuietSame
<1> QED BY <1>3 DEF st

LEMMA QuietChanged ==
  ASSUME IInv, NEW id \in DOMAIN messages, NEW m, MessageRight(m, clock),
         m.owner = messages[id].owner, m.pinned = messages[id].pinned,
         m.from = messages[id].from, m.loading = messages[id].loading,
         m.poll.closed = messages[id].poll.closed, m.poll.expiry = messages[id].poll.expiry
  PROVE  Quiet(Changed(store, id, m))
<1> DEFINE st == Changed(store, id, m)
<1>1. ChannelRight(st, issued, clock) /\ Changes(store, id, m, st)
  BY ChangedRight DEF IInv, messages
<1> HIDE DEF st
<1>2. st.interactions = interactions /\ st.messages = [messages EXCEPT ![id] = m]
  BY <1>1 DEF Changes, messages, interactions
<1>3. /\ DOMAIN st.messages = DOMAIN messages
      /\ \A x \in DOMAIN messages : st.messages[x] = IF x = id THEN m ELSE messages[x]
  BY <1>2
<1>4. Quiet(st)
  BY <1>1, <1>2, <1>3, QuietSame
<1> QED BY <1>4 DEF st

LEMMA QuietFinalize ==
  ASSUME IInv, NEW id \in DOMAIN messages
  PROVE  Quiet(FinalizePoll(store, id))
<1> DEFINE st == FinalizePoll(store, id)
           m == Closed(messages[id])
<1>1. ChannelRight(st, issued, clock) /\ Finalizes(store, id, st)
  BY FinalizeRight DEF IInv, messages
<1> HIDE DEF st
<1>2. st.interactions = interactions /\ st.messages = [messages EXCEPT ![id] = m]
  BY <1>1 DEF Finalizes, messages, interactions
<1>3. messages[id] \in MessageRecord
  BY DEF IInv, ChannelRight, MessageRight, messages
<1>4. m.from = messages[id].from /\ m.loading = messages[id].loading /\ m.owner = messages[id].owner
  BY <1>3 DEF Closed, MessageRecord
<1> HIDE DEF m
<1>5. /\ DOMAIN st.messages = DOMAIN messages
      /\ \A x \in DOMAIN messages : st.messages[x] = IF x = id THEN m ELSE messages[x]
  BY <1>2
<1>6. Quiet(st)
  BY <1>1, <1>2, <1>4, <1>5, QuietSame
<1> QED BY <1>6 DEF st

LEMMA QuietMoved ==
  ASSUME IInv, NEW id \in DOMAIN messages, NEW pinned \in BOOLEAN, NEW st,
         ChannelRight(st, issued, clock), Moves(store, id, pinned, st)
  PROVE  Quiet(st)
<1> DEFINE m == Repinned(messages[id], pinned)
<1>1. st.interactions = interactions /\ st.messages = [messages EXCEPT ![id] = m]
  BY DEF Moves, messages, interactions
<1>2. messages[id] \in MessageRecord
  BY DEF IInv, ChannelRight, MessageRight, messages
<1>3. m.from = messages[id].from /\ m.loading = messages[id].loading /\ m.owner = messages[id].owner
  BY <1>2 DEF Repinned, MessageRecord
<1> HIDE DEF m
<1>4. /\ DOMAIN st.messages = DOMAIN messages
      /\ \A x \in DOMAIN messages : st.messages[x] = IF x = id THEN m ELSE messages[x]
  BY <1>1
<1> QED BY <1>1, <1>3, <1>4, QuietSame

\* A message that may appear now, in a store that may be.
MayAppear(m) ==
  /\ filter = "block" /\ m.text = "rude" => m.author \in Exempt
  /\ m.of # 0 => m.of \in DOMAIN messages /\ Public(messages[m.of]) /\ ~messages[m.of].loading

LEMMA SaidRight ==
  ASSUME IInv, there, NEW st, NEW m, ChannelRight(st, issued, clock),
         DOMAIN st.messages \subseteq DOMAIN messages, MessageRight(m, clock), MayAppear(m),
         OwnedRight(Put(st.messages, issued + 1, m), st.interactions, issued + 1),
         store' = Commit(st, NewId, m), issued' = NewId, UNCHANGED <<clock, filter, there>>
  PROVE  /\ IInv' /\ AppearsRightly /\ Passing
         /\ messages' = Put(st.messages, NewId, m) /\ interactions' = st.interactions
<1>1. Commits(st, issued + 1, m, store')
  BY CommitParts DEF ChannelRight, NewId
<1>2. ChannelRight(store', issued + 1, clock)
  BY CommitRight DEF IInv, NewId
<1>3. messages' = Put(st.messages, issued + 1, m) /\ interactions' = st.interactions
  BY <1>1 DEF Commits, messages, interactions
<1>4. IInv'
  BY <1>2, <1>3 DEF IInv, NewId
<1>5. DOMAIN messages' \subseteq DOMAIN messages \cup {issued + 1} /\ messages'[issued + 1] = m
  BY <1>3 DEF Put
<1>6. AppearsRightly
  BY <1>5 DEF AppearsRightly, MayAppear, messages
<1>7. Passing
  BY <1>5 DEF Passing, IInv, NewId
<1> QED BY <1>3, <1>4, <1>6, <1>7 DEF NewId

LEMMA SaidKept ==
  ASSUME IInv, there, NEW st, NEW m, Quiet(st), MessageRight(m, clock), MayAppear(m), ~m.loading,
         store' = Commit(st, NewId, m), issued' = NewId, UNCHANGED <<clock, filter, there>>
  PROVE  Kept
<1>1. OwnedRight(Put(st.messages, issued + 1, m), st.interactions, issued + 1)
  BY OwnedPut DEF Quiet, ChannelRight, IInv
<1>2. IInv' /\ AppearsRightly /\ Passing /\ interactions' = st.interactions
  BY <1>1, SaidRight DEF Quiet
<1>3. ASSUME NEW i \in InteractionIds PROVE Promise!Move(i)
  BY <1>2, SettledStays, StaysMoves DEF Quiet
<1> QED BY <1>2, <1>3 DEF Kept

LEMMA NothingKept ==
  ASSUME IInv, UNCHANGED <<store, clock, there>>, issued' \in {issued, NewId}
  PROVE  Kept
<1>1. messages' = messages /\ interactions' = interactions /\ issued' \in Nat
  BY DEF messages, interactions, IInv, NewId
<1>2. ChannelRight(store, issued', clock)
  <2>1. 1..issued \subseteq 1..issued'
    BY DEF IInv, NewId
  <2> QED BY <2>1 DEF IInv, ChannelRight
<1>3. OwnedRight(messages, interactions, issued')
  <2>1. 0..issued \subseteq 0..issued'
    BY DEF IInv, NewId
  <2> QED BY <2>1 DEF IInv, OwnedRight
<1>4. IInv'
  BY <1>1, <1>2, <1>3 DEF IInv
<1>5. AppearsRightly
  BY DEF AppearsRightly, messages
<1>6. Passing
  BY <1>1 DEF Passing, IInv
<1>7. ASSUME NEW i \in InteractionIds PROVE Promise!Move(i)
  <2>1. Stays(i)
    BY <1>1 DEF Stays
  <2> QED BY <2>1, <1>4, <1>6, StaysMoves
<1> QED BY <1>4, <1>5, <1>7 DEF Kept

LEMMA SameQuiet ==
  ASSUME IInv
  PROVE  Quiet(store)
  BY QuietSame DEF IInv, messages, interactions

LEMMA PostKept ==
  ASSUME IInv, NEW m, MessageRight(m, clock), ~m.loading, Post(m),
         m.text = "rude" => m.author \in Users \cup {Hook},
         m.of # 0 => m.of \in DOMAIN messages /\ Public(messages[m.of]) /\ ~messages[m.of].loading
                     /\ m.text = "plain"
  PROVE  Kept
<1>1. CASE Filtered(filter, m.author, m.text) /\ m.of = 0
  BY <1>1, NothingKept DEF Post
<1>2. CASE ~(Filtered(filter, m.author, m.text) /\ m.of = 0)
  <2>1. MayAppear(m)
    BY <1>2, PeopleAssumption DEF MayAppear, Filtered
  <2>2. there /\ store' = Commit(store, NewId, m) /\ issued' = NewId /\ UNCHANGED <<clock, filter, there>>
    BY <1>2 DEF Post, Fresh
  <2> QED BY <2>1, <2>2, SameQuiet, SaidKept
<1> QED BY <1>1, <1>2

LEMMA PinKept ==
  ASSUME IInv, NEW actor \in People, NEW id, NEW pinned \in BOOLEAN, Has(id), Pin(actor, id, pinned)
  PROVE  Kept
<1>1. there /\ id \in DOMAIN messages /\ store' = SetPinned(store, id, pinned, actor, issued + 1)
  BY DEF Has, Pin, NewId
<1>2. PICK moved :
        /\ Moves(store, id, pinned, moved)
        /\ SetPinned(store, id, pinned, actor, issued + 1) =
             IF pinned THEN Commit(moved, issued + 1, Notice(actor)) ELSE moved
  BY <1>1, PinnedParts DEF IInv, messages, ChannelRight
<1>3. ChannelRight(moved, issued, clock)
  BY <1>1, <1>2, MovedRight DEF IInv, messages
<1>4. Quiet(moved)
  BY <1>1, <1>2, <1>3, QuietMoved
<1>5. CASE pinned
  <2>1. MessageRight(Notice(actor), clock) /\ Notice(actor).loading = FALSE
        /\ Notice(actor).text = "plain" /\ Notice(actor).of = 0
    <3>1. MessageRight(Message(actor, "plain"), clock)
      BY PlainRight DEF Texts
    <3> QED BY <3>1 DEF MessageRight, MessageRecord, Notice, Message
  <2>2. MayAppear(Notice(actor))
    BY <2>1 DEF MayAppear
  <2>3. store' = Commit(moved, NewId, Notice(actor)) /\ issued' = NewId
        /\ UNCHANGED <<clock, filter, there>>
    BY <1>1, <1>2, <1>5 DEF Pin, NewId
  <2> QED BY <2>1, <2>2, <2>3, <1>1, <1>4, SaidKept
<1>6. CASE ~pinned
  <2>1. store' = moved /\ UNCHANGED <<issued, clock, filter, there>>
    BY <1>1, <1>2, <1>6 DEF Pin
  <2> QED BY <2>1, <1>1, <1>4, QuietStep
<1> QED BY <1>5, <1>6

\* What is kept when nobody says anything and interactions stay.
LEMMA StillKept ==
  ASSUME IInv, issued' = issued, clock' \in Nat, clock <= clock', there' \in BOOLEAN, there' => there,
         ChannelRight(store', issued, clock'), interactions' = interactions,
         DOMAIN messages' \subseteq DOMAIN messages,
         \A id \in DOMAIN messages' :
           /\ messages'[id].from = messages[id].from /\ messages'[id].loading = messages[id].loading
           /\ messages'[id].owner = messages[id].owner
  PROVE  Kept
<1>1. OwnedRight(messages', interactions', issued)
  BY OwnedCalm DEF IInv
<1>2. IInv'
  BY <1>1 DEF IInv
<1>3. AppearsRightly
  BY DEF AppearsRightly, messages
<1>4. Passing
  BY DEF Passing, IInv
<1>5. ASSUME NEW i \in InteractionIds PROVE Promise!Move(i)
  <2>1. Stays(i)
    BY DEF Stays
  <2> QED BY <2>1, <1>2, <1>4, StaysMoves
<1> QED BY <1>2, <1>3, <1>5 DEF Kept

LEMMA TickKept ==
  ASSUME IInv, Tick
  PROVE  Kept
<1>1. clock' = clock + 1 /\ store' = ExpireDuePolls(store, clock + 1) /\ clock \in Nat
      /\ UNCHANGED <<issued, filter, there>>
  BY DEF Tick, IInv
<1>2. ChannelRight(store', issued, clock + 1) /\ Expires(store, clock + 1, store')
  BY <1>1, ExpireRight DEF IInv
<1>3. /\ interactions' = interactions /\ messages' = CloseAll(messages, Due(store, clock + 1))
  BY <1>2 DEF Expires, messages, interactions
<1>4. /\ DOMAIN messages' = DOMAIN messages
      /\ \A id \in DOMAIN messages : messages'[id] \in {messages[id], Closed(messages[id])}
  BY <1>3 DEF CloseAll, Closed
<1>5. \A id \in DOMAIN messages : /\ Closed(messages[id]).from = messages[id].from
                                  /\ Closed(messages[id]).loading = messages[id].loading
                                  /\ Closed(messages[id]).owner = messages[id].owner
  <2>1. \A id \in DOMAIN messages : messages[id] \in MessageRecord
    BY DEF IInv, ChannelRight, MessageRight, messages
  <2> QED BY <2>1 DEF Closed, MessageRecord
<1>6. \A id \in DOMAIN messages' :
        /\ messages'[id].from = messages[id].from /\ messages'[id].loading = messages[id].loading
        /\ messages'[id].owner = messages[id].owner
  BY <1>4, <1>5
<1> QED BY <1>1, <1>2, <1>3, <1>4, <1>6, StillKept DEF IInv

LEMMA DeleteChannelKept ==
  ASSUME IInv, DeleteChannel
  PROVE  Kept
<1>1. store' = DropChannel(store) /\ there' = FALSE /\ there /\ issued' = issued /\ clock' = clock
  BY DEF DeleteChannel
<1>2. ChannelRight(store', issued, clock') /\ Drops(store, store')
  BY <1>1, DropRight DEF IInv
<1>3. interactions' = interactions /\ messages' = <<>>
  BY <1>2 DEF Drops, messages, interactions
<1>4. DOMAIN messages' = {}
  BY <1>3
<1>5. clock' \in Nat /\ clock <= clock' /\ there' \in BOOLEAN /\ (there' => there)
  <2>1. clock' \in Nat /\ clock <= clock'
    BY <1>1 DEF IInv
  <2>2. there' \in BOOLEAN /\ (there' => there)
    BY <1>1, Zenon
  <2> QED BY <2>1, <2>2
<1>6. DOMAIN messages' \subseteq DOMAIN messages /\ \A id \in DOMAIN messages' : FALSE
  BY <1>4
<1> QED BY <1>1, <1>2, <1>3, <1>5, <1>6, StillKept

-----------------------------------------------------------------------------
(* The channel's own actions *)

LEMMA Known ==
  ASSUME IInv, NEW id, Has(id)
  PROVE  /\ there /\ id \in DOMAIN messages
         /\ messages[id] \in MessageRecord /\ messages[id].poll \in Poll
         /\ PollRight(messages[id].poll, clock)
  BY DEF Has, IInv, ChannelRight, MessageRight, MessageRecord, messages

LEMMA PollsTyped ==
  ASSUME IInv, NEW poll \in Polls
  PROVE  poll \in Poll /\ PollRight(poll, clock)
<1>1. PICK multi \in BOOLEAN : poll = OpenPoll(clock + PollLife, multi)
  BY MessagesAssumption DEF Polls
<1>2. clock \in Nat /\ clock + PollLife \in Nat
  BY MessagesAssumption DEF IInv
<1> QED BY <1>1, <1>2, RightTypes, PollsRight

LEMMA EditKept ==
  ASSUME IInv, NEW id, Has(id), NEW text \in Texts, NEW poll \in Polls \cup {NoPoll, messages[id].poll},
         Becomes(Edit(store, id, text, poll))
  PROVE  Kept
<1>1. poll \in Poll /\ PollRight(poll, clock)
  BY Known, PollsTyped, RightTypes, PollsRight
<1> QED BY <1>1, Known, QuietEdit, QuietKept

LEMMA EraseKept ==
  ASSUME IInv, there, NEW ids, Becomes(Erase(store, ids))
  PROVE  Kept
  BY QuietErase, QuietKept

LEMMA ReactionKept ==
  ASSUME IInv, NEW id, Has(id), NEW to \in SUBSET People,
         Becomes(Changed(store, id, [messages[id] EXCEPT !.reactions = to]))
  PROVE  Kept
<1> DEFINE m == [messages[id] EXCEPT !.reactions = to]
<1>1. there /\ id \in DOMAIN messages /\ messages[id] \in MessageRecord /\ PollRight(messages[id].poll, clock)
  BY Known
<1>2. /\ m \in MessageRecord /\ m.poll = messages[id].poll /\ m.owner = messages[id].owner
      /\ m.pinned = messages[id].pinned /\ m.from = messages[id].from
      /\ m.loading = messages[id].loading
  BY <1>1 DEF MessageRecord
<1> HIDE DEF m
<1>3. MessageRight(m, clock)
  BY <1>1, <1>2 DEF MessageRight
<1>4. Quiet(Changed(store, id, m))
  BY <1>1, <1>2, <1>3, QuietChanged
<1> QED BY <1>1, <1>4, QuietKept DEF m

LEMMA ReactedKept ==
  ASSUME IInv, NEW id, Has(id), NEW u \in People, NEW reacted \in BOOLEAN,
         Becomes(SetReaction(store, id, u, reacted))
  PROVE  Kept
<1>1. /\ IsStore(store) /\ id \in DOMAIN messages /\ messages[id].reactions \in SUBSET People
  BY Known DEF IInv, ChannelRight, MessageRecord
<1>2. PICK to : to = IF reacted THEN messages[id].reactions \cup {u} ELSE messages[id].reactions \ {u}
  OBVIOUS
<1>3. to \in SUBSET People
  BY <1>1, <1>2
<1>4. SetReaction(store, id, u, reacted) = Changed(store, id, [messages[id] EXCEPT !.reactions = to])
  BY <1>1, <1>2, ReactionParts DEF messages
<1> QED BY <1>3, <1>4, ReactionKept

LEMMA VotesKept ==
  ASSUME IInv, NEW id, Has(id), NEW u \in Users, NEW to \in SUBSET Answers,
         ~messages[id].poll.multi => \A a, b \in to : a = b,
         Becomes(SetVotes(store, id, u, to))
  PROVE  Kept
<1> DEFINE old == messages[id]
           m == Voted(old, u, to)
           p == [old.poll EXCEPT !.votes[u] = to]
<1>1. there /\ id \in DOMAIN messages /\ old \in MessageRecord /\ old.poll \in Poll
      /\ PollRight(old.poll, clock) /\ IsStore(store)
  BY Known DEF IInv, ChannelRight
<1>2. p = [old.poll EXCEPT !.votes = [old.poll.votes EXCEPT ![u] = to]]
  OBVIOUS
<1>3. [old.poll.votes EXCEPT ![u] = to] \in [Users -> SUBSET Answers]
  BY <1>1 DEF Poll
<1>4. p \in Poll /\ p.closed = old.poll.closed /\ p.expiry = old.poll.expiry /\ p.multi = old.poll.multi
      /\ p.votes = [old.poll.votes EXCEPT ![u] = to]
  BY <1>1, <1>2, <1>3 DEF Poll
<1>5. m = [old EXCEPT !.poll = p]
  BY DEF Voted
<1> HIDE DEF p, m
<1>6. /\ m \in MessageRecord /\ m.poll = p /\ m.owner = old.owner /\ m.pinned = old.pinned
      /\ m.from = old.from /\ m.loading = old.loading
  BY <1>1, <1>4, <1>5 DEF MessageRecord
<1>7. PollRight(p, clock)
  BY <1>1, <1>4 DEF PollRight, Poll
<1>8. Quiet(Changed(store, id, m))
  BY <1>1, <1>4, <1>6, <1>7, QuietChanged DEF MessageRight
<1>9. SetVotes(store, id, u, to) = Changed(store, id, m)
  BY <1>1, VotesParts DEF m, messages
<1> QED BY <1>1, <1>8, <1>9, QuietKept

LEMMA PersonKept ==
  ASSUME IInv, Person
  PROVE  Kept
<1> USE RightTypes, PollsRight
<1>1. ASSUME NEW u \in Users, NEW text \in Texts, Send(u, text) PROVE Kept
  <2>1. MessageRight(Message(u, text), clock)
    BY PlainRight DEF People
  <2>2. /\ Message(u, text).author = u /\ Message(u, text).of = 0 /\ Message(u, text).loading = FALSE
    BY DEF Message
  <2> QED BY <2>1, <2>2, <1>1, PostKept DEF Send
<1>2. ASSUME NEW u \in Users, NEW id \in Ids, Forward(u, id) PROVE Kept
  <2> DEFINE m == [Message(u, "plain") EXCEPT !.of = id]
  <2>1. MessageRight(Message(u, "plain"), clock) /\ id \in Nat
    BY PlainRight DEF People, Texts, Ids
  <2>2. m \in MessageRecord /\ m.poll = Message(u, "plain").poll /\ m.loading = FALSE /\ m.of = id /\ m.text = "plain"
    BY <2>1 DEF MessageRight, MessageRecord, Message
  <2>3. Post(m) /\ id \in DOMAIN messages /\ Public(messages[id]) /\ ~messages[id].loading
    BY <1>2 DEF Forward, Forwardable, Has, messages
  <2> HIDE DEF m
  <2> QED BY <2>1, <2>2, <2>3, PostKept DEF MessageRight
<1>3. ASSUME NEW u \in Users, NEW id \in Ids, Delete(u, id) PROVE Kept
  BY <1>3, EraseKept, Known DEF Delete, Sees
<1>4. ASSUME NEW u \in Users, NEW id \in Ids, NEW text \in Texts, EditOwn(u, id, text) PROVE Kept
  BY <1>4, EditKept DEF EditOwn, Sees
<1>5. ASSUME NEW u \in Users, NEW id \in Ids, NEW pinned \in BOOLEAN, SetPin(u, id, pinned) PROVE Kept
  BY <1>5, PinKept DEF SetPin, Sees, People
<1>6. ASSUME NEW u \in Users, NEW id \in Ids, NEW reacted \in BOOLEAN, React(u, id, reacted) PROVE Kept
  BY <1>6, ReactedKept DEF React, Sees, People
<1>7. ASSUME NEW u \in Users, NEW id \in Ids, NEW answer \in Answers, Vote(u, id, answer) PROVE Kept
  <2> DEFINE to == Selected(messages[id].poll, u, answer)
  <2>1. Has(id) /\ Becomes(SetVotes(store, id, u, to))
    BY <1>7 DEF Vote, Sees
  <2>2. messages[id].poll \in Poll
    BY <2>1, Known
  <2>3. to \in SUBSET Answers /\ (~messages[id].poll.multi => \A a, b \in to : a = b)
    BY <2>2 DEF Selected, Poll
  <2> HIDE DEF to
  <2> QED BY <2>1, <2>3, VotesKept
<1>8. ASSUME NEW u \in Users, NEW id \in Ids, NEW answer \in Answers, RemoveVote(u, id, answer) PROVE Kept
  <2> DEFINE to == messages[id].poll.votes[u] \ {answer}
  <2>1. Has(id) /\ Becomes(SetVotes(store, id, u, to))
    BY <1>8 DEF RemoveVote, Sees
  <2>2. messages[id].poll \in Poll /\ PollRight(messages[id].poll, clock)
    BY <2>1, Known
  <2>3. to \in SUBSET Answers /\ (~messages[id].poll.multi => \A a, b \in to : a = b)
    BY <2>2 DEF PollRight, Poll
  <2> HIDE DEF to
  <2> QED BY <2>1, <2>3, VotesKept
<1> QED BY <1>1, <1>2, <1>3, <1>4, <1>5, <1>6, <1>7, <1>8 DEF Person

LEMMA ProgramKept ==
  ASSUME IInv, Program
  PROVE  Kept
<1> USE RightTypes, PollsRight
<1>1. ASSUME NEW poll \in Polls \cup {NoPoll}, BotSend(poll) PROVE Kept
  <2> DEFINE m == [Message(Bot, "plain") EXCEPT !.poll = poll]
  <2>1. poll \in Poll /\ PollRight(poll, clock)
    BY PollsTyped
  <2>2. Message(Bot, "plain") \in MessageRecord
    BY PlainRight DEF People, Texts
  <2>3. m \in MessageRecord /\ m.poll = poll /\ m.loading = FALSE /\ m.of = 0 /\ m.text = "plain"
    BY <2>1, <2>2 DEF MessageRecord, Message
  <2>4. Post(m)
    BY <1>1 DEF BotSend
  <2> HIDE DEF m
  <2> QED BY <2>1, <2>3, <2>4, PostKept DEF MessageRight
<1>2. ASSUME NEW text \in Texts, WebhookSend(text) PROVE Kept
  <2>1. MessageRight(Message(Hook, text), clock)
    BY PlainRight
  <2>2. Message(Hook, text).author = Hook /\ Message(Hook, text).of = 0 /\ Message(Hook, text).loading = FALSE
    BY DEF Message
  <2> QED BY <2>1, <2>2, <1>2, PostKept DEF WebhookSend
<1>3. ASSUME NEW id \in Ids, BotForward(id) PROVE Kept
  <2> DEFINE m == [Message(Bot, "plain") EXCEPT !.of = id]
  <2>1. MessageRight(Message(Bot, "plain"), clock) /\ id \in Nat
    BY PlainRight DEF People, Texts, Ids
  <2>2. m \in MessageRecord /\ m.poll = Message(Bot, "plain").poll /\ m.loading = FALSE /\ m.of = id /\ m.text = "plain"
    BY <2>1 DEF MessageRight, MessageRecord, Message
  <2>3. Post(m) /\ id \in DOMAIN messages /\ Public(messages[id]) /\ ~messages[id].loading
    BY <1>3 DEF BotForward, Forwardable, Has, messages
  <2> HIDE DEF m
  <2> QED BY <2>1, <2>2, <2>3, PostKept DEF MessageRight
<1>4. ASSUME NEW id \in Ids, BotDelete(id) PROVE Kept
  BY <1>4, EraseKept, Known DEF BotDelete, Open
<1>5. ASSUME NEW id \in Ids, BotReact(id) PROVE Kept
  BY <1>5, ReactedKept DEF BotReact, Open, People
<1>6. ASSUME NEW id \in Ids, BotClear(id) PROVE Kept
  <2>1. Has(id) /\ Becomes(ClearReactions(store, id))
    BY <1>6 DEF BotClear, Open
  <2>2. ClearReactions(store, id) = Changed(store, id, [messages[id] EXCEPT !.reactions = {}])
    BY <2>1, ClearParts, Known DEF IInv, ChannelRight, messages
  <2> QED BY <2>1, <2>2, ReactionKept
<1>7. ASSUME NEW id \in Ids, ExpirePoll(id) PROVE Kept
  BY <1>7, QuietFinalize, QuietKept, Known DEF ExpirePoll, Open
<1>8. ASSUME NEW id \in Ids, WebhookDelete(id) PROVE Kept
  BY <1>8, EraseKept, Known DEF WebhookDelete
<1>9. ASSUME NEW id \in Ids, NEW text \in Texts, BotEdit(id, text, messages[id].poll) PROVE Kept
  BY <1>9, EditKept DEF BotEdit, Open
<1>10. ASSUME NEW id \in Ids, NEW text \in Texts, WebhookEdit(id, text) PROVE Kept
  BY <1>10, EditKept DEF WebhookEdit
<1>11. ASSUME NEW id \in Ids, NEW pinned \in BOOLEAN, BotPin(id, pinned) PROVE Kept
  BY <1>11, PinKept DEF BotPin, Open, People
<1>12. ASSUME NEW id \in Ids, NEW u \in People, BotUnreact(id, u) PROVE Kept
  BY <1>12, ReactedKept DEF BotUnreact, Open
<1>13. ASSUME NEW ids, BulkDelete(ids) PROVE Kept
  BY <1>13, EraseKept DEF BulkDelete
<1> QED BY <1>1, <1>2, <1>3, <1>4, <1>5, <1>6, <1>7, <1>8, <1>9, <1>10, <1>11, <1>12, <1>13 DEF Program

LEMMA NextKept ==
  ASSUME IInv, Next
  PROVE  Kept
<1>1. CASE SetFilter
  BY <1>1, NothingKept DEF SetFilter
<1> QED BY <1>1, PersonKept, ProgramKept, TickKept, DeleteChannelKept DEF Next

LEMMA BesideKept ==
  ASSUME IInv, Beside
  PROVE  Kept
<1>1. ASSUME NEW ids, BulkDelete(ids) PROVE Kept
  BY <1>1, EraseKept DEF BulkDelete
<1>2. ASSUME NEW id \in Ids, BotDelete(id) PROVE Kept
  BY <1>2, EraseKept, Known DEF BotDelete, Open
<1>3. ASSUME NEW id \in Ids, BotEdit(id, "plain", messages[id].poll) PROVE Kept
  BY <1>3, EditKept DEF BotEdit, Open, Texts
<1>4. ASSUME NEW id \in Ids, NEW poll \in Polls, BotEdit(id, "plain", poll) PROVE Kept
  BY <1>4, EditKept DEF BotEdit, Open, Texts
<1>5. ASSUME NEW id \in Ids, NEW u \in Users, Delete(u, id) \/ SetPin(u, id, TRUE)
             \/ \E answer \in Answers : Vote(u, id, answer)
      PROVE  Kept
  <2>1. CASE Delete(u, id) \/ \E answer \in Answers : Vote(u, id, answer)
    <3>1. Person
      BY <2>1 DEF Person
    <3> QED BY <3>1, PersonKept
  <2>2. CASE SetPin(u, id, TRUE)
    BY <2>2, PinKept DEF SetPin, Sees, People
  <2> QED BY <1>5, <2>1, <2>2
<1> QED BY <1>1, <1>2, <1>3, <1>4, <1>5, TickKept, DeleteChannelKept DEF Beside

-----------------------------------------------------------------------------
(* The interactions' actions *)

With(is) == [store EXCEPT !.interactions = is]

LEMMA WithParts ==
  ASSUME IInv, NEW is
  PROVE  /\ ChannelRight(With(is), issued, clock)
         /\ With(is).messages = messages /\ With(is).interactions = is
         /\ With(interactions) = store
<1>1. IsStore(store)
  BY DEF IInv, ChannelRight
<1>2. /\ IsStore(With(is)) /\ With(is).interactions = is /\ With(is).messages = store.messages
      /\ With(is).index = store.index /\ With(is).order = store.order
      /\ With(is).deadlines = store.deadlines /\ With(is).told = store.told
  BY <1>1 DEF With, IsStore, Parts
<1>3. ChannelRight(With(is), issued, clock)
  BY <1>2, SameRight DEF IInv
<1>4. With(interactions) = store
  BY <1>1 DEF With, interactions, IsStore, Parts
<1> QED BY <1>2, <1>3, <1>4 DEF messages

LEMMA TouchRight ==
  ASSUME IInv, NEW is, OwnedRight(messages, is, issued), store' = With(is),
         UNCHANGED <<issued, clock, filter, there>>
  PROVE  IInv' /\ AppearsRightly /\ Passing /\ messages' = messages /\ interactions' = is
<1>1. messages' = messages /\ interactions' = is /\ ChannelRight(store', issued, clock)
  BY WithParts DEF messages, interactions
<1>2. IInv'
  BY <1>1 DEF IInv
<1> QED BY <1>1, <1>2 DEF AppearsRightly, Passing, IInv, messages

LEMMA Counted ==
  ASSUME IInv
  PROVE  \E k \in 0..MaxInteractions :
           DOMAIN interactions = 1..k /\ Cardinality(DOMAIN interactions) = k
<1>1. PICK k \in 0..MaxInteractions : DOMAIN interactions = 1..k
  BY DEF IInv, OwnedRight
<1>2. Cardinality(1..k) = k
  BY <1>1, FS_Interval
<1> QED BY <1>1, <1>2

LEMMA AskKept ==
  ASSUME IInv, NEW is, NEW r, Ask(r, With(is)),
         OwnedRight(messages, is, issued), DOMAIN is = DOMAIN interactions,
         \A i \in DOMAIN is :
           /\ is[i].born = interactions[i].born /\ is[i].message = interactions[i].message
           /\ is[i].followups = interactions[i].followups /\ is[i].kind = interactions[i].kind,
         r \in InteractionRecord, r.kind = "none", r.born = clock, r.message = 0, r.followups = {},
         r.source \in 0..issued
  PROVE  Kept
<1>1. PICK k \in 0..MaxInteractions : DOMAIN interactions = 1..k /\ Cardinality(DOMAIN interactions) = k
  BY Counted
<1> DEFINE to == Put(is, k + 1, r)
<1>2. With(is).interactions = is
  BY WithParts
<1>3. [With(is) EXCEPT !.interactions = Put(is, k + 1, r)] = With(to)
  BY DEF With
<1>4. [With(is) EXCEPT !.interactions = Put(@, k + 1, r)] = [With(is) EXCEPT !.interactions = Put(is, k + 1, r)]
  BY <1>2
<1>5. k + 1 \in InteractionIds /\ store' = With(to) /\ UNCHANGED <<issued, clock, filter, there>>
  BY <1>1, <1>2, <1>3, <1>4 DEF Ask, Becomes
<1>6. OwnedRight(messages, to, issued)
  <2>1. 0 \in 0..issued
    BY DEF IInv
  <2> QED BY <1>1, <1>5, <2>1, OwnedAsk
<1>7. /\ DOMAIN to = DOMAIN interactions \cup {k + 1} /\ to[k + 1] = r /\ k + 1 \notin DOMAIN interactions
      /\ \A i \in DOMAIN interactions : to[i] = is[i]
  BY <1>1 DEF Put
<1> HIDE DEF to
<1>8. IInv' /\ AppearsRightly /\ Passing /\ interactions' = to
  BY <1>5, <1>6, TouchRight
<1>9. ASSUME NEW i \in InteractionIds PROVE Promise!Move(i)
  <2>1. CASE i = k + 1
    <3>1. i \in DOMAIN interactions' /\ interactions'[i] = r /\ i \notin DOMAIN interactions /\ clock' = clock
      BY <2>1, <1>5, <1>7, <1>8
    <3> QED BY <3>1, AskedMoves
  <2>2. CASE i # k + 1
    <3>1. Stays(i)
      BY <2>2, <1>7, <1>8 DEF Stays
    <3> QED BY <3>1, <1>8, StaysMoves
  <2> QED BY <2>1, <2>2
<1> QED BY <1>8, <1>9 DEF Kept

LEMMA Asked ==
  ASSUME IInv, NEW i \in DOMAIN interactions
  PROVE  /\ i \in InteractionIds /\ interactions[i] \in InteractionRecord
         /\ interactions[i].message \in 0..issued /\ interactions[i].source \in 0..issued
<1>1. i \in InteractionIds
  BY Counted, InteractionsAssumption DEF InteractionIds
<1> QED BY <1>1 DEF IInv, OwnedRight

LEMMA NewInteraction ==
  ASSUME IInv, NEW type \in {"command", "autocomplete", "component", "modal"}, NEW u \in Users,
         NEW source \in 0..issued
  PROVE  LET r == Interaction(type, u, source) IN
         /\ r \in InteractionRecord /\ r.kind = "none" /\ r.born = clock /\ r.message = 0
         /\ r.followups = {} /\ r.source \in 0..issued
  BY DEF Interaction, InteractionRecord, IInv

LEMMA InvokeKept ==
  ASSUME IInv, NEW u \in Users, NEW type \in {"command", "autocomplete"}, Invoke(u, type)
  PROVE  Kept
<1>1. With(interactions) = store /\ 0 \in 0..issued
  BY WithParts DEF IInv
<1>2. Ask(Interaction(type, u, 0), With(interactions))
  BY <1>1 DEF Invoke
<1>3. OwnedRight(messages, interactions, issued)
  BY DEF IInv
<1> DEFINE r == Interaction(type, u, 0)
<1>4. /\ r \in InteractionRecord /\ r.kind = "none" /\ r.born = clock /\ r.message = 0
      /\ r.followups = {} /\ r.source \in 0..issued
  BY <1>1, NewInteraction
<1> HIDE DEF r
<1>5. Ask(r, With(interactions))
  BY <1>2 DEF r
<1> QED BY <1>3, <1>4, <1>5, AskKept

LEMMA ClickKept ==
  ASSUME IInv, NEW u \in Users, NEW id, Click(u, id)
  PROVE  Kept
<1>1. With(interactions) = store /\ id \in 0..issued
  <2>1. id \in DOMAIN messages /\ DOMAIN messages \subseteq 1..issued /\ issued \in Nat
    BY Known DEF Click, Sees, IInv, ChannelRight, messages
  <2> QED BY <2>1, WithParts
<1> DEFINE r == Interaction("component", u, id)
<1>2. /\ r \in InteractionRecord /\ r.kind = "none" /\ r.born = clock /\ r.message = 0
      /\ r.followups = {} /\ r.source \in 0..issued
  BY <1>1, NewInteraction
<1>3. Ask(r, With(interactions))
  BY <1>1 DEF Click
<1>4. OwnedRight(messages, interactions, issued)
  BY DEF IInv
<1> HIDE DEF r
<1> QED BY <1>2, <1>3, <1>4, AskKept

LEMMA SubmitModalKept ==
  ASSUME IInv, NEW i, SubmitModal(i)
  PROVE  Kept
<1> DEFINE old == interactions[i]
           now == [old EXCEPT !.consumed = TRUE]
           is == [interactions EXCEPT ![i] = now]
           r == Interaction("modal", old.user, old.source)
<1>1. i \in DOMAIN interactions
  BY DEF SubmitModal
<1>2. old \in InteractionRecord /\ old.message \in 0..issued /\ old.source \in 0..issued /\ old.user \in Users
  BY <1>1, Asked DEF InteractionRecord
<1>3. /\ now \in InteractionRecord /\ now.kind = old.kind /\ now.message = old.message
      /\ now.source = old.source /\ now.user = old.user /\ now.private = old.private
      /\ now.born = old.born /\ now.followups = old.followups
  BY <1>2 DEF InteractionRecord
<1>4. /\ r \in InteractionRecord /\ r.kind = "none" /\ r.born = clock /\ r.message = 0
      /\ r.followups = {} /\ r.source \in 0..issued
  BY <1>2, NewInteraction
<1>5. [store EXCEPT !.interactions[i].consumed = TRUE] = With(is)
  BY DEF With, interactions, IInv, ChannelRight, IsStore, Parts
<1>6. Ask(r, With(is))
  BY <1>5 DEF SubmitModal
<1>7. /\ DOMAIN is = DOMAIN interactions /\ is[i] = now
      /\ \A j \in DOMAIN interactions : j # i => is[j] = interactions[j]
  BY <1>1
<1> HIDE DEF r, is, now
<1>8. \A j \in DOMAIN interactions :
        /\ is[j] \in InteractionRecord /\ is[j].message \in 0..issued /\ is[j].source \in 0..issued
        /\ Touched(interactions[j], is[j])
        /\ is[j].born = interactions[j].born /\ is[j].message = interactions[j].message
        /\ is[j].followups = interactions[j].followups /\ is[j].kind = interactions[j].kind
  BY <1>2, <1>3, <1>7, Asked DEF Touched
<1>9. OwnedRight(messages, is, issued)
  BY <1>7, <1>8, OwnedTouch DEF IInv
<1> QED BY <1>4, <1>6, <1>7, <1>8, <1>9, AskKept

LEMMA Marked ==
  ASSUME IInv, NEW i, Answerable(i), NEW message \in 0..issued,
         NEW kind \in {"message", "deferred", "deferred_update", "update", "modal", "autocomplete"}
  PROVE  LET r == Mark(i, kind, message) IN
         /\ r \in InteractionRecord /\ r.kind = kind /\ r.message = message
         /\ r.source = interactions[i].source /\ r.born = interactions[i].born
         /\ r.followups = interactions[i].followups
         /\ interactions[i].kind = "none" /\ i \in DOMAIN interactions
<1>1. interactions[i] \in InteractionRecord /\ i \in DOMAIN interactions /\ interactions[i].kind = "none"
  BY Asked DEF Answerable, Responded
<1>2. message \in Nat
  BY DEF IInv
<1> QED BY <1>1, <1>2 DEF Mark, InteractionRecord

LEMMA MarkKept ==
  ASSUME IInv, NEW i, Answerable(i), NEW message \in 0..issued,
         NEW kind \in {"deferred_update", "update", "modal", "autocomplete"},
         Becomes([store EXCEPT !.interactions[i] = Mark(i, kind, message)])
  PROVE  Kept
<1> DEFINE r == Mark(i, kind, message)
           is == [interactions EXCEPT ![i] = r]
<1>1. /\ r \in InteractionRecord /\ r.kind = kind /\ r.message = message
      /\ r.source = interactions[i].source /\ r.born = interactions[i].born
      /\ r.followups = interactions[i].followups
      /\ interactions[i].kind = "none" /\ i \in DOMAIN interactions
  BY Marked
<1>2. [store EXCEPT !.interactions[i] = r] = With(is)
  BY DEF With, interactions, IInv, ChannelRight, IsStore, Parts
<1>3. store' = With(is) /\ UNCHANGED <<issued, clock, filter, there>>
  BY <1>2 DEF Becomes
<1>4. /\ DOMAIN is = DOMAIN interactions /\ is[i] = r
      /\ \A j \in DOMAIN interactions : j # i => is[j] = interactions[j]
  BY <1>1
<1> HIDE DEF r, is
<1>5. \A j \in DOMAIN interactions :
        /\ is[j] \in InteractionRecord /\ is[j].message \in 0..issued /\ is[j].source \in 0..issued
        /\ Touched(interactions[j], is[j])
  BY <1>1, <1>4, Asked DEF Touched, HasOriginal
<1>6. OwnedRight(messages, is, issued)
  BY <1>4, <1>5, OwnedTouch DEF IInv
<1>7. IInv' /\ AppearsRightly /\ Passing /\ interactions' = is
  BY <1>3, <1>6, TouchRight
<1>8. ASSUME NEW j \in InteractionIds PROVE Promise!Move(j)
  <2>1. CASE j = i
    <3>1. j \in DOMAIN interactions' /\ interactions'[j] = r /\ clock' = clock /\ Answerable(j)
      BY <2>1, <1>1, <1>3, <1>4, <1>7
    <3> QED BY <3>1, <2>1, <1>1, AnsweredMoves
  <2>2. CASE j # i
    <3>1. Stays(j)
      BY <2>2, <1>4, <1>7 DEF Stays
    <3> QED BY <3>1, <1>7, StaysMoves
  <2> QED BY <2>1, <2>2
<1> QED BY <1>7, <1>8 DEF Kept

LEMMA UpdateSourceKept ==
  ASSUME IInv, NEW i, NEW text \in Texts, UpdateSource(i, text)
  PROVE  Kept
<1> DEFINE source == interactions[i].source
           poll == messages[source].poll
           edited == Edit(store, source, text, poll)
           mid == Completed(store, source)
           r == Mark(i, "update", source)
           is == [mid EXCEPT ![i] = r]
           st == [edited EXCEPT !.interactions[i] = r]
<1>1. Answerable(i) /\ Has(source) /\ i \in DOMAIN interactions
  BY DEF UpdateSource, Answerable
<1>2. /\ there /\ source \in DOMAIN messages /\ messages[source] \in MessageRecord
      /\ poll \in Poll /\ PollRight(poll, clock)
  BY <1>1, Known
<1>3. source \in 0..issued
  BY <1>1, Asked
<1>4. /\ r \in InteractionRecord /\ r.kind = "update" /\ r.message = source
      /\ r.source = interactions[i].source /\ r.born = interactions[i].born
      /\ r.followups = interactions[i].followups
      /\ interactions[i].kind = "none"
  BY <1>1, <1>3, Marked
<1>5. ChannelRight(edited, issued, clock) /\ Edits(store, source, text, poll, edited)
  BY <1>2, EditRight DEF IInv, messages
<1>6. store' = st /\ UNCHANGED <<issued, clock, filter, there>>
  BY DEF UpdateSource, Becomes
<1>7. edited.messages = [messages EXCEPT ![source] = Edited(@, text, poll)] /\ edited.interactions = mid
      /\ IsStore(edited)
  BY <1>5 DEF Edits, messages
<1> HIDE DEF edited
<1>8. /\ IsStore(st) /\ st.messages = edited.messages /\ st.interactions = is
      /\ st.index = edited.index /\ st.order = edited.order
      /\ st.deadlines = edited.deadlines /\ st.told = edited.told
  BY <1>7 DEF IsStore, Parts
<1>9. ChannelRight(st, issued, clock)
  BY <1>5, <1>8, SameRight
<1>10. /\ OwnedRight([messages EXCEPT ![source] = Edited(@, text, poll)], mid, issued)
       /\ DOMAIN mid = DOMAIN interactions
       /\ \A j \in DOMAIN interactions : Settled(messages, interactions[j], mid[j])
  BY <1>2, OwnedEdit DEF IInv, messages, interactions
<1> HIDE DEF mid, st
<1>11. mid[i] = interactions[i]
  BY <1>1, <1>4, <1>10 DEF Settled
<1>12. /\ DOMAIN is = DOMAIN mid /\ is[i] = r /\ \A j \in DOMAIN mid : j # i => is[j] = mid[j]
  BY <1>1, <1>10
<1> HIDE DEF r, is
<1>13. \A j \in DOMAIN mid :
         /\ is[j] \in InteractionRecord /\ is[j].message \in 0..issued /\ is[j].source \in 0..issued
         /\ Touched(mid[j], is[j])
  <2>1. \A j \in DOMAIN mid :
          mid[j] \in InteractionRecord /\ mid[j].message \in 0..issued /\ mid[j].source \in 0..issued
    BY <1>10 DEF OwnedRight
  <2>2. ~HasOriginal(r)
    BY <1>4 DEF HasOriginal
  <2> QED BY <2>1, <2>2, <1>3, <1>4, <1>11, <1>12 DEF Touched
<1>14. OwnedRight(st.messages, st.interactions, issued)
  BY <1>7, <1>8, <1>10, <1>12, <1>13, OwnedTouch
<1>15. messages' = st.messages /\ interactions' = is /\ DOMAIN messages' = DOMAIN messages
  BY <1>6, <1>7, <1>8 DEF messages, interactions
<1>16. IInv'
  BY <1>6, <1>9, <1>14, <1>15, <1>8 DEF IInv
<1>17. AppearsRightly /\ Passing
  BY <1>6, <1>15 DEF AppearsRightly, Passing, IInv, messages
<1>18. ASSUME NEW j \in InteractionIds PROVE Promise!Move(j)
  <2>1. CASE j = i
    <3>1. j \in DOMAIN interactions' /\ interactions'[j] = r /\ clock' = clock /\ Answerable(j)
      BY <2>1, <1>1, <1>6, <1>10, <1>12, <1>15
    <3> QED BY <3>1, <2>1, <1>4, AnsweredMoves
  <2>2. CASE j # i
    <3>1. j \in DOMAIN interactions => Settled(messages, interactions[j], interactions'[j])
      BY <2>2, <1>10, <1>12, <1>15
    <3>2. DOMAIN interactions' = DOMAIN interactions
      BY <1>10, <1>12, <1>15
    <3> QED BY <3>1, <3>2, <1>2, <1>16, <1>17, SettledStays, StaysMoves
  <2> QED BY <2>1, <2>2
<1> QED BY <1>16, <1>17, <1>18 DEF Kept

LEMMA AnswerRight ==
  ASSUME IInv, NEW i \in DOMAIN interactions, NEW private, NEW loading \in BOOLEAN
  PROVE  LET m == AnswerFor(i, private, loading) IN
         /\ MessageRight(m, clock) /\ m.from = i /\ m.loading = loading
         /\ m.owner = IF private THEN interactions[i].user ELSE Everyone
         /\ MayAppear(m)
<1> DEFINE m == AnswerFor(i, private, loading)
           owner == IF private THEN interactions[i].user ELSE Everyone
           a == [Message(Bot, "plain") EXCEPT !.owner = owner, !.from = i]
<1>1. Message(Bot, "plain") \in MessageRecord /\ Message(Bot, "plain").poll = NoPoll
      /\ Message(Bot, "plain").text = "plain" /\ Message(Bot, "plain").of = 0
  BY RightTypes DEF Message, People, Texts
<1>2. owner \in Users \cup {Everyone} /\ i \in Nat
  BY Asked DEF InteractionRecord, InteractionIds
<1> HIDE DEF owner
<1>3. a \in MessageRecord /\ a.poll = NoPoll /\ a.text = "plain" /\ a.of = 0 /\ a.owner = owner /\ a.from = i
  BY <1>1, <1>2 DEF MessageRecord
<1>4. m = [a EXCEPT !.loading = loading]
  BY DEF AnswerFor, owner
<1> HIDE DEF a, m
<1>5. m \in MessageRecord
  BY <1>3, <1>4, Zenon DEF MessageRecord
<1>6. /\ m.poll = NoPoll /\ m.text = "plain" /\ m.of = 0 /\ m.owner = owner /\ m.from = i
      /\ m.loading = loading
  BY <1>3, <1>4 DEF MessageRecord
<1>7. MessageRight(m, clock)
  BY <1>5, <1>6, PollsRight DEF MessageRight
<1>8. MayAppear(m)
  BY <1>6 DEF MayAppear
<1> QED BY <1>6, <1>7, <1>8 DEF m, owner

LEMMA RespondKept ==
  ASSUME IInv, NEW i, NEW private \in BOOLEAN, NEW kind \in {"message", "deferred"},
         Respond(i, private, kind)
  PROVE  Kept
<1> DEFINE r == [Mark(i, kind, issued + 1) EXCEPT !.private = private]
           is == [interactions EXCEPT ![i] = r]
           loading == kind = "deferred"
           m == AnswerFor(i, private, loading)
<1>1. /\ Answerable(i) /\ there /\ issued' = NewId /\ UNCHANGED <<clock, filter, there>>
      /\ i \in DOMAIN interactions /\ interactions[i].kind = "none"
  BY DEF Respond, Fresh, Answerable, Responded
<1>2. store' = Commit([store EXCEPT !.interactions[i] = r], NewId, m)
  BY DEF Respond, NewId
<1>3. [store EXCEPT !.interactions[i] = r] = With(is)
  BY DEF With, interactions, IInv, ChannelRight, IsStore, Parts
<1>4. /\ MessageRight(m, clock) /\ m.from = i /\ m.loading = (kind = "deferred")
      /\ m.owner = IF private THEN interactions[i].user ELSE Everyone
      /\ MayAppear(m)
  <2>1. loading \in BOOLEAN /\ loading = (kind = "deferred")
    OBVIOUS
  <2> HIDE DEF loading
  <2>2. /\ MessageRight(m, clock) /\ m.from = i /\ m.loading = loading
        /\ m.owner = IF private THEN interactions[i].user ELSE Everyone
        /\ MayAppear(m)
    BY <1>1, <2>1, AnswerRight, ZenonT(60)
  <2> QED BY <2>1, <2>2
<1>5. is = [interactions EXCEPT ![i] = [@ EXCEPT !.kind = kind, !.message = issued + 1, !.private = private]]
  BY DEF Mark
<1>6. /\ ChannelRight(With(is), issued, clock) /\ With(is).messages = messages
      /\ With(is).interactions = is
  BY WithParts
<1>7. issued \in Nat /\ DOMAIN messages \subseteq 1..issued /\ OwnedRight(messages, interactions, issued)
  BY DEF IInv, ChannelRight, messages
<1>8. interactions[i] \in InteractionRecord
  BY <1>1, Asked
<1>9. /\ DOMAIN is = DOMAIN interactions /\ is[i] = r
      /\ \A j \in DOMAIN interactions : j # i => is[j] = interactions[j]
  BY <1>1
<1>10. r.kind = kind /\ r.message = issued + 1 /\ r.born = interactions[i].born
       /\ r.followups = interactions[i].followups
  BY <1>8 DEF Mark, InteractionRecord
<1> HIDE DEF r, is, m
<1>11. OwnedRight(Put(messages, issued + 1, m), is, issued + 1)
  BY <1>1, <1>4, <1>5, <1>7, OwnedAnswer
<1>12. /\ IInv' /\ AppearsRightly /\ Passing
       /\ messages' = Put(messages, NewId, m) /\ interactions' = is
  <2>1. store' = Commit(With(is), NewId, m)
    BY <1>2, <1>3
  <2>2. DOMAIN With(is).messages \subseteq DOMAIN messages
    BY <1>6
  <2>3. OwnedRight(Put(With(is).messages, issued + 1, m), With(is).interactions, issued + 1)
    BY <1>6, <1>11
  <2> HIDE DEF With
  <2> QED BY <1>1, <1>4, <1>6, <2>1, <2>2, <2>3, SaidRight
<1>13. ASSUME NEW j \in InteractionIds PROVE Promise!Move(j)
  <2>1. CASE j = i
    <3>1. j \in DOMAIN interactions' /\ interactions'[j] = r /\ clock' = clock /\ Answerable(j)
      BY <2>1, <1>1, <1>9, <1>12
    <3>2. Has(interactions[j].message)'
      BY <2>1, <1>1, <1>10, <1>12, <3>1 DEF Has, Put, NewId
    <3> QED BY <3>1, <3>2, <2>1, <1>10, AnsweredMoves
  <2>2. CASE j # i
    <3>1. Stays(j)
      BY <2>2, <1>9, <1>12 DEF Stays
    <3> QED BY <3>1, <1>12, StaysMoves
  <2> QED BY <2>1, <2>2
<1> QED BY <1>12, <1>13 DEF Kept

LEMMA FollowupKept ==
  ASSUME IInv, NEW i, NEW private \in BOOLEAN, Followup(i, private)
  PROVE  Kept
<1>1. CASE Loading(i) /\ EditOriginal(i, "plain", NoPoll)
  BY <1>1, EditKept DEF EditOriginal, Texts
<1>2. CASE ~Loading(i) /\ Fresh /\ issued' = NewId /\ UNCHANGED <<clock, filter, there>>
           /\ store' = Commit([store EXCEPT !.interactions[i].followups = @ \cup {NewId}],
                              NewId, AnswerFor(i, private, FALSE))
  <2> DEFINE old == interactions[i]
             r == [old EXCEPT !.followups = old.followups \cup {issued + 1}]
             is == [interactions EXCEPT ![i] = r]
             m == AnswerFor(i, private, FALSE)
  <2>1. there /\ TokenLives(i) /\ i \in DOMAIN interactions
    BY <1>2 DEF Followup, Fresh, TokenLives
  <2>2. [store EXCEPT !.interactions[i].followups = @ \cup {NewId}] = With(is)
    BY DEF With, interactions, IInv, ChannelRight, IsStore, Parts, NewId
  <2>3. old \in InteractionRecord /\ old.message \in 0..issued /\ old.source \in 0..issued /\ issued \in Nat
    BY <2>1, Asked DEF IInv
  <2>4. /\ r \in InteractionRecord /\ r.kind = old.kind /\ r.message = old.message
        /\ r.private = old.private /\ r.user = old.user /\ r.born = old.born /\ r.source = old.source
        /\ old.followups \subseteq r.followups
    BY <2>3 DEF InteractionRecord
  <2>5. /\ DOMAIN is = DOMAIN interactions /\ is[i] = r
        /\ \A j \in DOMAIN interactions : j # i => is[j] = interactions[j]
    BY <2>1
  <2>6. MessageRight(m, clock) /\ m.loading = FALSE /\ MayAppear(m)
    BY <2>1, AnswerRight
  <2> HIDE DEF r, is, m
  <2>7. \A j \in DOMAIN interactions :
          /\ is[j] \in InteractionRecord /\ is[j].message \in 0..issued /\ is[j].source \in 0..issued
          /\ Touched(interactions[j], is[j])
    BY <2>3, <2>4, <2>5, Asked DEF Touched
  <2>8. OwnedRight(messages, is, issued)
    BY <2>5, <2>7, OwnedTouch DEF IInv
  <2>9. OwnedRight(Put(messages, issued + 1, m), is, issued + 1)
    BY <2>6, <2>8, OwnedPut DEF IInv, ChannelRight, messages
  <2>10. /\ ChannelRight(With(is), issued, clock) /\ With(is).messages = messages
         /\ With(is).interactions = is
    BY WithParts
  <2>11. IInv' /\ AppearsRightly /\ Passing /\ interactions' = is
    <3>1. store' = Commit(With(is), NewId, m)
      BY <1>2, <2>2 DEF m
    <3>2. DOMAIN With(is).messages \subseteq DOMAIN messages
      BY <2>10
    <3>3. OwnedRight(Put(With(is).messages, issued + 1, m), With(is).interactions, issued + 1)
      BY <2>9, <2>10
    <3> HIDE DEF With
    <3> QED BY <1>2, <2>1, <2>6, <2>10, <3>1, <3>2, <3>3, SaidRight
  <2>12. ASSUME NEW j \in InteractionIds PROVE Promise!Move(j)
    <3>1. CASE j = i
      <4>1. j \in DOMAIN interactions' /\ interactions'[j] = r /\ clock' = clock
            /\ TokenLives(j) /\ ~Loading(j)
        BY <3>1, <1>2, <2>1, <2>5, <2>11
      <4> QED BY <4>1, <3>1, <2>4, SpokeMoves
    <3>2. CASE j # i
      <4>1. Stays(j)
        BY <3>2, <2>5, <2>11 DEF Stays
      <4> QED BY <4>1, <2>11, StaysMoves
    <3> QED BY <3>1, <3>2
  <2> QED BY <2>11, <2>12 DEF Kept
<1> QED BY <1>1, <1>2 DEF Followup

LEMMA AnsweringKept ==
  ASSUME IInv, NEW i, Answering(i)
  PROVE  Kept
<1>1. ASSUME NEW private \in BOOLEAN, NEW kind \in {"message", "deferred"}, Respond(i, private, kind)
      PROVE  Kept
  BY <1>1, RespondKept
<1>2. ASSUME DeferUpdate(i) PROVE Kept
  <2>1. Answerable(i) /\ interactions[i].source \in 0..issued
    BY <1>2, Asked DEF DeferUpdate, Answerable
  <2> QED BY <2>1, <1>2, MarkKept DEF DeferUpdate
<1>3. ASSUME ShowModal(i) PROVE Kept
  <2>1. 0 \in 0..issued
    BY DEF IInv
  <2> QED BY <2>1, <1>3, MarkKept DEF ShowModal
<1>4. ASSUME CompleteAutocomplete(i) PROVE Kept
  <2>1. 0 \in 0..issued
    BY DEF IInv
  <2> QED BY <2>1, <1>4, MarkKept DEF CompleteAutocomplete
<1>5. ASSUME UpdateSource(i, "plain") PROVE Kept
  BY <1>5, UpdateSourceKept DEF Texts
<1> QED BY <1>1, <1>2, <1>3, <1>4, <1>5 DEF Answering

LEMMA ContinuingKept ==
  ASSUME IInv, NEW i, Continuing(i)
  PROVE  Kept
<1>1. ASSUME NEW private \in BOOLEAN, Followup(i, private) PROVE Kept
  BY <1>1, FollowupKept
<1>2. ASSUME DeleteOriginal(i) PROVE Kept
  BY <1>2, EraseKept, Known DEF DeleteOriginal
<1>3. ASSUME NEW poll \in Polls, EditOriginal(i, "plain", poll) PROVE Kept
  BY <1>3, EditKept DEF EditOriginal, Texts
<1>4. ASSUME EditOriginal(i, "plain", messages[interactions[i].message].poll) PROVE Kept
  BY <1>4, EditKept DEF EditOriginal, Texts
<1>5. ASSUME NEW id, DeleteFollowup(i, id) PROVE Kept
  BY <1>5, EraseKept, Known DEF DeleteFollowup, OfInteraction
<1>6. ASSUME NEW id, EditFollowup(i, id, "plain") PROVE Kept
  BY <1>6, EditKept DEF EditFollowup, OfInteraction, Texts
<1> QED BY <1>1, <1>2, <1>3, <1>4, <1>5, <1>6 DEF Continuing

LEMMA StepKept ==
  ASSUME IInv, AllNext
  PROVE  Kept
<1>1. CASE InteractionNext
  BY <1>1, InvokeKept, ClickKept, SubmitModalKept, AnsweringKept, ContinuingKept DEF InteractionNext
<1> QED BY <1>1, NextKept, BesideKept DEF AllNext

LEMMA IdleKept ==
  ASSUME IInv, UNCHANGED vars
  PROVE  Kept
  BY NothingKept DEF vars

LEMMA InitIInv == Init => IInv
<1> SUFFICES ASSUME Init PROVE IInv
  OBVIOUS
<1>1. store = Empty /\ issued = 0 /\ clock = 0 /\ there = TRUE
  BY DEF Init
<1>2. ChannelRight(store, issued, clock)
  BY <1>1, EmptyParts, EmptyRight
<1>3. messages = <<>> /\ interactions = <<>>
  BY <1>1, EmptyParts DEF messages, interactions
<1>4. OwnedRight(messages, interactions, issued)
  <2>1. DOMAIN interactions = 1..0 /\ DOMAIN messages = {} /\ DOMAIN interactions = {}
    BY <1>3
  <2>2. 0 \in 0..MaxInteractions
    BY InteractionsAssumption
  <2> QED BY <2>1, <2>2 DEF OwnedRight
<1> QED BY <1>1, <1>2, <1>4 DEF IInv

LEMMA Invariance == AllSpec => []IInv
<1>1. IInv /\ [AllNext]_vars => IInv'
  BY StepKept, IdleKept DEF Kept
<1> QED BY InitIInv, <1>1, PTL DEF AllSpec

-----------------------------------------------------------------------------
(* What follows *)

\* Whatever is sent while the rule blocks passes it, and what is forwarded was
\* public: the rule, its exemptions and the forwards meet in Post and nowhere
\* else, whoever sends and whatever interaction it answers.
THEOREM FilterAlwaysHolds == AllSpec => FilterHolds
<1>1. IInv /\ [AllNext]_vars => [AppearsRightly]_vars
  BY StepKept DEF Kept
<1> QED BY <1>1, Invariance, PTL DEF AllSpec, FilterHolds

\* Every step answers the interactions as Replies promises: an answer is given
\* once and in time or never, and nothing is said for one that lapsed.
THEOREM AnswersImplementReplies == AllSpec => ImplementsReplies
<1>1. Init => Promise!Init
  <2> SUFFICES ASSUME Init PROVE Promise!Init
    OBVIOUS
  <2>1. DOMAIN interactions = {}
    BY EmptyParts DEF Init, interactions
  <2> QED BY <2>1 DEF Promise!Init, State, Original, Spoken, Tired
<1>2. IInv /\ [AllNext]_vars => Promise!Next
  BY StepKept, IdleKept DEF Kept, Promise!Next
<1> QED BY <1>1, <1>2, Invariance, PTL DEF AllSpec, ImplementsReplies, Promise!Spec

\* Lists, pins, registration orders, deadlines and what listeners were told
\* follow the messages; polls close in time; a message "thinks" exactly for the
\* interaction that is still being answered.
THEOREM MessagesAreSound == AllSpec => []MessagesSound
<1>1. IInv => StoreFollows
  <2> SUFFICES ASSUME IInv PROVE StoreFollows
    OBVIOUS
  <2>1. /\ DOMAIN messages \subseteq 1..issued /\ store.order = DOMAIN messages
        /\ store.index = SetToBag(AllKeys(messages))
        /\ store.deadlines = Deadlines(messages)
        /\ \A id \in DOMAIN messages : messages[id] \in MessageRecord
    BY DEF IInv, ChannelRight, MessageRight, Deadlines, messages
  <2>2. /\ BagToSet(store.index) = AllKeys(messages)
        /\ \A key \in DOMAIN store.index : store.index[key] = 1
        /\ \A key : BagIn(key, store.index) <=> key \in AllKeys(messages)
    BY <2>1 DEF SetToBag, BagToSet, BagIn
  <2>3. store.deadlines =
          [id \in {x \in DOMAIN messages : ~messages[x].poll.closed} |-> messages[id].poll.expiry]
    BY <2>1 DEF Deadlines, OpenPolls
  <2>4. ASSUME NEW u \in Users \cup {Everyone}, NEW pinned \in BOOLEAN
        PROVE  Listed(store, u, pinned) =
                 {id \in DOMAIN messages : VisibleTo(messages[id], u) /\ (pinned => messages[id].pinned)}
    <3>1. ASSUME NEW id \in DOMAIN messages, NEW o
          PROVE  <<o, pinned, id>> \in AllKeys(messages) <=>
                   o = messages[id].owner /\ (pinned => messages[id].pinned)
      <4>1. messages[id].pinned \in BOOLEAN
        BY <2>1 DEF MessageRecord
      <4>2. <<o, pinned, id>> \in Keys(messages[id], id) <=>
              o = messages[id].owner /\ (pinned => messages[id].pinned)
        BY <4>1 DEF Keys
      <4>3. <<o, pinned, id>> \in AllKeys(messages) <=> <<o, pinned, id>> \in Keys(messages[id], id)
        BY KeyOf DEF AllKeys
      <4> QED BY <4>2, <4>3
    <3>2. Listed(store, u, pinned) =
            {id \in DOMAIN messages : \E o \in {Everyone, u} : <<o, pinned, id>> \in AllKeys(messages)}
      <4>1. \A id, o : BagIn(<<o, pinned, id>>, store.index) <=> <<o, pinned, id>> \in AllKeys(messages)
        BY <2>2
      <4>2. Listed(store, u, pinned) =
              {id \in DOMAIN messages : \E o \in {Everyone, u} : BagIn(<<o, pinned, id>>, store.index)}
        BY DEF Listed, messages
      <4> QED BY <4>1, <4>2
    <3>3. ASSUME NEW id \in DOMAIN messages
          PROVE  (\E o \in {Everyone, u} : <<o, pinned, id>> \in AllKeys(messages)) <=>
                   VisibleTo(messages[id], u) /\ (pinned => messages[id].pinned)
      BY <3>1 DEF VisibleTo
    <3> QED BY <3>2, <3>3
  <2> QED BY <2>1, <2>2, <2>3, <2>4 DEF StoreFollows, AllKeys
<1>2. IInv => PollsClose
  BY DEF IInv, ChannelRight, MessageRight, PollRight, PollsClose, messages
<1>3. IInv => ListenersFollow
  BY DEF IInv, ChannelRight, Shown, ListenersFollow, messages
<1>4. IInv => ThinkingOwned
  BY DEF IInv, OwnedRight, ThinkingOwned, HasOriginal, Loading
<1> QED BY <1>1, <1>2, <1>3, <1>4, Invariance, PTL DEF MessagesSound
=============================================================================
