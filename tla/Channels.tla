------------------------------- MODULE Channels -------------------------------
(***************************************************************************)
(* The channels and threads of one guild and the DM channels, with what    *)
(* hangs on them: histories, thread members, stage instances, webhooks.    *)
(* The bot's requests pass the checks of their routes; its permissions     *)
(* suffice for every channel, so a check fails only when something it      *)
(* reads is gone; a request that fails it changes nothing and is no step.  *)
(*                                                                         *)
(* Left out: names other than blank ones, positions, categories,           *)
(* overwrites, archiving, private threads, tags, attachments.              *)
(***************************************************************************)
EXTENDS Naturals, FiniteSets, Bags, BagsExt

CONSTANTS
  Bot,
  Users,   \* the people of the test
  Kinds,   \* bound: kinds of channels the test makes
  MaxIds,  \* bound: ids given to channels, messages and webhooks
  MaxCopies,   \* bound: times one message has a thread made from it
  MaxWebhooks  \* bound: webhooks at a time

GuildKinds == {"text", "stage", "forum"}

ASSUME ChannelsAssumption ==
  Bot \notin Users /\ Kinds \subseteq GuildKinds /\ {MaxIds, MaxCopies, MaxWebhooks} \subseteq Nat

VARIABLES
  there,      \* whether the bot is in the guild
  members,    \* the guild's members, of Users
  channels,   \* id -> Channel
  channelIds, \* guild.channel_ids
  threadIds,  \* guild.thread_ids, a bag: an id can be listed twice
  messages,   \* channel id -> ids of its history
  order,      \* ids with a registration order
  stages,     \* channels with a live stage instance
  webhooks,   \* id -> channel id
  dms,        \* user -> id of the DM channel
  issued,     \* ids given out so far
  outcome     \* of the last call: an error can come after a change

store == <<there, members, channels, channelIds, threadIds, messages, order,
           stages, webhooks, dms>>
vars == <<store, issued, outcome>>

Ids == 1..MaxIds
Channel == [kind : GuildKinds \cup {"thread", "dm"}, parent : 0..MaxIds,
            thread_members : SUBSET (Users \cup {Bot})]

Plain(kind) == [kind |-> kind, parent |-> 0, thread_members |-> {}]
Thread(p) == [kind |-> "thread", parent |-> p, thread_members |-> {Bot}]

IsThread(c) == channels[c].kind = "thread"
IsDm(c) == channels[c].kind = "dm"

Init ==
  /\ there = TRUE /\ members = Users
  /\ channels = <<>> /\ channelIds = {} /\ threadIds = EmptyBag
  /\ messages = <<>> /\ order = {} /\ stages = {} /\ webhooks = <<>>
  /\ dms = <<>> /\ issued = 0 /\ outcome = "ok"

-----------------------------------------------------------------------------
(* Helpers *)

New == issued + 1
CanIssue(n) == issued + n <= MaxIds
Issue(n) == CanIssue(n) /\ issued' = issued + n

\* How often the guild's list of threads names an id.
Copies(id) == IF BagIn(id, threadIds) THEN threadIds[id] ELSE 0

Put(f, x, y) == [z \in DOMAIN f \cup {x} |-> IF z = x THEN y ELSE f[z]]
Without(f, S) == [x \in DOMAIN f \ S |-> f[x]]

\* The bot's requests find the channel and may use it: a thread asks its
\* parent, a guild channel its guild.
Reach(c) ==
  /\ c \in DOMAIN channels
  /\ \/ IsDm(c)
     \/ there /\ (IsThread(c) => channels[c].parent \in DOMAIN channels)

ReachThread(c) == Reach(c) /\ IsThread(c)

\* An id that is in use again keeps its history and gets a new record.
Register(c, channel) ==
  /\ channels' = Put(channels, c, channel)
  /\ order' = order \cup {c}

\* Mutant: registration orders stay behind.
DropKeepsOrder(S) ==
  /\ channels' = Without(channels, S)
  /\ messages' = Without(messages, S)
  /\ UNCHANGED order

\* Forgets channels with their histories.
Drop(S) ==
  /\ channels' = Without(channels, S)
  /\ messages' = Without(messages, S)
  /\ order' = order \ S

Answer(result) == outcome' = result
Finish == Answer("ok")

-----------------------------------------------------------------------------
(* Channels *)

\* The channel is registered before the guild is looked up: a handle of a
\* guild that is gone leaves it behind.
CreateChannel(kind) ==
  /\ Issue(1)
  /\ Register(New, Plain(kind))
  /\ messages' = Put(messages, New, {})
  /\ IF there
       THEN channelIds' = channelIds \cup {New} /\ Finish
       ELSE UNCHANGED <<channelIds>> /\ Answer("rejected")
  /\ UNCHANGED <<there, members, threadIds, stages, webhooks, dms>>

\* Of an id that is listed twice one copy stays; threads and webhooks of the
\* channel, and the entry of a DM, stay too.
DeleteChannel(c) ==
  /\ Reach(c)
  /\ stages' = stages \ {c}
  /\ Drop({c})
  /\ channelIds' = channelIds \ {c}
  /\ threadIds' = BagRemove(threadIds, c)
  /\ Finish
  /\ UNCHANGED <<there, members, webhooks, dms, issued>>

\* A DM channel that was deleted is still looked up by its id.
GetDmChannel(u) ==
  \/ /\ u \in DOMAIN dms
     /\ Answer(IF dms[u] \in DOMAIN channels THEN "ok" ELSE "crashed")
     /\ UNCHANGED <<store, issued>>
  \/ /\ u \notin DOMAIN dms
     /\ Issue(1)
     /\ Register(New, Plain("dm"))
     /\ messages' = Put(messages, New, {})
     /\ dms' = Put(dms, u, New)
     /\ Finish
     /\ UNCHANGED <<there, members, channelIds, threadIds, stages, webhooks>>

-----------------------------------------------------------------------------
(* Threads. The notice "started a thread" in the parent carries the         *)
(* thread's name: with a blank one it is rejected as an empty message,      *)
(* after the thread was made and announced.                                 *)

\* A thread made over again keeps its history.
History(t) == IF t \in DOMAIN messages THEN messages ELSE Put(messages, t, {})

StartThread(t, p, notice, blank) ==
  /\ Register(t, Thread(p))
  /\ threadIds' = BagAdd(threadIds, t)
  /\ messages' = IF blank THEN History(t) ELSE [History(t) EXCEPT ![p] = @ \cup {notice}]
  /\ Answer(IF blank THEN "rejected" ELSE "ok")
  /\ UNCHANGED <<there, members, channelIds, stages, webhooks, dms>>

CreateThread(p, blank) ==
  /\ Reach(p) /\ channels[p].kind \notin {"forum", "dm"}
  /\ Issue(IF blank THEN 1 ELSE 2)
  /\ StartThread(New, p, New + 1, blank)

\* The thread takes the id of its message, once for every call.
CreateThreadFromMessage(p, m, blank) ==
  /\ Reach(p) /\ ~IsDm(p) /\ m \in messages[p]
  /\ Copies(m) < MaxCopies
  /\ Issue(IF blank THEN 0 ELSE 1)
  /\ StartThread(m, p, New, blank)

\* The starter has an id before the post has one.
CreateForumPost(p) ==
  /\ Reach(p) /\ channels[p].kind = "forum"
  /\ Issue(2)
  /\ Register(New + 1, Thread(p))
  /\ messages' = Put(messages, New + 1, {New})
  /\ threadIds' = BagAdd(threadIds, New + 1)
  /\ Finish
  /\ UNCHANGED <<there, members, channelIds, stages, webhooks, dms>>

SetThreadMembers(t, S) ==
  /\ channels' = [channels EXCEPT ![t].thread_members = S]
  /\ Finish
  /\ UNCHANGED <<there, members, channelIds, threadIds, messages, order, stages,
                 webhooks, dms, issued>>

\* Whether the user is in the guild is not asked.
AddThreadMember(t, u) ==
  ReachThread(t) /\ SetThreadMembers(t, channels[t].thread_members \cup {u})

RemoveThreadMember(t, u) ==
  ReachThread(t) /\ SetThreadMembers(t, channels[t].thread_members \ {u})

-----------------------------------------------------------------------------
(* Messages *)

SetMessages(c, S) ==
  /\ messages' = [messages EXCEPT ![c] = S]
  /\ Finish
  /\ UNCHANGED <<there, members, channels, channelIds, threadIds, order, stages,
                 webhooks, dms>>

SendMessage(c) == Reach(c) /\ Issue(1) /\ SetMessages(c, messages[c] \cup {New})

DeleteMessage(c, m) ==
  /\ Reach(c) /\ m \in messages[c]
  /\ SetMessages(c, messages[c] \ {m})
  /\ UNCHANGED issued

-----------------------------------------------------------------------------
(* Stage instances and webhooks *)

SetStages(S) ==
  /\ stages' = S
  /\ Finish
  /\ UNCHANGED <<there, members, channels, channelIds, threadIds, messages, order,
                 webhooks, dms, issued>>

CreateStageInstance(c) ==
  Reach(c) /\ channels[c].kind = "stage" /\ c \notin stages /\ SetStages(stages \cup {c})

DeleteStageInstance(c) == Reach(c) /\ c \in stages /\ SetStages(stages \ {c})

SetWebhooks(f) ==
  /\ webhooks' = f
  /\ UNCHANGED <<there, members, channels, channelIds, threadIds, messages, order,
                 stages, dms>>

CreateWebhook(c) ==
  /\ Reach(c) /\ Cardinality(DOMAIN webhooks) < MaxWebhooks
  /\ Issue(1)
  /\ SetWebhooks(Put(webhooks, New, c)) /\ Finish

\* A webhook keeps to its guild, or to the DMs.
MoveWebhook(w, c) ==
  /\ w \in DOMAIN webhooks /\ Reach(webhooks[w])
  /\ Reach(c) /\ (IsDm(c) <=> IsDm(webhooks[w]))
  /\ SetWebhooks([webhooks EXCEPT ![w] = c])
  /\ Finish /\ UNCHANGED issued

DeleteWebhook(w) ==
  /\ w \in DOMAIN webhooks /\ Reach(webhooks[w])
  /\ SetWebhooks(Without(webhooks, {w}))
  /\ Finish /\ UNCHANGED issued

\* The token is the only check; the channel is looked up for the event, when
\* the webhook is gone already.
DeleteWebhookWithToken(w) ==
  /\ w \in DOMAIN webhooks
  /\ SetWebhooks(Without(webhooks, {w}))
  /\ Answer(IF webhooks[w] \in DOMAIN channels THEN "ok" ELSE "rejected")
  /\ UNCHANGED issued

-----------------------------------------------------------------------------
(* The guild *)

AddMember(u) ==
  /\ there
  /\ members' = members \cup {u}
  /\ Finish
  /\ UNCHANGED <<there, channels, channelIds, threadIds, messages, order, stages,
                 webhooks, dms, issued>>

\* Mutant: the guild's channels are searched for the member, not its threads.
RemoveMemberOfChannels(u) ==
  /\ there /\ u \in members
  /\ members' = members \ {u}
  /\ channels' = [c \in DOMAIN channels |->
       IF c \in channelIds THEN [channels[c] EXCEPT !.thread_members = @ \ {u}]
                           ELSE channels[c]]
  /\ Finish
  /\ UNCHANGED <<there, channelIds, threadIds, messages, order, stages, webhooks,
                 dms, issued>>

RemoveMember(u) ==
  /\ there /\ u \in members
  /\ members' = members \ {u}
  /\ channels' = [c \in DOMAIN channels |->
       IF BagIn(c, threadIds) THEN [channels[c] EXCEPT !.thread_members = @ \ {u}]
                              ELSE channels[c]]
  /\ Finish
  /\ UNCHANGED <<there, channelIds, threadIds, messages, order, stages, webhooks,
                 dms, issued>>

\* The guild goes with its lists; stage instances and webhooks stay.
RemoveGuild ==
  /\ there
  /\ there' = FALSE
  /\ Drop(channelIds \cup BagToSet(threadIds))
  /\ members' = {} /\ channelIds' = {} /\ threadIds' = EmptyBag
  /\ Finish
  /\ UNCHANGED <<stages, webhooks, dms, issued>>

-----------------------------------------------------------------------------

OfGuild ==
  \/ \E kind \in Kinds : CreateChannel(kind)
  \/ \E u \in Users : AddMember(u) \/ RemoveMember(u)
  \/ RemoveGuild

OfChannel ==
  \E c \in DOMAIN channels :
    \/ DeleteChannel(c)
    \/ SendMessage(c)
    \/ \E m \in messages[c] : DeleteMessage(c, m)
    \/ CreateStageInstance(c) \/ DeleteStageInstance(c)
    \/ CreateForumPost(c)
    \/ \E blank \in BOOLEAN :
         \/ CreateThread(c, blank)
         \/ \E m \in messages[c] : CreateThreadFromMessage(c, m, blank)
    \/ \E u \in Users \cup {Bot} : AddThreadMember(c, u) \/ RemoveThreadMember(c, u)

OfWebhook ==
  \/ \E c \in DOMAIN channels : CreateWebhook(c)
  \/ \E w \in DOMAIN webhooks :
       \/ DeleteWebhook(w) \/ DeleteWebhookWithToken(w)
       \/ \E c \in DOMAIN channels : MoveWebhook(w, c)

Next ==
  \/ OfGuild \/ OfChannel \/ OfWebhook
  \/ \E u \in Users : GetDmChannel(u)

Spec == Init /\ [][Next]_vars

-----------------------------------------------------------------------------
(* Properties *)

\* Types: records of channels, histories and webhooks are over known ids.
TypeOK ==
  /\ there \in BOOLEAN /\ members \subseteq Users
  /\ DOMAIN channels \subseteq Ids /\ \A c \in DOMAIN channels : channels[c] \in Channel
  /\ channelIds \subseteq Ids /\ IsABag(threadIds) /\ BagToSet(threadIds) \subseteq Ids
  /\ \A c \in DOMAIN messages : messages[c] \subseteq Ids
  /\ order \subseteq Ids /\ stages \subseteq Ids
  /\ DOMAIN webhooks \subseteq Ids /\ \A w \in DOMAIN webhooks : webhooks[w] \in Ids
  /\ DOMAIN dms \subseteq Users /\ \A u \in DOMAIN dms : dms[u] \in Ids
  /\ issued \in 0..MaxIds
  /\ outcome \in {"ok", "rejected", "crashed"}

GuildChannels == {c \in DOMAIN channels : ~IsDm(c)}

\* A history and a registration order exist for exactly the channels that
\* exist, and the guild's lists name each of its own, through threads made over
\* again, deleted once and calls that fail half way: commit_message and
\* remove_guild find them there without asking.
StoresFollow ==
  /\ DOMAIN messages = DOMAIN channels
  /\ order = DOMAIN channels
  /\ there => GuildChannels \subseteq channelIds \cup BagToSet(threadIds)

\* The types, and the stores that follow the channels.
StoresSound == TypeOK /\ StoresFollow

\* When the bot leaves the guild nothing of it can be reached by id any more:
\* only DM channels and their histories stay (remove_guild).
LeavesAll ==
  (there /\ ~there') => /\ \A c \in DOMAIN channels' : channels'[c].kind = "dm"
                       /\ DOMAIN messages' = DOMAIN channels'

\* A second thread from the same message replaces the record of the first;
\* what was said in it stays (create_thread's setdefault).
KeepsHistory ==
  \A c \in DOMAIN channels \cap DOMAIN channels' :
    Copies(c)' > Copies(c) => messages[c] \subseteq messages'[c]

\* Who leaves the guild leaves every thread in it, "so thread member_count and
\* the thread-member listings stay correct" (remove_member).
LeavesThreads ==
  \A u \in members \ members' : \A c \in DOMAIN channels' :
    u \notin channels'[c].thread_members

\* A member who leaves the guild leaves its threads (remove_member), a bot that
\* leaves it finds nothing of it any more (remove_guild), and a channel that is
\* replaced keeps its history (edit_channel).
StoresKept == [][LeavesAll /\ LeavesThreads /\ KeepsHistory]_vars
=============================================================================
