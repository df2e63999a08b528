--------------------------- MODULE ChannelsProofs ---------------------------
(***************************************************************************)
(* What hangs on a channel comes and goes with it, and who leaves the      *)
(* guild leaves nothing behind, through threads that are made over again   *)
(* and calls that fail half way.  What is said of a command is said of no   *)
(* other, through any syncs, and more rights never hide it.                 *)
(***************************************************************************)
EXTENDS Channels, Commands, TLAPS

-----------------------------------------------------------------------------
(* Bags, records and ids *)

LEMMA BagAddIs ==
  ASSUME NEW b, IsABag(b), NEW x
  PROVE  /\ IsABag(BagAdd(b, x))
         /\ BagToSet(BagAdd(b, x)) = BagToSet(b) \cup {x}
  BY DEF IsABag, BagAdd, BagToSet

LEMMA BagRemoveIs ==
  ASSUME NEW b, IsABag(b), NEW x
  PROVE  /\ IsABag(BagRemove(b, x))
         /\ BagToSet(BagRemove(b, x)) \subseteq BagToSet(b)
         /\ BagToSet(b) \ {x} \subseteq BagToSet(BagRemove(b, x))
         /\ \A y \in BagToSet(BagRemove(b, x)) : BagRemove(b, x)[y] <= b[y]
  BY DEF IsABag, BagRemove, BagToSet

LEMMA EmptyBagIs == IsABag(EmptyBag) /\ BagToSet(EmptyBag) = {}
  BY DEF IsABag, EmptyBag, SetToBag, BagToSet

LEMMA Records ==
  /\ \A kind \in GuildKinds \cup {"dm"} :
       Plain(kind) \in Channel /\ Plain(kind).kind = kind /\ Plain(kind).thread_members = {}
  /\ \A p \in Ids : Thread(p) \in Channel /\ Thread(p).kind = "thread" /\ Thread(p).thread_members = {Bot}
  BY ChannelsAssumption DEF Plain, Thread, Channel, Ids, GuildKinds

LEMMA Numbers ==
  ASSUME issued \in 0 .. MaxIds, NEW n \in {0, 1, 2}, Issue(n)
  PROVE  /\ issued' \in 0 .. MaxIds
         /\ n > 0 => New \in Ids
         /\ n > 1 => New + 1 \in Ids
  BY ChannelsAssumption DEF Issue, CanIssue, New, Ids

-----------------------------------------------------------------------------
(* A channel that is registered, new or again *)

LEMMA RegisterKeeps ==
  ASSUME StoresSound, NEW id \in Ids, NEW rec \in Channel, Register(id, rec),
         UNCHANGED <<there, members, stages, webhooks>>,
         DOMAIN dms' \subseteq Users, \A u \in DOMAIN dms' : dms'[u] \in Ids,
         DOMAIN messages' = DOMAIN messages \cup {id},
         \A c \in DOMAIN messages' : messages'[c] \subseteq Ids,
         channelIds \subseteq channelIds', channelIds' \subseteq Ids,
         IsABag(threadIds'), BagToSet(threadIds) \subseteq BagToSet(threadIds'),
         BagToSet(threadIds') \subseteq Ids,
         there /\ rec.kind # "dm" => id \in channelIds' \cup BagToSet(threadIds'),
         issued' \in 0 .. MaxIds, outcome' \in {"ok", "rejected", "crashed"}
  PROVE  StoresSound'
<1>1. /\ DOMAIN channels' = DOMAIN channels \cup {id}
      /\ channels'[id] = rec
      /\ \A c \in DOMAIN channels : c # id => channels'[c] = channels[c]
  BY DEF Register, Put
<1>2. TypeOK'
  BY <1>1 DEF StoresSound, TypeOK, Register
<1>3. StoresFollow'
  <2>1. DOMAIN messages' = DOMAIN channels' /\ order' = DOMAIN channels'
    BY <1>1 DEF StoresSound, StoresFollow, Register
  <2>2. ASSUME there', NEW c \in DOMAIN channels', channels'[c].kind # "dm"
        PROVE  c \in channelIds' \cup BagToSet(threadIds')
    <3>1. CASE c = id
      BY <1>1, <2>2, <3>1
    <3>2. CASE c # id
      BY <1>1, <2>2, <3>2 DEF StoresSound, StoresFollow, GuildChannels, IsDm
    <3> QED
      BY <3>1, <3>2
  <2> QED
    BY <2>1, <2>2 DEF StoresFollow, GuildChannels, IsDm
<1> QED
  BY <1>2, <1>3 DEF StoresSound

LEMMA CreateChannelKeeps ==
  ASSUME StoresSound, NEW kind \in Kinds, CreateChannel(kind)
  PROVE  StoresSound'
<1>1. issued' \in 0 .. MaxIds /\ New \in Ids
  BY Numbers DEF StoresSound, TypeOK, CreateChannel
<1>2. Plain(kind) \in Channel
  BY Records, ChannelsAssumption
<1>3. /\ DOMAIN messages' = DOMAIN messages \cup {New}
      /\ \A c \in DOMAIN messages' : messages'[c] \subseteq Ids
  BY DEF Put, CreateChannel, StoresSound, TypeOK
<1>4. /\ channelIds \subseteq channelIds' /\ channelIds' \subseteq Ids
      /\ there => New \in channelIds'
      /\ outcome' \in {"ok", "rejected", "crashed"}
  BY <1>1 DEF CreateChannel, StoresSound, TypeOK, Finish, Answer
<1> HIDE DEF New
<1> QED
  BY <1>1, <1>2, <1>3, <1>4, RegisterKeeps DEF CreateChannel, StoresSound, TypeOK

LEMMA GetDmChannelKeeps ==
  ASSUME StoresSound, NEW u \in Users, GetDmChannel(u)
  PROVE  StoresSound'
<1>1. CASE UNCHANGED <<store, issued>> /\ outcome' \in {"ok", "crashed"}
  BY <1>1 DEF store, StoresSound, TypeOK, StoresFollow, GuildChannels, IsDm
<1>2. CASE /\ Issue(1)
           /\ Register(New, Plain("dm"))
           /\ messages' = Put(messages, New, {})
           /\ dms' = Put(dms, u, New)
           /\ Finish
           /\ UNCHANGED <<there, members, channelIds, threadIds, stages, webhooks>>
  <2>1. issued' \in 0 .. MaxIds /\ New \in Ids
    BY <1>2, Numbers DEF StoresSound, TypeOK
  <2>2. Plain("dm") \in Channel /\ Plain("dm").kind = "dm"
    BY Records
  <2>3. /\ DOMAIN messages' = DOMAIN messages \cup {New}
        /\ \A c \in DOMAIN messages' : messages'[c] \subseteq Ids
    BY <1>2 DEF Put, StoresSound, TypeOK
  <2>4. DOMAIN dms' \subseteq Users /\ \A v \in DOMAIN dms' : dms'[v] \in Ids
    BY <1>2, <2>1 DEF Put, StoresSound, TypeOK
  <2> HIDE DEF New
  <2> QED
    BY <1>2, <2>1, <2>2, <2>3, <2>4, RegisterKeeps DEF StoresSound, TypeOK, Finish, Answer
<1> QED
  BY <1>1, <1>2 DEF GetDmChannel, Answer

LEMMA StartThreadKeeps ==
  ASSUME StoresSound, NEW t \in Ids, NEW p \in Ids, p \in DOMAIN messages, NEW notice, NEW blank \in BOOLEAN,
         StartThread(t, p, notice, blank), ~blank => notice \in Ids, issued' \in 0 .. MaxIds
  PROVE  StoresSound' /\ DOMAIN History(t) = DOMAIN messages \cup {t}
<1>1. Thread(p) \in Channel /\ Thread(p).kind = "thread"
  BY Records
<1>2. /\ DOMAIN History(t) = DOMAIN messages \cup {t}
      /\ \A c \in DOMAIN History(t) : History(t)[c] \subseteq Ids
  BY DEF Put, History, StoresSound, TypeOK
<1>3. /\ DOMAIN messages' = DOMAIN messages \cup {t}
      /\ \A c \in DOMAIN messages' : messages'[c] \subseteq Ids
  BY <1>2 DEF StartThread
<1>4. /\ IsABag(threadIds') /\ BagToSet(threadIds') = BagToSet(threadIds) \cup {t}
      /\ outcome' \in {"ok", "rejected", "crashed"}
  BY BagAddIs DEF StartThread, StoresSound, TypeOK, Answer
<1> QED
  BY <1>1, <1>2, <1>3, <1>4, RegisterKeeps DEF StartThread, StoresSound, TypeOK

LEMMA ThreadsKeep ==
  ASSUME StoresSound, NEW p \in DOMAIN channels,
         \/ CreateForumPost(p)
         \/ \E blank \in BOOLEAN : CreateThread(p, blank)
         \/ \E blank \in BOOLEAN, m \in messages[p] : CreateThreadFromMessage(p, m, blank)
  PROVE  StoresSound'
<1>1. p \in Ids /\ p \in DOMAIN messages /\ messages[p] \subseteq Ids
  BY DEF StoresSound, TypeOK, StoresFollow
<1>2. CASE CreateForumPost(p)
  <2>1. issued' \in 0 .. MaxIds /\ New \in Ids /\ New + 1 \in Ids
    BY <1>2, Numbers DEF StoresSound, TypeOK, CreateForumPost
  <2>2. Thread(p) \in Channel
    BY <1>1, Records
  <2>3. /\ DOMAIN messages' = DOMAIN messages \cup {New + 1}
        /\ \A c \in DOMAIN messages' : messages'[c] \subseteq Ids
    BY <1>2, <2>1 DEF Put, CreateForumPost, StoresSound, TypeOK
  <2>4. /\ IsABag(threadIds') /\ BagToSet(threadIds') = BagToSet(threadIds) \cup {New + 1}
        /\ outcome' \in {"ok", "rejected", "crashed"}
    BY <1>2, BagAddIs DEF CreateForumPost, StoresSound, TypeOK, Finish, Answer
  <2> DEFINE id == New + 1
  <2> HIDE DEF id
  <2>5. Register(id, Thread(p)) /\ id \in Ids
    BY <1>2, <2>1 DEF CreateForumPost, id
  <2> QED
    BY <1>2, <2>1, <2>2, <2>3, <2>4, <2>5, RegisterKeeps DEF CreateForumPost, StoresSound, TypeOK, id
<1>3. ASSUME NEW blank \in BOOLEAN, CreateThread(p, blank)
      PROVE  StoresSound'
  <2>1. issued' \in 0 .. MaxIds /\ New \in Ids /\ (~blank => New + 1 \in Ids)
    BY <1>3, Numbers DEF StoresSound, TypeOK, CreateThread
  <2> HIDE DEF New
  <2> QED
    BY <1>1, <1>3, <2>1, StartThreadKeeps DEF CreateThread
<1>4. ASSUME NEW blank \in BOOLEAN, NEW m \in messages[p], CreateThreadFromMessage(p, m, blank)
      PROVE  StoresSound'
  <2>1. issued' \in 0 .. MaxIds /\ (~blank => New \in Ids)
    BY <1>4, Numbers DEF StoresSound, TypeOK, CreateThreadFromMessage
  <2> HIDE DEF New
  <2> QED
    BY <1>1, <1>4, <2>1, StartThreadKeeps DEF CreateThreadFromMessage
<1> QED
  BY <1>2, <1>3, <1>4

-----------------------------------------------------------------------------
(* Channels that stay and channels that go *)

LEMMA SameChannelsKeep ==
  ASSUME StoresSound, UNCHANGED <<there, channelIds, threadIds, order, dms>>,
         DOMAIN channels' = DOMAIN channels,
         \A c \in DOMAIN channels : channels'[c] \in Channel /\ channels'[c].kind = channels[c].kind,
         DOMAIN messages' = DOMAIN messages, \A c \in DOMAIN messages : messages'[c] \subseteq Ids,
         members' \subseteq Users, stages' \subseteq Ids,
         DOMAIN webhooks' \subseteq Ids, \A w \in DOMAIN webhooks' : webhooks'[w] \in Ids,
         issued' \in 0 .. MaxIds, outcome' \in {"ok", "rejected", "crashed"}
  PROVE  StoresSound'
<1>1. TypeOK'
  BY DEF StoresSound, TypeOK
<1>2. StoresFollow'
  BY DEF StoresSound, StoresFollow, GuildChannels, IsDm
<1> QED
  BY <1>1, <1>2 DEF StoresSound

LEMMA ThreadMembersKeep ==
  ASSUME StoresSound, NEW t \in DOMAIN channels, NEW u \in Users \cup {Bot},
         AddThreadMember(t, u) \/ RemoveThreadMember(t, u)
  PROVE  StoresSound'
<1>1. PICK S \in SUBSET (Users \cup {Bot}) : SetThreadMembers(t, S)
  <2>1. channels[t].thread_members \subseteq Users \cup {Bot}
    BY DEF StoresSound, TypeOK, Channel
  <2> QED
    BY <2>1 DEF AddThreadMember, RemoveThreadMember
<1>2. /\ DOMAIN channels' = DOMAIN channels
      /\ \A c \in DOMAIN channels : channels'[c] \in Channel /\ channels'[c].kind = channels[c].kind
  BY <1>1 DEF SetThreadMembers, StoresSound, TypeOK, Channel
<1> QED
  BY <1>1, <1>2, SameChannelsKeep DEF SetThreadMembers, Finish, Answer, StoresSound, TypeOK

LEMMA MessagesKeep ==
  ASSUME StoresSound, NEW c \in DOMAIN channels,
         SendMessage(c) \/ \E m \in messages[c] : DeleteMessage(c, m)
  PROVE  StoresSound'
<1>1. PICK S \in SUBSET Ids : SetMessages(c, S) /\ issued' \in 0 .. MaxIds
  <2>1. messages[c] \subseteq Ids /\ issued \in 0 .. MaxIds
    BY DEF StoresSound, TypeOK, StoresFollow
  <2>2. CASE SendMessage(c)
    BY <2>1, <2>2, Numbers DEF SendMessage
  <2>3. CASE \E m \in messages[c] : DeleteMessage(c, m)
    BY <2>1, <2>3 DEF DeleteMessage
  <2> QED
    BY <2>2, <2>3
<1>2. DOMAIN messages' = DOMAIN messages /\ \A d \in DOMAIN messages : messages'[d] \subseteq Ids
  BY <1>1 DEF SetMessages, StoresSound, TypeOK
<1> QED
  BY <1>1, <1>2, SameChannelsKeep DEF SetMessages, Finish, Answer, StoresSound, TypeOK

LEMMA StagesKeep ==
  ASSUME StoresSound, NEW c \in DOMAIN channels, CreateStageInstance(c) \/ DeleteStageInstance(c)
  PROVE  StoresSound'
<1>1. PICK S \in SUBSET Ids : SetStages(S)
  BY DEF CreateStageInstance, DeleteStageInstance, StoresSound, TypeOK
<1> QED
  BY <1>1, SameChannelsKeep DEF SetStages, Finish, Answer, StoresSound, TypeOK

LEMMA WebhooksKeep ==
  ASSUME StoresSound, OfWebhook
  PROVE  StoresSound'
<1>1. ASSUME NEW f, SetWebhooks(f), DOMAIN f \subseteq Ids, \A w \in DOMAIN f : f[w] \in Ids,
             issued' \in 0 .. MaxIds, outcome' \in {"ok", "rejected"}
      PROVE  StoresSound'
  BY <1>1, SameChannelsKeep DEF SetWebhooks, StoresSound, TypeOK
<1>2. ASSUME NEW c \in DOMAIN channels, CreateWebhook(c)
      PROVE  StoresSound'
  <2>1. issued' \in 0 .. MaxIds /\ New \in Ids
    BY <1>2, Numbers DEF StoresSound, TypeOK, CreateWebhook
  <2> DEFINE f == Put(webhooks, New, c)
  <2>2. DOMAIN f \subseteq Ids /\ \A w \in DOMAIN f : f[w] \in Ids
    BY <2>1 DEF Put, StoresSound, TypeOK
  <2>3. SetWebhooks(f) /\ outcome' = "ok"
    BY <1>2 DEF CreateWebhook, Finish, Answer
  <2> HIDE DEF f
  <2> QED
    BY <1>1, <2>1, <2>2, <2>3
<1>3. ASSUME NEW w \in DOMAIN webhooks, DeleteWebhook(w) \/ DeleteWebhookWithToken(w)
      PROVE  StoresSound'
  <2> DEFINE f == Without(webhooks, {w})
  <2>1. DOMAIN f \subseteq Ids /\ \A x \in DOMAIN f : f[x] \in Ids
    BY DEF Without, StoresSound, TypeOK
  <2>2. SetWebhooks(f) /\ outcome' \in {"ok", "rejected"} /\ issued' \in 0 .. MaxIds
    BY <1>3 DEF DeleteWebhook, DeleteWebhookWithToken, Finish, Answer, StoresSound, TypeOK
  <2> HIDE DEF f
  <2> QED
    BY <1>1, <2>1, <2>2
<1>4. ASSUME NEW w \in DOMAIN webhooks, NEW c \in DOMAIN channels, MoveWebhook(w, c)
      PROVE  StoresSound'
  <2> DEFINE f == [webhooks EXCEPT ![w] = c]
  <2>1. DOMAIN f \subseteq Ids /\ \A x \in DOMAIN f : f[x] \in Ids
    BY DEF StoresSound, TypeOK
  <2>2. SetWebhooks(f) /\ outcome' = "ok" /\ issued' \in 0 .. MaxIds
    BY <1>4 DEF MoveWebhook, Finish, Answer, StoresSound, TypeOK
  <2> HIDE DEF f
  <2> QED
    BY <1>1, <2>1, <2>2
<1> QED
  BY <1>2, <1>3, <1>4 DEF OfWebhook

LEMMA MembersKeep ==
  ASSUME StoresSound, NEW u \in Users, AddMember(u) \/ RemoveMember(u)
  PROVE  StoresSound'
<1>1. CASE AddMember(u)
  BY <1>1, SameChannelsKeep DEF AddMember, Finish, Answer, StoresSound, TypeOK
<1>2. CASE RemoveMember(u)
  <2>1. /\ DOMAIN channels' = DOMAIN channels
        /\ \A c \in DOMAIN channels : channels'[c] \in Channel /\ channels'[c].kind = channels[c].kind
    BY <1>2 DEF RemoveMember, StoresSound, TypeOK, Channel
  <2> QED
    BY <1>2, <2>1, SameChannelsKeep DEF RemoveMember, Finish, Answer, StoresSound, TypeOK
<1> QED
  BY <1>1, <1>2

LEMMA DropKeeps ==
  ASSUME StoresSound, NEW S, Drop(S), UNCHANGED <<webhooks, dms, issued>>,
         there' \in BOOLEAN, members' \subseteq Users, stages' \subseteq stages,
         channelIds' \subseteq channelIds, IsABag(threadIds'), BagToSet(threadIds') \subseteq BagToSet(threadIds),
         there' => there /\ channelIds \ S \subseteq channelIds'
                         /\ BagToSet(threadIds) \ S \subseteq BagToSet(threadIds'),
         outcome' = "ok"
  PROVE  StoresSound'
<1>1. /\ DOMAIN channels' = DOMAIN channels \ S /\ \A c \in DOMAIN channels' : channels'[c] = channels[c]
      /\ DOMAIN messages' = DOMAIN messages \ S /\ \A c \in DOMAIN messages' : messages'[c] = messages[c]
      /\ order' = order \ S
  BY DEF Drop, Without
<1>2. TypeOK'
  BY <1>1 DEF StoresSound, TypeOK
<1>3. StoresFollow'
  BY <1>1 DEF StoresSound, StoresFollow, GuildChannels, IsDm
<1> QED
  BY <1>2, <1>3 DEF StoresSound

LEMMA DeleteChannelKeeps ==
  ASSUME StoresSound, NEW c \in DOMAIN channels, DeleteChannel(c)
  PROVE  StoresSound'
<1>1. /\ IsABag(threadIds') /\ BagToSet(threadIds') \subseteq BagToSet(threadIds)
      /\ BagToSet(threadIds) \ {c} \subseteq BagToSet(threadIds')
  BY BagRemoveIs DEF DeleteChannel, StoresSound, TypeOK
<1> QED
  BY <1>1, DropKeeps DEF DeleteChannel, StoresSound, TypeOK, Finish, Answer

LEMMA RemoveGuildKeeps ==
  ASSUME StoresSound, RemoveGuild
  PROVE  StoresSound'
  BY EmptyBagIs, DropKeeps DEF RemoveGuild, StoresSound, TypeOK, Finish, Answer

-----------------------------------------------------------------------------
LEMMA InitSound == Init => StoresSound
<1> SUFFICES ASSUME Init PROVE StoresSound
  OBVIOUS
<1>1. TypeOK
  BY EmptyBagIs, ChannelsAssumption DEF Init, TypeOK
<1>2. StoresFollow
  BY DEF Init, StoresFollow, GuildChannels
<1> QED
  BY <1>1, <1>2 DEF StoresSound

LEMMA NextSound == StoresSound /\ [Next]_vars => StoresSound'
<1> SUFFICES ASSUME StoresSound, [Next]_vars PROVE StoresSound'
  OBVIOUS
<1>1. CASE OfGuild
  BY <1>1, CreateChannelKeeps, MembersKeep, RemoveGuildKeeps DEF OfGuild
<1>2. CASE OfChannel
  BY <1>2, DeleteChannelKeeps, MessagesKeep, StagesKeep, ThreadsKeep, ThreadMembersKeep DEF OfChannel
<1>3. CASE OfWebhook
  BY <1>3, WebhooksKeep
<1>4. CASE \E u \in Users : GetDmChannel(u)
  BY <1>4, GetDmChannelKeeps
<1>5. CASE UNCHANGED vars
  BY <1>5 DEF vars, store, StoresSound, TypeOK, StoresFollow, GuildChannels, IsDm
<1> QED
  BY <1>1, <1>2, <1>3, <1>4, <1>5 DEF Next

\* Histories, registration orders and the guild's lists follow the channels, in
\* every reachable state, whatever calls fail half way (commit_message and
\* remove_guild look there without asking).
THEOREM StoresAreSound == Spec => []StoresSound
  BY InitSound, NextSound, PTL DEF Spec

-----------------------------------------------------------------------------
(* What goes with a member, with the guild, and with nothing: channels and *)
(* messages have ids given out before, members are only in threads, and    *)
(* the threads of a guild are in its list.                                 *)

Known == 1 .. issued

Rooted ==
  /\ DOMAIN channels \subseteq Known
  /\ \A c \in DOMAIN messages : messages[c] \subseteq Known
  /\ \A c \in DOMAIN channels : channels[c].kind # "thread" => channels[c].thread_members = {}
  /\ there => \A c \in DOMAIN channels : channels[c].kind = "thread" => c \in BagToSet(threadIds)

KeptInv == StoresSound /\ Rooted
Steps == LeavesAll /\ LeavesThreads /\ KeepsHistory

LEMMA Grows ==
  ASSUME StoresSound, NEW n \in {0, 1, 2}, Issue(n)
  PROVE  /\ Known \subseteq Known'
         /\ n > 0 => New \in Known' /\ New \notin Known
         /\ n > 1 => New + 1 \in Known' /\ New + 1 \notin Known
  BY DEF StoresSound, TypeOK, Issue, New, Known

\* A step in which nobody leaves and no thread is made has nothing to keep.
LEMMA CalmSteps ==
  ASSUME StoresSound, UNCHANGED <<there, threadIds>>, members \subseteq members'
  PROVE  Steps
<1>1. LeavesAll /\ LeavesThreads
  BY DEF LeavesAll, LeavesThreads
<1>2. ASSUME NEW c \in DOMAIN channels
      PROVE  ~(Copies(c)' > Copies(c))
  <2>1. Copies(c) \in Nat /\ Copies(c)' = Copies(c)
    BY DEF Copies, StoresSound, TypeOK, IsABag, BagIn, BagToSet
  <2> QED
    BY <2>1
<1> QED
  BY <1>1, <1>2 DEF Steps, KeepsHistory

LEMMA RegisterRoots ==
  ASSUME KeptInv, NEW id \in Known', NEW rec, Register(id, rec), UNCHANGED there, Known \subseteq Known',
         rec.kind # "thread" => rec.thread_members = {},
         \A c \in DOMAIN messages' : messages'[c] \subseteq Known',
         BagToSet(threadIds) \subseteq BagToSet(threadIds'),
         rec.kind = "thread" => id \in BagToSet(threadIds')
  PROVE  Rooted'
<1>1. /\ DOMAIN channels' = DOMAIN channels \cup {id}
      /\ channels'[id] = rec
      /\ \A c \in DOMAIN channels : c # id => channels'[c] = channels[c]
  BY DEF Register, Put
<1> QED
  BY <1>1 DEF KeptInv, Rooted

LEMMA CreateChannelRoots ==
  ASSUME KeptInv, NEW kind \in Kinds, CreateChannel(kind)
  PROVE  Rooted' /\ Steps
<1>1. Known \subseteq Known' /\ New \in Known'
  BY Grows DEF KeptInv, CreateChannel
<1>2. Plain(kind).kind # "thread" /\ Plain(kind).thread_members = {}
  BY ChannelsAssumption DEF Plain, GuildKinds
<1>3. \A c \in DOMAIN messages' : messages'[c] \subseteq Known'
  BY <1>1 DEF Put, CreateChannel, KeptInv, Rooted
<1>4. Register(New, Plain(kind)) /\ UNCHANGED <<there, threadIds, members>>
  BY DEF CreateChannel
<1> HIDE DEF New, Known
<1>5. Rooted'
  BY <1>1, <1>2, <1>3, <1>4, RegisterRoots
<1> QED
  BY <1>4, <1>5, CalmSteps DEF KeptInv

LEMMA GetDmChannelRoots ==
  ASSUME KeptInv, NEW u \in Users, GetDmChannel(u)
  PROVE  Rooted' /\ Steps
<1>1. CASE UNCHANGED <<store, issued>>
  BY <1>1, CalmSteps DEF store, KeptInv, Rooted, Known
<1>2. CASE /\ Issue(1)
           /\ Register(New, Plain("dm"))
           /\ messages' = Put(messages, New, {})
           /\ UNCHANGED <<there, members, threadIds>>
  <2>1. Known \subseteq Known' /\ New \in Known'
    BY <1>2, Grows DEF KeptInv
  <2>2. Plain("dm").kind # "thread" /\ Plain("dm").thread_members = {}
    BY DEF Plain
  <2>3. \A c \in DOMAIN messages' : messages'[c] \subseteq Known'
    BY <1>2, <2>1 DEF Put, KeptInv, Rooted
  <2> HIDE DEF New, Known
  <2>4. Rooted'
    BY <1>2, <2>1, <2>2, <2>3, RegisterRoots
  <2> QED
    BY <1>2, <2>4, CalmSteps DEF KeptInv
<1> QED
  BY <1>1, <1>2 DEF GetDmChannel

\* Whether the thread is made anew or over again, its history stays.
LEMMA ThreadSteps ==
  ASSUME StoresSound, UNCHANGED <<there, members>>, NEW t, threadIds' = BagAdd(threadIds, t),
         t \in DOMAIN channels => messages[t] \subseteq messages'[t]
  PROVE  Steps
<1>1. LeavesAll /\ LeavesThreads
  BY DEF LeavesAll, LeavesThreads
<1>2. ASSUME NEW c \in DOMAIN channels, c # t
      PROVE  ~(Copies(c)' > Copies(c))
  <2>1. Copies(c) \in Nat /\ Copies(c)' = Copies(c)
    BY <1>2 DEF BagAdd, Copies, StoresSound, TypeOK, IsABag, BagIn, BagToSet
  <2> QED
    BY <2>1
<1> QED
  BY <1>1, <1>2 DEF Steps, KeepsHistory

LEMMA StartThreadRoots ==
  ASSUME KeptInv, NEW t \in Known', NEW p, p \in DOMAIN messages, NEW notice, NEW blank \in BOOLEAN,
         StartThread(t, p, notice, blank), ~blank => notice \in Known', Known \subseteq Known'
  PROVE  Rooted' /\ Steps
<1>1. Thread(p).kind = "thread"
  BY DEF Thread
<1>2. /\ \A c \in DOMAIN messages' : messages'[c] \subseteq Known'
      /\ t \in DOMAIN messages => messages[t] \subseteq messages'[t]
  <2>1. /\ DOMAIN History(t) = DOMAIN messages \cup {t}
        /\ \A c \in DOMAIN History(t) : History(t)[c] \subseteq Known'
        /\ t \in DOMAIN messages => History(t)[t] = messages[t]
    BY DEF Put, History, KeptInv, Rooted
  <2> QED
    BY <2>1 DEF StartThread
<1>3. BagToSet(threadIds') = BagToSet(threadIds) \cup {t}
  BY BagAddIs DEF StartThread, KeptInv, StoresSound, TypeOK
<1>4. Rooted'
  BY <1>1, <1>2, <1>3, RegisterRoots DEF StartThread
<1>5. Steps
  BY <1>2, ThreadSteps DEF StartThread, KeptInv, StoresSound, StoresFollow
<1> QED
  BY <1>4, <1>5

LEMMA ThreadsRoot ==
  ASSUME KeptInv, NEW p \in DOMAIN channels,
         \/ CreateForumPost(p)
         \/ \E blank \in BOOLEAN : CreateThread(p, blank)
         \/ \E blank \in BOOLEAN, m \in messages[p] : CreateThreadFromMessage(p, m, blank)
  PROVE  Rooted' /\ Steps
<1>1. p \in DOMAIN messages /\ messages[p] \subseteq Known
  BY DEF KeptInv, StoresSound, StoresFollow, Rooted
<1>2. CASE CreateForumPost(p)
  <2> DEFINE id == New + 1
  <2>1. Known \subseteq Known' /\ New \in Known' /\ id \in Known' /\ id \notin Known
    BY <1>2, Grows DEF KeptInv, CreateForumPost
  <2>2. Thread(p).kind = "thread"
    BY DEF Thread
  <2>3. \A c \in DOMAIN messages' : messages'[c] \subseteq Known'
    BY <1>2, <2>1 DEF Put, CreateForumPost, KeptInv, Rooted
  <2>4. BagToSet(threadIds') = BagToSet(threadIds) \cup {id}
    BY <1>2, BagAddIs DEF CreateForumPost, KeptInv, StoresSound, TypeOK
  <2>5. Register(id, Thread(p)) /\ threadIds' = BagAdd(threadIds, id) /\ UNCHANGED <<there, members>>
    BY <1>2 DEF CreateForumPost
  <2>6. id \notin DOMAIN channels
    BY <2>1 DEF KeptInv, Rooted
  <2> HIDE DEF id, Known
  <2>7. Rooted'
    BY <2>1, <2>2, <2>3, <2>4, <2>5, RegisterRoots
  <2> QED
    BY <2>5, <2>6, <2>7, ThreadSteps DEF KeptInv
<1>3. ASSUME NEW blank \in BOOLEAN, CreateThread(p, blank)
      PROVE  Rooted' /\ Steps
  <2>1. Known \subseteq Known' /\ New \in Known' /\ (~blank => New + 1 \in Known')
    BY <1>3, Grows DEF KeptInv, CreateThread
  <2> HIDE DEF New, Known
  <2> QED
    BY <1>1, <1>3, <2>1, StartThreadRoots DEF CreateThread
<1>4. ASSUME NEW blank \in BOOLEAN, NEW m \in messages[p], CreateThreadFromMessage(p, m, blank)
      PROVE  Rooted' /\ Steps
  <2>1. Known \subseteq Known' /\ (~blank => New \in Known')
    BY <1>4, Grows DEF KeptInv, CreateThreadFromMessage
  <2> HIDE DEF New, Known
  <2> QED
    BY <1>1, <1>4, <2>1, StartThreadRoots DEF CreateThreadFromMessage
<1> QED
  BY <1>2, <1>3, <1>4

LEMMA ThreadMembersRoot ==
  ASSUME KeptInv, NEW t \in DOMAIN channels, NEW u, AddThreadMember(t, u) \/ RemoveThreadMember(t, u)
  PROVE  Rooted' /\ Steps
<1>1. PICK S : SetThreadMembers(t, S)
  BY DEF AddThreadMember, RemoveThreadMember
<1>2. channels[t].kind = "thread"
  BY DEF AddThreadMember, RemoveThreadMember, ReachThread, IsThread
<1>3. /\ DOMAIN channels' = DOMAIN channels
      /\ \A c \in DOMAIN channels : channels'[c].kind = channels[c].kind /\ (c # t => channels'[c] = channels[c])
  BY <1>1 DEF SetThreadMembers, KeptInv, StoresSound, TypeOK, Channel
<1>4. Rooted'
  BY <1>1, <1>2, <1>3 DEF SetThreadMembers, KeptInv, Rooted, Known
<1> QED
  BY <1>1, <1>4, CalmSteps DEF SetThreadMembers, KeptInv

LEMMA MessagesRoot ==
  ASSUME KeptInv, NEW c \in DOMAIN channels,
         SendMessage(c) \/ \E m \in messages[c] : DeleteMessage(c, m)
  PROVE  Rooted' /\ Steps
<1>1. c \in DOMAIN messages /\ messages[c] \subseteq Known
  BY DEF KeptInv, StoresSound, StoresFollow, Rooted
<1>2. \E S \in SUBSET Known' : SetMessages(c, S)
  <2>1. CASE SendMessage(c)
    <3>1. Known \subseteq Known' /\ New \in Known'
      BY <2>1, Grows DEF SendMessage, KeptInv
    <3> QED
      BY <1>1, <2>1, <3>1 DEF SendMessage
  <2>2. CASE \E m \in messages[c] : DeleteMessage(c, m)
    BY <1>1, <2>2 DEF DeleteMessage, Known
  <2> QED
    BY <2>1, <2>2
<1>3. Known \subseteq Known'
  <2>1. CASE SendMessage(c)
    BY <2>1, Grows DEF SendMessage, KeptInv
  <2>2. CASE \E m \in messages[c] : DeleteMessage(c, m)
    BY <2>2 DEF DeleteMessage, Known
  <2> QED
    BY <2>1, <2>2
<1>4. UNCHANGED <<there, members, channels, threadIds>>
  BY <1>2 DEF SetMessages
<1>5. Rooted'
  <2> HIDE DEF Known
  <2> QED
    BY <1>2, <1>3, <1>4 DEF SetMessages, KeptInv, Rooted
<1> QED
  BY <1>4, <1>5, CalmSteps DEF KeptInv

LEMMA PlainStepsRoot ==
  ASSUME KeptInv,
         \/ \E c \in DOMAIN channels : CreateStageInstance(c) \/ DeleteStageInstance(c)
         \/ \E u \in Users : AddMember(u)
         \/ OfWebhook
  PROVE  Rooted' /\ Steps
<1>1. UNCHANGED <<there, channels, messages, threadIds>> /\ members \subseteq members'
  BY DEF CreateStageInstance, DeleteStageInstance, SetStages, AddMember, OfWebhook, CreateWebhook,
         MoveWebhook, DeleteWebhook, DeleteWebhookWithToken, SetWebhooks
<1>2. Known \subseteq Known'
  <2>1. CASE \E c \in DOMAIN channels : CreateWebhook(c)
    BY <2>1, Grows DEF CreateWebhook, KeptInv
  <2>2. CASE UNCHANGED issued
    BY <2>2 DEF Known
  <2> QED
    BY <2>1, <2>2 DEF CreateStageInstance, DeleteStageInstance, SetStages, AddMember, OfWebhook,
         MoveWebhook, DeleteWebhook, DeleteWebhookWithToken
<1>3. Rooted'
  <2> HIDE DEF Known
  <2> QED
    BY <1>1, <1>2 DEF KeptInv, Rooted
<1> QED
  BY <1>1, <1>3, CalmSteps DEF KeptInv

LEMMA RemoveMemberRoots ==
  ASSUME KeptInv, NEW u \in Users, RemoveMember(u)
  PROVE  Rooted' /\ Steps
<1>1. /\ DOMAIN channels' = DOMAIN channels
      /\ \A c \in DOMAIN channels :
           /\ channels'[c].kind = channels[c].kind
           /\ channels'[c].thread_members \subseteq channels[c].thread_members
           /\ c \in BagToSet(threadIds) => u \notin channels'[c].thread_members
  BY DEF RemoveMember, KeptInv, StoresSound, TypeOK, Channel, BagIn
<1>2. UNCHANGED <<there, threadIds, messages, issued>> /\ there /\ members' = members \ {u}
  BY DEF RemoveMember
<1>3. Rooted'
  BY <1>1, <1>2 DEF KeptInv, Rooted, Known
<1>4. LeavesThreads
  BY <1>1, <1>2 DEF LeavesThreads, KeptInv, Rooted
<1>5. LeavesAll
  BY <1>2 DEF LeavesAll
<1>6. ASSUME NEW c \in DOMAIN channels
      PROVE  ~(Copies(c)' > Copies(c))
  <2>1. Copies(c) \in Nat /\ Copies(c)' = Copies(c)
    BY <1>2 DEF Copies, KeptInv, StoresSound, TypeOK, IsABag, BagIn, BagToSet
  <2> QED
    BY <2>1
<1> QED
  BY <1>3, <1>4, <1>5, <1>6 DEF Steps, KeepsHistory

LEMMA DeleteChannelRoots ==
  ASSUME KeptInv, NEW c \in DOMAIN channels, DeleteChannel(c)
  PROVE  Rooted' /\ Steps
<1>1. /\ DOMAIN channels' = DOMAIN channels \ {c} /\ \A d \in DOMAIN channels' : channels'[d] = channels[d]
      /\ DOMAIN messages' = DOMAIN messages \ {c} /\ \A d \in DOMAIN messages' : messages'[d] = messages[d]
      /\ UNCHANGED <<there, members, issued>> /\ threadIds' = BagRemove(threadIds, c)
  BY DEF DeleteChannel, Drop, Without
<1>2. /\ BagToSet(threadIds) \ {c} \subseteq BagToSet(threadIds')
      /\ BagToSet(threadIds') \subseteq BagToSet(threadIds)
      /\ IsABag(threadIds) /\ IsABag(threadIds')
      /\ \A d \in BagToSet(threadIds') : threadIds'[d] <= threadIds[d]
  BY <1>1, BagRemoveIs DEF KeptInv, StoresSound, TypeOK
<1>3. Rooted'
  BY <1>1, <1>2 DEF KeptInv, Rooted, Known
<1>4. LeavesAll /\ LeavesThreads
  BY <1>1 DEF LeavesAll, LeavesThreads
<1>5. ASSUME NEW d \in DOMAIN channels
      PROVE  ~(Copies(d)' > Copies(d))
  <2>1. Copies(d) \in Nat /\ Copies(d)' \in Nat /\ Copies(d)' <= Copies(d)
    BY <1>2 DEF Copies, IsABag, BagIn, BagToSet
  <2> QED
    BY <2>1
<1> QED
  BY <1>3, <1>4, <1>5 DEF Steps, KeepsHistory

LEMMA RemoveGuildRoots ==
  ASSUME KeptInv, StoresSound', RemoveGuild
  PROVE  Rooted' /\ Steps
<1> DEFINE S == channelIds \cup BagToSet(threadIds)
<1>1. /\ DOMAIN channels' = DOMAIN channels \ S /\ \A d \in DOMAIN channels' : channels'[d] = channels[d]
      /\ DOMAIN messages' = DOMAIN messages \ S /\ \A d \in DOMAIN messages' : messages'[d] = messages[d]
      /\ issued' = issued /\ there /\ ~there' /\ threadIds' = EmptyBag
  BY DEF RemoveGuild, Drop, Without
<1>2. Rooted'
  BY <1>1 DEF KeptInv, Rooted, Known
<1>3. \A c \in DOMAIN channels' : channels'[c].kind = "dm"
  BY <1>1 DEF KeptInv, StoresSound, StoresFollow, GuildChannels, IsDm
<1>4. LeavesAll
  BY <1>3 DEF LeavesAll, StoresSound, StoresFollow
<1>5. LeavesThreads
  BY <1>2, <1>3 DEF LeavesThreads, Rooted
<1>6. ASSUME NEW d \in DOMAIN channels
      PROVE  ~(Copies(d)' > Copies(d))
  <2>1. Copies(d) \in Nat /\ Copies(d)' = 0
    BY <1>1, EmptyBagIs DEF Copies, KeptInv, StoresSound, TypeOK, IsABag, BagIn, BagToSet
  <2> QED
    BY <2>1
<1> QED
  BY <1>2, <1>4, <1>5, <1>6 DEF Steps, KeepsHistory

LEMMA InitKept == Init => KeptInv
  BY InitSound DEF Init, KeptInv, Rooted

LEMMA NextKept == KeptInv /\ [Next]_vars => KeptInv' /\ [Steps]_vars
<1> SUFFICES ASSUME KeptInv, [Next]_vars PROVE KeptInv' /\ [Steps]_vars
  OBVIOUS
<1>1. StoresSound'
  BY NextSound DEF KeptInv
<1>2. CASE OfGuild
  BY <1>1, <1>2, CreateChannelRoots, PlainStepsRoot, RemoveMemberRoots, RemoveGuildRoots DEF OfGuild, KeptInv
<1>3. CASE OfChannel
  BY <1>1, <1>3, DeleteChannelRoots, MessagesRoot, PlainStepsRoot, ThreadsRoot, ThreadMembersRoot
     DEF OfChannel, KeptInv
<1>4. CASE OfWebhook
  BY <1>1, <1>4, PlainStepsRoot DEF KeptInv
<1>5. CASE \E u \in Users : GetDmChannel(u)
  BY <1>1, <1>5, GetDmChannelRoots DEF KeptInv
<1>6. CASE UNCHANGED vars
  BY <1>1, <1>6 DEF vars, store, KeptInv, Rooted, Known
<1> QED
  BY <1>2, <1>3, <1>4, <1>5, <1>6 DEF Next

\* Who leaves the guild leaves every thread in it, a bot that leaves it finds
\* nothing of it by id any more, and a thread that is made over again keeps
\* what was said in it (remove_member, remove_guild, create_thread).
THEOREM StoresAreKept == Spec => StoresKept
<1>1. [Steps]_vars => [LeavesAll /\ LeavesThreads /\ KeepsHistory]_vars
  BY DEF Steps
<1> QED
  BY <1>1, InitKept, NextKept, PTL DEF Spec, StoresKept

-----------------------------------------------------------------------------
(* Commands: what a sync keeps and gives out *)

\* The ids a sync gives to new commands lie above all that were given out.
LEMMA SyncIs ==
  ASSUME CommandsTypeOK, IdsOwned, NEW home \in Homes, NEW names \in SUBSET Names,
         NEW payload \in [names -> Settings], Sync(home, payload)
  PROVE  /\ commandIds' \in commandIds..MaxCommandIds
         /\ DOMAIN registry' = Homes /\ DOMAIN registry'[home] = names
         /\ \A other \in Homes : other # home => registry'[other] = registry[other]
         /\ \A n \in names :
              /\ registry'[home][n] \in [id : 1..MaxCommandIds, home : {home}, settings : Settings]
              /\ registry'[home][n].id <= commandIds'
              /\ IF n \in DOMAIN registry[home]
                 THEN registry'[home][n].id = registry[home][n].id
                 ELSE /\ registry'[home][n].id > commandIds
                      /\ \A m \in names :
                           m \notin DOMAIN registry[home] /\ m # n =>
                             registry'[home][m].id # registry'[home][n].id
<1> DEFINE new == DOMAIN payload \ Kept(home, payload)
<1>1. DOMAIN payload = names /\ new = {n \in names : n \notin DOMAIN registry[home]}
  BY DEF Kept
<1>2. PICK last \in commandIds..MaxCommandIds : \E id \in Bijection(new, NewIds(last)) :
        /\ registry' = [registry EXCEPT ![home] =
             [n \in DOMAIN payload |->
                [id |-> IF n \in new THEN id[n] ELSE registry[home][n].id,
                 home |-> home, settings |-> payload[n]]]]
        /\ commandIds' = last
  BY Zenon DEF Sync
<1>3. PICK id \in Bijection(new, NewIds(last)) :
        /\ registry' = [registry EXCEPT ![home] =
             [n \in DOMAIN payload |->
                [id |-> IF n \in new THEN id[n] ELSE registry[home][n].id,
                 home |-> home, settings |-> payload[n]]]]
        /\ commandIds' = last
  BY <1>2
<1>4. id \in [new -> NewIds(last)] /\ \A m, n \in new : id[m] = id[n] => m = n
  BY <1>3 DEF Bijection, Injection, IsInjective
<1> HIDE DEF new
<1>5. commandIds \in Nat /\ MaxCommandIds \in Nat /\ commandIds <= MaxCommandIds
  BY CommandsAssumption DEF CommandsTypeOK
<1>6. commandIds' \in commandIds..MaxCommandIds
  BY <1>3
<1>7. /\ DOMAIN registry' = Homes /\ DOMAIN registry'[home] = names
      /\ \A other \in Homes : other # home => registry'[other] = registry[other]
  BY <1>1, <1>3 DEF CommandsTypeOK
<1>8. \A n \in names : registry'[home][n] =
        [id |-> IF n \in new THEN id[n] ELSE registry[home][n].id,
         home |-> home, settings |-> payload[n]]
  BY <1>1, <1>3 DEF CommandsTypeOK
<1>9. \A n \in new : id[n] \in Nat /\ id[n] > commandIds /\ id[n] <= commandIds'
  BY <1>3, <1>4, <1>5 DEF NewIds
<1>10. \A n \in names \ new :
         /\ registry[home][n].id \in 1..MaxCommandIds /\ registry[home][n].id <= commandIds
         /\ n \in DOMAIN registry[home]
  BY <1>1 DEF CommandsTypeOK, IdsOwned
<1>11. ASSUME NEW n \in names
       PROVE  /\ registry'[home][n] \in [id : 1..MaxCommandIds, home : {home}, settings : Settings]
              /\ registry'[home][n].id <= commandIds'
              /\ registry'[home][n].id = IF n \in new THEN id[n] ELSE registry[home][n].id
  <2> DEFINE i == IF n \in new THEN id[n] ELSE registry[home][n].id
  <2>1. i \in 1..MaxCommandIds /\ i <= commandIds'
    BY <1>1, <1>5, <1>6, <1>9, <1>10
  <2>2. registry'[home][n] = [id |-> i, home |-> home, settings |-> payload[n]]
    BY <1>8
  <2> HIDE DEF i
  <2>3. registry'[home][n] \in [id : 1..MaxCommandIds, home : {home}, settings : Settings]
    BY <1>1, <2>1, <2>2
  <2> QED
    BY <2>1, <2>2, <2>3 DEF i
<1>12. ASSUME NEW n \in names
       PROVE  IF n \in DOMAIN registry[home]
              THEN registry'[home][n].id = registry[home][n].id
              ELSE /\ registry'[home][n].id > commandIds
                   /\ \A m \in names :
                        m \notin DOMAIN registry[home] /\ m # n =>
                          registry'[home][m].id # registry'[home][n].id
  <2>1. CASE n \in DOMAIN registry[home]
    BY <1>1, <1>11, <2>1
  <2>2. CASE n \notin DOMAIN registry[home]
    <3>1. n \in new /\ registry'[home][n].id = id[n]
      BY <1>1, <1>11, <2>2
    <3>2. ASSUME NEW m \in names, m \notin DOMAIN registry[home], m # n
          PROVE  registry'[home][m].id # registry'[home][n].id
      <4>1. m \in new /\ registry'[home][m].id = id[m]
        BY <1>1, <1>11, <3>2
      <4> QED
        BY <1>4, <3>1, <3>2, <4>1
    <3> QED
      BY <1>9, <2>2, <3>1, <3>2
  <2> QED
    BY <2>1, <2>2
<1> QED
  BY <1>6, <1>7, <1>11, <1>12
OwnedInv == CommandsTypeOK /\ IdsOwned

LEMMA CommandsInitKeeps ==
  ASSUME CommandsInit
  PROVE  OwnedInv
<1>1. CommandsTypeOK
  BY CommandsAssumption DEF CommandsInit, CommandsTypeOK
<1>2. IdsOwned
  BY DEF CommandsInit, IdsOwned
<1> QED
  BY <1>1, <1>2 DEF OwnedInv

LEMMA SyncKeeps ==
  ASSUME OwnedInv, NEW home \in Homes, NEW names \in SUBSET Names,
         NEW payload \in [names -> Settings], Sync(home, payload)
  PROVE  OwnedInv' /\ OverridesStay
<1>1. /\ commandIds' \in commandIds..MaxCommandIds
      /\ DOMAIN registry' = Homes /\ DOMAIN registry'[home] = names
      /\ \A other \in Homes : other # home => registry'[other] = registry[other]
  BY SyncIs DEF OwnedInv
<1>2. \A n \in names :
        /\ registry'[home][n] \in [id : 1..MaxCommandIds, home : {home}, settings : Settings]
        /\ registry'[home][n].id <= commandIds'
        /\ IF n \in DOMAIN registry[home]
           THEN registry'[home][n].id = registry[home][n].id
           ELSE /\ registry'[home][n].id > commandIds
                /\ \A m \in names :
                     m \notin DOMAIN registry[home] /\ m # n =>
                       registry'[home][m].id # registry'[home][n].id
  BY SyncIs DEF OwnedInv
<1>3. UNCHANGED <<overrides, permissions, held>>
  BY DEF Sync
<1>4. CommandsTypeOK'
  BY <1>1, <1>2, <1>3, CommandsAssumption DEF OwnedInv, CommandsTypeOK
<1>5. ASSUME NEW h \in Homes, NEW n \in DOMAIN registry'[h]
      PROVE  /\ registry'[h][n].id <= commandIds'
             /\ IF n \in DOMAIN registry[h]
                THEN registry'[h][n].id = registry[h][n].id
                ELSE h = home /\ registry'[h][n].id > commandIds
  BY <1>1, <1>2, CommandsAssumption DEF OwnedInv, CommandsTypeOK, IdsOwned
<1>6. ASSUME NEW h \in Homes, NEW n \in DOMAIN registry'[h],
             NEW other \in Homes, NEW m \in DOMAIN registry'[other],
             registry'[other][m].id = registry'[h][n].id
      PROVE  other = h /\ m = n
  <2>1. CASE n \in DOMAIN registry[h] /\ m \in DOMAIN registry[other]
    BY <1>5, <1>6, <2>1 DEF OwnedInv, IdsOwned
  <2>2. CASE n \notin DOMAIN registry[h] /\ m \in DOMAIN registry[other]
    BY <1>5, <1>6, <2>2, CommandsAssumption DEF OwnedInv, CommandsTypeOK, IdsOwned
  <2>3. CASE n \in DOMAIN registry[h] /\ m \notin DOMAIN registry[other]
    BY <1>5, <1>6, <2>3, CommandsAssumption DEF OwnedInv, CommandsTypeOK, IdsOwned
  <2>4. CASE n \notin DOMAIN registry[h] /\ m \notin DOMAIN registry[other]
    BY <1>1, <1>2, <1>5, <1>6, <2>4
  <2> QED
    BY <2>1, <2>2, <2>3, <2>4
<1>7. \A id \in DOMAIN overrides' : id > commandIds' => overrides'[id] = {}
  BY <1>1, <1>3, CommandsAssumption DEF OwnedInv, IdsOwned, CommandsTypeOK, Application
<1>8. IdsOwned'
  BY <1>5, <1>6, <1>7 DEF IdsOwned
<1>9. OverridesStay
  BY <1>5 DEF OverridesStay
<1> QED
  BY <1>4, <1>8, <1>9 DEF OwnedInv

LEMMA OverridesKeep ==
  ASSUME OwnedInv, NEW id \in Application..commandIds, NEW entries \in EntryChoices,
         SetOverrides(id, entries)
  PROVE  OwnedInv' /\ OverridesStay
<1>1. UNCHANGED <<registry, commandIds, permissions, held>>
  BY DEF SetOverrides
<1>2. overrides' = [overrides EXCEPT ![id] = entries]
  BY DEF SetOverrides
<1>3. CommandsTypeOK'
  BY <1>1, <1>2 DEF OwnedInv, CommandsTypeOK
<1>4. IdsOwned'
  BY <1>1, <1>2, CommandsAssumption DEF OwnedInv, CommandsTypeOK, IdsOwned, Application
<1> QED
  BY <1>1, <1>3, <1>4 DEF OwnedInv, OverridesStay

LEMMA ModeratedKeeps ==
  ASSUME OwnedInv,
         UNCHANGED <<registry, overrides, commandIds>>,
         permissions' \in PermissionChoices \cup {permissions},
         held' \in SUBSET Roles
  PROVE  OwnedInv' /\ OverridesStay
<1>1. permissions' \in SUBSET Bits
  BY CommandsAssumption DEF OwnedInv, CommandsTypeOK
<1> QED
  BY <1>1 DEF OwnedInv, CommandsTypeOK, IdsOwned, OverridesStay

LEMMA CommandsNextKeeps ==
  ASSUME OwnedInv, [CommandsNext]_commandVars
  PROVE  OwnedInv' /\ OverridesStay
<1>1. CASE UNCHANGED commandVars
  BY <1>1, ModeratedKeeps DEF commandVars, OwnedInv, CommandsTypeOK
<1>2. ASSUME NEW home \in Homes, NEW names \in SUBSET Names, NEW payload \in [names -> Settings],
             Sync(home, payload)
      PROVE  OwnedInv' /\ OverridesStay
  BY <1>2, SyncKeeps
<1>3. ASSUME NEW id \in Application..commandIds, NEW entries \in EntryChoices,
             SetOverrides(id, entries)
      PROVE  OwnedInv' /\ OverridesStay
  BY <1>3, OverridesKeep
<1>4. ASSUME NEW bits \in PermissionChoices, NEW roles \in SUBSET Roles, Moderated(bits, roles)
      PROVE  OwnedInv' /\ OverridesStay
  BY <1>4, ModeratedKeeps DEF Moderated
<1> QED
  BY <1>1, <1>2, <1>3, <1>4 DEF CommandsNext

-----------------------------------------------------------------------------
(* Commands: who may use one *)

LEMMA SaidOf ==
  ASSUME NEW S, NEW x, x.permission = TRUE
  PROVE  Said(S \cup {x}) = Said(S) \cup {TRUE}
  BY Zenon DEF Said

\* An allow for a role of the member turns no allow into a deny.
LEMMA AllowHelps ==
  ASSUME NEW own, NEW general, NEW roles, NEW r \in roles,
         NEW entries, entries = own \cup {[target |-> r, type |-> "role", permission |-> TRUE]}
  PROVE  /\ ChannelSays(entries, general) = ChannelSays(own, general)
         /\ MemberSays(entries, roles) # "deny" \/ MemberSays(own, roles) = "deny"
         /\ MemberSays(own, roles) = "allow" => MemberSays(entries, roles) = "allow"
<1> DEFINE allow == [target |-> r, type |-> "role", permission |-> TRUE]
<1>0. /\ entries = own \cup {allow}
      /\ allow.target = r /\ allow.type = "role" /\ allow.permission = TRUE
  OBVIOUS
<1> HIDE DEF allow
<1>1. ASSUME NEW target, NEW type, type # "role" \/ target # r
      PROVE  Matching(entries, target, type) = Matching(own, target, type)
  <2>1. {e \in entries : e.target = target /\ e.type = type}
          = {e \in own : e.target = target /\ e.type = type}
    BY <1>0, <1>1
  <2> QED
    BY <2>1 DEF Matching
<1>2. ChannelSays(entries, general) = ChannelSays(own, general)
  BY <1>1 DEF ChannelSays
<1>3. Matching(entries, User, "user") = Matching(own, User, "user")
  BY <1>1
<1>4. CASE r # Everyone
  <2>1. RoleSays(entries, roles \ {Everyone}) = "allow"
    BY <1>0, <1>4, Zenon DEF RoleSays, Said
  <2> QED
    BY <1>2, <1>3, <2>1 DEF MemberSays, First
<1>5. CASE r = Everyone
  <2>1. RoleSays(entries, roles \ {Everyone}) = RoleSays(own, roles \ {Everyone})
    <3>1. {e \in entries : e.target \in roles \ {Everyone} /\ e.type = "role"}
            = {e \in own : e.target \in roles \ {Everyone} /\ e.type = "role"}
      BY <1>0, <1>5
    <3> QED
      BY <3>1 DEF RoleSays
  <2>2. Said({e \in entries : e.target = Everyone /\ e.type = "role"})
          = Said({e \in own : e.target = Everyone /\ e.type = "role"}) \cup {TRUE}
    <3>1. {e \in entries : e.target = Everyone /\ e.type = "role"}
            = {e \in own : e.target = Everyone /\ e.type = "role"} \cup {allow}
      BY <1>0, <1>5
    <3> QED
      BY <1>0, <3>1, SaidOf
  <2>3. Matching(entries, Everyone, "role") # "none"
        /\ (Matching(entries, Everyone, "role") = "deny" <=> Matching(own, Everyone, "role") = "deny")
    BY <2>2 DEF Matching
  <2>4. Matching(entries, Everyone, "role") \in {"deny", "allow"}
    BY <2>2 DEF Matching
  <2>5. Matching(own, Everyone, "role") = "allow" => Matching(entries, Everyone, "role") = "allow"
    BY <2>3, <2>4
  <2> QED
    BY <1>2, <1>3, <2>1, <2>3, <2>5 DEF MemberSays, First
<1> QED
  BY <1>2, <1>4, <1>5

LEMMA MoreHelps ==
  ASSUME CommandsTypeOK
  PROVE  MoreNeverHides
<1> SUFFICES ASSUME NEW home \in Homes, NEW n \in DOMAIN registry[home],
                    NEW own, NEW general, own = overrides[registry[home][n].id],
                    general = overrides[Application],
                    Access(registry[home][n], "guild", permissions, held, own, general) = "allowed"
             PROVE  /\ \A b \in Bits :
                         Access(registry[home][n], "guild", permissions \cup {b}, held, own, general)
                           = "allowed"
                    /\ \A r \in held :
                         Access(registry[home][n], "guild", permissions, held,
                                own \cup {[target |-> r, type |-> "role", permission |-> TRUE]},
                                general) = "allowed"
  BY DEF MoreNeverHides
<1>1. ASSUME NEW b \in Bits
      PROVE  Access(registry[home][n], "guild", permissions \cup {b}, held, own, general) = "allowed"
  <2>1. MeetsDefault(registry[home][n].settings, permissions)
          => MeetsDefault(registry[home][n].settings, permissions \cup {b})
    BY DEF MeetsDefault
  <2> QED
    BY <2>1 DEF Access
<1>2. ASSUME NEW r \in held
      PROVE  Access(registry[home][n], "guild", permissions, held,
                    own \cup {[target |-> r, type |-> "role", permission |-> TRUE]}, general)
               = "allowed"
  <2> DEFINE entries == own \cup {[target |-> r, type |-> "role", permission |-> TRUE]}
  <2>1. /\ ChannelSays(entries, general) = ChannelSays(own, general)
        /\ MemberSays(entries, held) # "deny" \/ MemberSays(own, held) = "deny"
        /\ MemberSays(own, held) = "allow" => MemberSays(entries, held) = "allow"
    BY AllowHelps
  <2> HIDE DEF entries
  <2>2. Access(registry[home][n], "guild", permissions, held, entries, general) = "allowed"
    BY <2>1 DEF Access
  <2> QED
    BY <2>2 DEF entries
<1> QED
  BY <1>1, <1>2

LEMMA AcceptedIsListed ==
  AcceptedListed
BY DEF AcceptedListed, Accepted, Listed, Found

\* register_commands, set_command_permissions, command_access: for any names,
\* roles, permissions and overrides.
THEOREM CommandsAreSound ==
  CommandsSpec => []CommandsSound
<1>1. CommandsInit => OwnedInv
  BY CommandsInitKeeps
<1>2. OwnedInv /\ [CommandsNext]_commandVars => OwnedInv'
  BY CommandsNextKeeps
<1>3. OwnedInv => CommandsSound
  BY MoreHelps, AcceptedIsListed DEF OwnedInv, CommandsSound
<1> QED
  BY <1>1, <1>2, <1>3, PTL DEF CommandsSpec

\* register_commands: an id stays with its command as long as that is named.
THEOREM OverridesAlwaysFollow ==
  CommandsSpec => OverridesFollow
<1>1. CommandsInit => OwnedInv
  BY CommandsInitKeeps
<1>2. OwnedInv /\ [CommandsNext]_commandVars => OwnedInv' /\ [OverridesStay]_commandVars
  BY CommandsNextKeeps
<1> QED
  BY <1>1, <1>2, PTL DEF CommandsSpec, OverridesFollow
=============================================================================
