# simcord in TLA+

simcord runs a discord.py bot against an in-memory Discord. A test drives
actors, moves a virtual clock, and waits for the bot to *settle*: nothing may
run any more that the test did not start, and nothing may have been missed. A
browser Preview shows the same world and acts in it, and scripts record what
the real Discord answers. Four things make this hard:

- **time and quiescence**: patched event-loop hooks, executor threads,
  deadlines, cancellation and restart, all interleaved on one asyncio loop;
- **the store**: calls come in any order, and each must leave a dozen indexes,
  lists and tables in agreement, also when it fails half way;
- **the Preview**: tabs, dialogs and screenshots hold copies of a world that
  changes, closes and withdraws access under them;
- **the recorders**: programs that write to a real service, are killed at any
  point, and may lose, repeat or misattribute no write.

Paths are relative to `src/src/simcord/` unless they start with `src/`.
`PROJECT.json` lists each component with what is modelled, each definition with
the lines it stands for, each hazard at its line, each run, each mutant and each
theorem.

## Inventory

| component | state | operations | hard behaviour | correct means | modules |
|---|---|---|---|---|---|
| deadline queue (`backend/_deadlines.py`) | live values with revisions, a heap and per-pass lists with stale entries | set, next, due | writes and nested passes between two keys of a pass; compaction | answers as a plain table would; the heap stays bounded | Deadlines, DeadlineTable, DeadlineValues, **RuntimeProofs** |
| ids and clock (`_clock.py`, `backend/ops/base.py`) | clock, reserved ids, next slot per millisecond | snowflake, for a shard, explicit, advance | three sources reach into the past and the future of the clock | no id twice, ids sort by time, shards are routed | Snowflakes, **GuildProofs** |
| executor ownership (`_runtime.py`) | record per `run_in_executor` call | submit, enter, end, cancel, reject, release | three kinds of threads report on one call in any order | released exactly when nothing of the bot can run for it; no error lost | Executor, **WorkProofs** |
| callback index (`_runtime.py`) | callbacks, ready set, timer heap | register, retire, compact, inspect | a callback that ran before it was registered | what is indexed is what is live; due timers in order | Callbacks, **RuntimeProofs** |
| hooks of the process (`_runtime.py`, `_dpy_internals.py`) | hooks of loops, `submit`, clocks, their owners | attach, restore, patch | several Envs on several loops come and go, with patches of others | hooks follow the Envs; each reads its own time | Hooks, **RuntimeProofs** |
| errors of tasks (`_runtime.py`, `env.py`) | tracked tasks, inspection queue, recorded errors | inspect, record, raise | the creator may still handle the error; generations of the bot | each error is told once, by itself | TaskErrors, **RuntimeProofs** |
| settlement and virtual time (`env.py`, `_settlement.py`) | revision, progress future, coordinator and its failure, fallbacks | settle, verbs, advance_time, run_real, advance_real | operation and coordinator join each other; changes between classification and arming | no deadline passed over, no notification lost, no failure dropped | Settlement, **SettlementProofs** |
| Env lifecycle (`env.py`, `_runtime.py`) | started, generation, hooks, operation guard, Preview cleanup | start, restart_bot, shutdown, verbs, detach | cancellation and failure at each await; work that spawns work while it is cancelled | no work outlives its hooks, the guard never leaks, cleanup is never abandoned | Lifecycle, **WorkProofs** |
| permissions, roles, members, bans (`backend/permissions.py`, `backend/ops/guilds.py`, `http/routes/guilds.py`) | roles with positions, members with lists of roles, bans | create, edit, move, delete, assign, time out, kick, prune, ban | sequences of calls that are each allowed | the bot gains no permission and no rank | Moderation, **GuildProofs** |
| commands and visibility (`backend/command_access.py`, `backend/ops/commands.py`) | a registry per scope, overrides by id | sync, set overrides, list, look up | ids across syncs, six layers of precedence, shadowed names | overrides stay with their command; more permissions never hide one | Commands, **ChannelsProofs** |
| channels, threads, stages, webhooks (`backend/ops/channels.py`, `webhooks.py`, `http/routes/channels.py`) | records, the guild's lists, histories, orders, members, DMs | create, delete, start a thread, replace, leave | one message gives a thread twice, parents go first, the guild goes | stores agree, nothing of a guild stays reachable | Channels, **ChannelsProofs** |
| messages, reactions, polls (`backend/ops/messages.py`, `reactions.py`, `polls.py`) | messages with a permission-aware index, orders, deadlines | send, forward, edit, delete, bulk, pin, react, vote, filter | events against the state they describe; private messages | index, order, deadlines and listeners follow the messages | Messages, **InteractionsProofs** |
| interactions (`interactions.py`, `http/routes/interactions.py`, `actors.py`) | response state, token deadline, original, follow-ups | respond, defer, edit, follow up, expire | 3 s and 15 min deadlines against late and double answers | one original, in time; nothing said for one that lapsed | Interactions, Replies, **InteractionsProofs** |
| events and entitlements (`backend/ops/scheduled_events.py`, `monetization.py`) | state machines with a table of deadlines | create, edit, start, end, consume, revoke | the clock against explicit ends, chained deadlines | everything due is settled, nothing revives | Resources, **SettlementProofs** |
| layouts and modals (`components.py`, `backend/ops/messages.py`, `http/_helpers.py`) | component trees, attachments, flags | send, edit, complete, show | what an edit keeps was checked beside other parts | what is stored is valid, numbered, and its files are served | Layouts |
| gateway (`gateway.py`, `intents.py`) | shards, open intents, the bot's cache | identify, close, resume, member chunks | events for a closed shard; requests while members go | the cache follows the guilds, no answer brings back who left, each request is answered | Gateway |
| Preview session, pages, actions (`preview/__init__.py`, `_pages.py`, `_actions.py`) | phase, pages, leases, sequence numbers, receipts, dialogs, screenshot | open, act, publish, redact, capture, close | repeated actions, closing against running ones | never wedged, honest receipts, nothing of another viewer | Pages, Ledger, **PagesProofs** |
| Preview media (`preview/_assets.py`, `_media.py`) | handles, payloads by content with a budget, a serial worker | retain, request, decode, answer | the world changes between request and answer | what is retained is counted; answers are what may be seen now | Assets |
| Preview queries (`preview/_queries.py`, `_snapshot.py`) | cursors, windows | next, previous, older, newer | lists change between two steps of a walk | a walk meets all that stayed; windows have no gap | Queries, **PagesProofs** |
| Preview projection (`preview/_snapshot.py`, `_pages.py`, `_dependencies.py`) | the copy last published, the copy pinned by a capture | publish, read, capture | rights and members change after the copy | a read shows what may be seen now, and loss is told | Projections |
| recorders of evidence (`src/scripts/capture_*`, `monetization_reference_*`) | journal on disk, log of requests, a write in flight | launch, write, reconcile, clean up, prompt | kills, lost requests and answers, resumption | nothing lost, nothing repeated, complete said only of what ran, and at the end of what left nothing | Recorder, Writes, Checkouts, **RecorderProofs** |
| HTTP client, router, faults; serializers, CDN; voice, expressions; plugin, parity, assertions; browser client; other scripts | | | one step each, pure, or third-party | | not modelled |

Interaction: a verb of the test takes the guard (lifecycle) and calls a backend
operation, which emits gateway events into the bot's parser; its tasks run
under the hooks (callback index, executors); settlement waits for them and
moves the clock, which runs passes over the deadline queue. The bot answers
through the HTTP router, whose routes check permissions and call the same
backend operations. All of the backend runs synchronously on the loop, so an
operation of the store is one step, except where a listener is called between
two of its changes (passes over deadlines are modelled key by key for that).
The Preview is one more user of the actors' verbs, on the same loop; its media
worker and its browser answer later. The recorders share no state with the rest.

## Modules

Each module takes its bounds and sets as CONSTANTS with named assumptions; an
`MC` module gives those values a `.cfg` cannot write. Definitions after a
comment "Mutant" or named after what they break (`NotifiedLossy`,
`EraseKeepsIndex`) are plausible errors of the code, kept next to what they
replace: with each of them in place one property of a run fails, so no property
holds by the shape of its model.

**`DeadlineValues`, `DeadlineTable`, `Deadlines`**. `DeadlineValues` says what a
deadline is: absent, an aware or naive date, or an error kept for its lookup or
its processing. `DeadlineTable` is the abstract specification: a map from keys
to values and a stack of passes that hand out, in registration order, each key
that is due and not yet passed over. `Deadlines` is the code: every write takes a
revision and pushes an entry, stale entries stay in `heap` and `pending` until
they are trimmed, popped or compacted. Passes nest, and writes and lookups come
between any two steps of a pass, because subscribers run there; a pass can be
left by an exception (`Abort`). `answer` - what each call returned, raised or
yielded - is a variable of both, so heaps and revisions may show in no answer.
Heaps are sets of entries: revisions make entries distinct.

**`Snowflakes`**. An id is the pair of its millisecond and its slot. `given` is a
history variable. A call that raises is no step. `Slots` and `MaxMs` stand for
`1 << 22` and `1 << 42` and are reached in the run.

**`Executor`**. One record per `run_in_executor` call: `step` is where the loop is
in the hook, `user` where the thread that calls the bot's function is, `native`
the Future of a patched pool, `caller` the Future the bot has, `notes` the
`finish()` calls queued on the loop, `completed` whether the record left
`_work.executors`. Custom executors are constrained only by what the code can
see of them. Records share no state.

**`Callbacks`**. The native loop, the hooks and a scheduling thread each take their
own steps, so that a callback may run before `half` of its registration is done.
Timers wake futures; virtual time moves to the earliest. A pass over the heap pops it
in an order of the instants, any where they are equal (the code's is the order of
registration), and compacts it where a record it retires on the way leaves too many
stale entries; `ready` is the place of each callback in the code's dictionary.

**`Hooks`**. `submit`, `clock` and the loops' methods are stacks of who patched them,
Envs and others, as far as the code can tell them apart.

**`TaskErrors`**. A task's owner may be running, awaiting it, or done; an inspection
is queued again when the owner it waits for ends. `gathered` are the tasks a detach
cancels and awaits together, `errors` what the test will see.

**`Settlement`**. The public operation ("op") and the automatic coordinator ("auto")
with a program counter per await, against the bot's tasks, their timers with
wall-clock fallbacks, external input and worker threads that wake a task at any
step. `Revised`, `progress`, `notifying` and `poked` are `_WorkState`'s revision and
shared future; `ahead` is the part of the loop's queue that runs before a settler
resumes from `sleep(0)`. Resource deadlines are a set of instants; executors appear
as blocked tasks; how discord.py internals recognize a wait is a task's status.

**`Lifecycle`**. `Callers` are tasks of the test, `Works` pieces of work the bot
starts, each once. `pc` is the await a caller is at, `next` what follows when
`_detach_bot` returns, `late` that its deadline passed. Every await can end in
cancellation. The Preview cleanup is a task several shutdowns share. Verbs of
actors are one action each for begin and end, nested at most twice. Left out:
the refusal of callers the bot owns.

**`Moderation`** has `compute` and the checks of the hierarchy over sets of bits, and
is the guild whose roles, members and bans change by the bot's routes, which check,
and by the test's fixtures, which do not.
`by` says whose call the last step was: the properties speak of the bot's calls
between those of the test. A refused request changes nothing and is no step. Role
ids are not reused, and a list of roles may name a role deleted since.

**`Commands`**. Syncs of both registries, overrides keyed by command id or by the
application, and a member whose permissions and roles change. `Access` is
`command_access` with its layers in the order of the code. An id belongs to one command
(`IdsOwned`), so an override is never applied to another.

**`Channels`**. One guild and the DMs: records, the guild's lists of channels and
threads (a bag: the code can list a thread twice), histories, registration orders,
stage instances and webhooks. The bot may do everything a permission decides, so a
check fails only because something it reads is gone; such a request is no step,
unless the code changes something before it fails - then the step has the changes
and `outcome` the error. The message a thread starts from, the notice in the parent
and the starter of a forum post are messages of the model; other content is not.

**`Messages`, `Interactions`, `Replies`**. One channel, its people, the bot and a
webhook. The backend's dictionaries are the fields of one record, `store`, and each
helper of the code is an operator from store to store, so that an operation is the
chain of calls it is in the source. `told` is what a listener last heard of each
message. `Interactions` adds the responses, follow-ups and modals, whose source may be
a message that is edited or deleted meanwhile. What the code does and a reader may
not expect: `execute_webhook` serves a follow-up before the first answer; bulk delete
takes private ids; votes and the end of a poll are emitted for private messages too;
a blocked message uses up an id and leaves its attachments; edits bypass the filter.
`Replies` is the abstract specification: an interaction has one original, given in
time or never, and what is said for it ends with its token.

**`Resources`**. Entitlements and scheduled events with the table of deadlines that the
code keeps beside them, and moves of the clock that settle what is due.

**`Layouts`**. Component trees as sequences in `walk_components`' order, checked,
numbered and stored with the files they show, and what an edit merges.

**`Gateway`**. Shards that close and resume, the events they replay, and requests for
members answered in chunks. A reconnect says `unavailable: false` of each guild
(`serializers.py`), so discord.py merges it into the guild it has: who left while the
shard was closed stays in the bot's cache, and the property is that no step with
the shard open makes anyone else a member who is gone. This merge is external.

**`Pages`, `Ledger`**. A session from entry to teardown: the registry of pages, the one
running action and the screenshot with a step per await, leases that age, access
that is withdrawn, dialogs, and a teardown in three steps (screenshot, server,
pages). A projection is drawn anew by every publication and is left out here.
`_assert_capture_live` asks for what the page of the screenshot refers to, and a
republication makes that page forget what it can no longer show (`shot.source`); what
is then wrong is the first of the disagreements below. `refresh` and `snapshot` settle
first and publish without asking whether the session was closed meanwhile. That an
action is accepted and marked is one step with its mutation, which comes before its
first await (`actors.py`). Python's page is no browser's, and takes no action.
`Ledger` is the abstract specification: a page spends its numbers in order, one
action at a time, and each ends with one outcome that does not change.

**`Assets`**. Handles, payloads kept once by content under one budget, and requests
that are authorized, decoded by the serial worker, and authorized again.

**`Queries`**. Lists with signed cursors and the history window, while messages come
and go and entities are renamed. A viewer's page begins at the bot's newest message,
or at the newest if it has none.

**`Projections`**. What is published of messages, authors, threads and commands; what a
later read filters; what a capture pins, without the receipt it copies, which no
check of a capture looks at. Messages have no order here, so the newest, to which a
capture falls back, is any. `Turned` limits which rights change. A page
whose read is denied answers so until its next publication, also when access comes
back; `can_toggle` is frozen; a target's author and mentions stay. Direct messages,
candidates, modals and media are left out.

**`Recorder`, `Writes`**. `Recorder` has the jobs as data, and after them the journal,
the process and Discord. A step ends where the journal is saved or a request is
sent; the journal is saved by each step that changes it, so one variable is both
memory and disk, and no crash falls inside a save. A crash may leave a request in
flight, which arrives later (`Late`). The HTTP status is the outcome of a write; a
create that was attempted and whose receipt is missing stays open, and is never
repeated. `capture_mode` sets the status to completed before the cleanup, whose saves
put it on disk while a command and grants are still there; it promises then that all
jobs ran and that the journal lists what is left. Only `finalize_capture` looks at the
outcome of the cleanup, and what it says last is what a reader may rely on. `Writes` is the abstract specification of the journal: carried out under an
intent on disk, at most once, forgotten only when answered.

**`Checkouts`**. The two scripts in which a person buys, upgrades and cancels, with
kills between any two saves. The newer one verifies a cancellation only of what was
started; its `_canceled` ignores a second subscription that was prompted and is not
listed yet, which the older `_cancel` counts.

## Runs

Components that do not call each other share a run: a behaviour is about one of
them, which its initial state chooses (`part`), and each property speaks of its
own. All runs pass except `capture_closed`.

| run | what it shows | bounds, and why they are enough |
|---|---|---|
| `runtime` | no live deadline lost from the heap or from an open pass, none kept that is not due, the heap bounded, the table implemented; callbacks indexed are those that live; hooks and time are an Env's own | two keys (one before, one after the cursor), two instants, two nested passes, three writes, no slack, so that every write can compact; one callback with three timers of two futures, or four timers, the fewest with which a pass of the clock compacts the heap, those of one future scheduled in one order since they are alike; two Envs, two loops, two foreign patches |
| `guild` | ids distinct, ordered, none skipped, shards routed; the bot gains no permission, reaches no member and changes no role at or above its top role | three slots, five milliseconds, four ids: a millisecond and the range are exhausted, explicit ids lie ahead of the clock; owner, bot, one member, an unknown id, the three kinds of roles, positions and permissions at and beyond the bot's own |
| `channels` | stores agree, nothing of a removed guild stays, histories survive replacement; an override belongs to one command and stays with it, more permissions never hide one | a stage and a forum channel, four ids (channel, message, thread, notice), a message used twice; a name in two scopes, two ids, conflicting overrides |
| `messages` | indexes, polls, listeners and loading marks follow the messages, the filter holds, answers are promised; checkouts are truthful | two messages (one of each of two owners), two interactions, one poll, instants before, at and after each deadline; four runs of a script |
| `time` | no deadline passed, holders notified, operations leave nothing due, failures kept; tables follow, everything due settles | two tasks (a sleeper, one that disturbs it), instants 0-2 (before, at, after), batch of one; one user, two entities |
| `work` | nothing runs after release, guard, generation and cleanup kept; work ends, errors surface, operations end | one record, all of its threads; two callers (one operates, one overlaps), two works, two generations (a restart) |
| `layouts` | what is stored is valid and served, an edit keeps flags; errors told once, and by themselves | seven trees, each rule of which one breaks at most, two files; three tasks, two bots |
| `pages` | no session wedged, receipts honest, nothing of another viewer, sessions end, the ledger implemented | two tabs, or a tab and a screenshot with two viewers, or a tab and a dialog with two actions: each pair of things that can meet |
| `recorder` | nothing lost, told once, a completed session ran everything and, at its end, left nothing, writes as promised; the bot's cache follows the guilds, nobody who left comes back | every job, three grants (one of an earlier session), two faults: a fault and one while recovering from it; one shard each for a small and a large guild |
| `assets` | media accounted, answers current; walks complete, stretches without gap | two pictures of a page or one of two pages, two requests, a queue of one; six messages with windows and pages of two |
| `projections` | reads show what may be seen, losses are told; fallbacks alone reach every sleeper | two changes after a publication, each kind of reference once; two tasks, instants 0-1 |
| `capture_closed` | the disagreement below | as `projections` |

Deadlock is not checked: a record, a session or a guild ends, and in the store
nothing happens by itself once ids are used up. What must go on is stated as
liveness. `MaxRevision`, `MaxGiven`, `Horizon`, `MaxTime`, `MaxClock`, `MaxGeneration`,
`LastInstant`, `MaxEntities`, `MaxIds`, `MaxCommandIds`, `MaxMessages`, `MaxInteractions`, `MaxMarks`, `MaxCopies`, `MaxWebhooks`, `MaxPatches`,
`MaxRoles`, `MaxPages`, `MaxSequence`, `MaxCaptures`, `MaxFaults`, `MaxRuns` and the budgets
of `MCPages` and `MCAssets` keep the state finite; `MaxPages` is also a limit of the code.
`MCTime` uses that its tasks are alike (symmetry), without liveness.

Fairness. `Executor`: pools run what they queue, the bot's functions return, queued
callbacks run, callers and owners end. `Lifecycle`: the loop and its clock run on, and
a cancelled task of the bot ends - `_detach_bot` has no timeout for those, so the
property needs it; threads need not end. `Settlement` (in `MCProjections`): the loop runs
what is queued and the wall clock passes; nothing obliges the test to call operations.
`TaskErrors` (in `MCLayouts`): an inspection that is queued runs. `Gateway` (in
`MCRecorder`): deliveries that are queued run and the query's timeout passes. `Pages`:
one coroutine goes through its steps of cleanup, the running action ends or is
cancelled, the screenshot's awaits return. All of it is weak: the loop is first
in, first out, and never withdraws a step it could take.

## Disagreements

Checked by a run, with its counterexample:

- `capture_closed`: the check of a capture asks for the sources its page refers to now,
  not for those of the pinned snapshot (`preview/__init__.py`); a republication in
  between forgets a deleted source, against `src/docs/guides/preview.md:138`.

Met while reading and modelling, without a run of their own:

- Two settlers share `_work.progress`; the coordinator replaces the future an operation
  waits on (`env.py:633`), against the comment at `env.py:635`. `HolderNotified` is what
  does hold.
- The coordinator waits for an operation that joins it, until a timeout
  (`env.py:675`), against `src/docs/guides/time-control.md:175`.
- A thread with a blank name is registered and announced, and then its notice is
  rejected (`backend/ops/channels.py:243`), against `src/docs/architecture.md:80`.
- `_entity_projection` (`preview/_snapshot.py`) lists an author that is a webhook or has
  left; `_filter_dependencies` (`preview/_pages.py`) asks the guild's members, so it counts
  as lost at once, against `preview/_dependencies.py:17`.
- Invite codes are the id modulo 10^8: ids 390625 ms apart share one, and the second
  invite replaces the first (`backend/ops/invites.py:37`).
- A coordinator's failure that an operation joined is raised by that operation and
  kept for the next one as well (`env.py:380`, `677`).
- A coordinator on its way to the fallback of one timer also fires the timers of
  recognized waits (`env.py:608`), of which `src/docs/concepts.md:109` says that the wall
  clock never does.
- `_pre_shutdown_complete` is never reset: a Preview opened after one cleanup is not
  closed by the next shutdown (`env.py:183`).
- A bulk ban bans an id of no known user and then fails, so neither it nor those
  before it are reported (`http/routes/guilds.py:403`).
- A list of roles may name one role twice; removal takes one occurrence
  (`backend/ops/guilds.py:252`).
- A role created without a position lands below the bot's own, where
  `src/docs/guides/permissions.md:71` expects it above.
- A global command a guild command shadows can be listed and not accepted
  (`backend/ops/commands.py:85`, `actors.py:215`).
- A deleted DM channel is still looked up by its id, a `KeyError`
  (`backend/ops/channels.py:204`).
- Stage instances and webhooks outlive the guild's channels (`backend/ops/guilds.py:107`),
  though `delete_channel` takes its stage instance along (`backend/ops/channels.py:57`).
- Threads of a deleted parent stay and cannot be reached, a case `backend/access.py:57`
  excludes by a pragma.
- A thread id listed twice stays listed once after the thread is deleted, a
  `KeyError` for the next guild payload (`backend/serializers.py:472`).

## Proofs

The assumptions are the named `ASSUME`s of the modules, which TLC evaluates on
each run, and nothing else: the theorems hold for any sets of keys, records,
people, tabs and ids, and for any bounds. Each invariant was an invariant of a
TLC run before it was proved.

- **`RuntimeProofs`**, the deadline queue: `QueueInv` is the types, `EntriesTell` (revisions tell writes
  apart, and a current entry carries the value its key has now), `HeapCoversLive`,
  `PassCoversOwed` and `PendingIsDue`. They need each other: a compaction keeps what is
  current, so what is owed must be current, and a current pending entry must be due for
  the refinement to hand it out. Hence `QueueKeeps` and, action by action,
  `QueueImplementsTable`. `HeapStaysBounded` counts: `Counted` adds to the bound that the heap
  and the live keys are finite, and a compaction leaves no more current dates than
  live keys.
  The hooks: `HooksInv` says of each Env, from how far it came, what it owns. `LoopsOwned`:
  a loop has one Env, so what an Env finds on its loop, and gives back, are the original
  methods. `PoolOwned`: over the layers of `submit` that were found there is the observing
  one and perhaps a patch of the test, nothing else, so whoever leaves last can tell
  whether to restore them (`Layered` counts those that stay). `ClocksOwned`: the clocks
  dispatch as long as an Env owns them, which it does from before it is up until after
  its loop is restored.
  The errors: `ErrorsInv` follows an exception through the tasks that carry it.
  `TracesTracked` and `QueuedDone`: a task whose exception nobody retrieved is tracked, and
  an inspection untracks only what is done. `NoneLost`: an exception that is neither
  recorded nor excused is in the log of such a task, so none is left once a detach has
  untracked them all. `RecordsOpen`: while the bot is live a recorded exception has a
  carrier without an owner among the tasks, so an owner that handles an exception it alone
  had never handles a recorded one; `HandledKept` is the other direction. What several tasks
  record at once keeps the record injective by `AppendedInjective`, since each new exception
  comes at the first of the tasks that have it.
  The callbacks: `IndexInv`. `Placed`: a timer of the index, wanted or not, is in the heap
  or ready, never both, so that compaction only drops entries. `InOrder`: the ready timers
  are due, no later than those of the heap, and in the order of their instants, so the
  first that is wanted is the earliest. `Fits`, the bound of the heap, outlives a pass
  because the last stale record retired on the way looks at all that the pass leaves
  (`PassFits`): without that look it fails with four timers.
- **`GuildProofs`**, the ids: `IInv` adds to the properties `Behind` (an allocated slot lies
  behind its millisecond's next one), `Past` (allocation never runs ahead of the clock)
  and `Routed`. Order rests on the first two: a later allocation at the clock is in a
  later millisecond or in a later slot.
- **`WorkProofs`**, the records: that nothing runs after release is not inductive; `ReleaseInv`
  adds `Handshake`, between the thread's progress and the record's state, and
  `NotesBound`: a released record has neither a thread that will enter the function nor
  a pool that will call it. `Handled` does the same for `ErrorsOnce`: a report is made only of a call whose
  submission was refused, whose Future was cancelled, or whose owner is gone.
  The Env: `EnvInv` adds to the invariants of `EnvKept` where the one operation is (`Where`, of the task
  that holds the guard; a verb may be nested, hence `depth`) and `NextInv`: what a
  detach does when it ends is decided when it begins and must still be possible then,
  so a bot is attached only to a started Env with a generation left. A detach ends
  only when no task and no thread of the bot is alive, and cancels its callbacks, which
  makes the change of generation safe (`OneGeneration`). Actions are shown to enter, stay in, leave or wait for the guard,
  and each of these keeps it. That cleanup in progress is never forgotten is a property
  of steps and needs no invariant; that it is awaited rests on who may forget it.
- **`SettlementProofs`**: `SettleInv` adds to the types and `HolderNotified` who runs and
  who waits. `Control` and `Turns`: one settler at a time is between two awaits, and an
  operation that classifies what is left has no coordinator beside it. Hence
  `Settled`: what the second quiet pass saw is still so when the settle returns, since
  meanwhile the loop runs nothing and a thread wakes only blocked tasks. `Failures`
  counts who received a coordinator's failure: whoever waited for it to advance, then
  whoever settles next. `HolderNotified` is inductive with these. That a step of the clock
  passes nothing follows from the next instant being the least one, which exists
  among natural numbers however many timers there are.
  Of what the clock ends, `ResourcesInv` adds `EndsAhead` to the tables: a scheduled end is
  later than now and can be carried out. So what is due when the clock moves is due at
  this very instant, `fails` is empty, and no entitlement is left behind another's error;
  it is kept since a start never moves and a consumable has no schedule. That an
  owner has one test subscription needs that the test route makes subscriptions only
  (`TestsSubscribe`), which is what it looks for.
- **`PagesProofs`**: `PagesInv` (types, numbers spent with an action, `Honest`, `Private`),
  `PhaseInv` (what each phase and each step of the teardown leaves), `HoldInv` (who holds the
  lock, and for what) and `OpenInv` (the registry and its limit). A session is not
  wedged because the lock has a holder that runs; that needs `PhaseInv`, because a
  teardown that has come past the server must have cancelled the action.
  `PagesImplementLedger` then follows action by action: only a settled or
  failed action writes an outcome, and a number once spent is never spent again.
  A page is `Private` to its viewer, and Python's (`Own`) to the first of the allowed ones.
  Of projections, that a read tells what may be seen now is shown of any copy whose fields
  are those of a publication and whose `sources` know every message that another
  one's interaction or notice refers to (`PageOK`): the filter asks `sources`, not the
  projection, whether that one may still be read. No change of the world touches
  the copy, and each publication has this form whatever the rights are then.
- **`PagesProofs`**, lists: messages and candidates are in one kind of order each, so what a page
  shows is the first of a finite set in a linear order (`Lead`), on one side of a place
  (`SideFacts`): no gap, and more behind it exactly where the side holds more than a page. That a
  walk meets everything needs `OnTheWay`: what was there and is not met yet lies after the
  cursor of the page and after the one that leads on, whatever is deleted in between; so
  the last page leaves nothing. Windows are the highest messages up to an end, also
  around a target (`AroundFacts`); a step to older or newer messages moves the end by ranks, and
  meets the window before it because `HISTORY_STEP` is less than
  `HISTORY_WINDOW_SIZE` (`QueriesAssumption`) and every rank is some message's (`RankedFacts`).
- **`ChannelsProofs`**: `StoresSound` is inductive; it is proved through what each
  composite operation (create, drop, replace) does to each store. `StoresKept`
  needs `Rooted`: ids of channels and messages were given out before, so that a new one
  collides with neither; members are of threads only; and while the guild is there
  each of its threads is in its list, which is what a departure walks.
  Of commands, `IdsOwned` with the types is inductive, because a sync gives new names ids
  above all earlier ones and keeps those of the others; that more rights never hide a
  command is shown layer by layer of `Access`, for any overrides.
- **`InteractionsProofs`**: an operation is a chain of changes to one record. What each
  link does to each part of the store is proved once; `ChannelRight` (index, orders,
  deadlines and what listeners heard are functions of the messages, ids lie within
  `issued`, record types) and `OwnedRight` (interactions are numbered, a message completes
  only its own interaction, an original names the interaction it answers) are then
  shown for each action, together with what a new message may say and
  the step of `Replies` it is (`Kept`). Without the ids within `issued` a
  fresh message could collide; without the naming of originals an edit could
  complete another's answer.
- **`RecorderProofs`**: that nothing is lost is not inductive. `WriteInv` ties what Discord
  carried out, or may still carry out, to the intents of the journal and to the log;
  intents have different paths, so an answer belongs to one of them. `OwnInv` says whose
  each grant is, and what an answer proves about it (an answered create names the only
  grant not yet held); `CommandInv` the same of the command. `PhaseInv` says where the process
  can be with a write in flight, `EntitledInv` which steps of a job come after the
  evidence that lets them touch what is not the session's own, `WordsInv` that a prompt
  already shown is on disk, `CloseInv` that a cleanup that left something said so.
  `JobsInv` and `StatusInv` carry what a status means, of the journal and of the process
  that will save it: completed is of a capture all of whose jobs are done and none of whose
  creates is open, and a process past its cleanup leaves nothing that it does not
  report. Each action is shown to keep them through a few changes of the journal (begin, settle,
  forget, mark). `ToldOnce` needs that the jobs of the first recorder are started alone
  (`RecorderAssumption`): it has no memory of its prompt.
- **`RecorderProofs`**, checkouts: that what a person started is owed says nothing of the
  program until it is told what the saved stage must say wherever it is killed.
  `PromptsKept` ties an instruction that was shown, or only may still be followed, to its
  mark in the stage and that mark to the cancellation that is owed; `BasesKept` keeps what
  was there before out of what counts as started, which needs both lists read before the
  first instruction; `LiveKept` says that the live script manages only what it selected.
  `StandsAt` says what each step may rely on: none asks again for what is marked, and
  none but the cancellation runs once that is marked. Then a verification of
  the upgrading script recovers everything that was started and is listed, and that of the live
  script has selected it. `Free` is what its steps keep between the baseline and the cancellation.
- **`GuildProofs`**, roles and members: `GuildInv` says that the top role of the bot is always its
  integration's, which it holds and which is above @everyone. It rests on no call of
  the bot touching that role, since each asks for a role below the bot's own, and on the
  test adding and removing other members only. A call then either changes nothing but
  roles below the top role, and gives or takes only those (`TameRoles`, `TameMembers`), or
  creates a role, which moves all of the others together. Both imply `Kept`, from which
  `RanksKept` and `NoEscalation` follow. That a member's top position is one of its roles'
  is shown by minimal counterexample over the list.

Only model-checked: liveness and what rests on fairness (`WorkEnds`, `ErrorsSurface`,
`SessionEnds`, `BotFed`, `Recovers`), which the provers do not reach; and, so far, the
safety properties of `Layouts` (`LayoutsKept`) and `Assets` (`MediaAccounted`,
`PicturesTrue`). They rest on recursion over a tree and on folds over finite sequences,
whose lemmas are inductions over data.

## Not modelled

Serialization, CDN paths, parity reports, assertions, fonts and vendored scripts: no
state of their own, or third-party. The router and fault injection: matching and
counters of one step. Voice states and expressions: small stores of one operation
each. The browser client: JavaScript of one page. Scripts that replay or validate
recorded evidence. Internals of discord.py are inputs of `Settlement` and `Executor`.

## Plan

1. Proofs: the properties of `Assets`, once its publications are reasoned about one source
   at a time.
2. The action, draft and session machines of the browser client, over `Ledger`.
3. Composition: `Settlement` over `DeadlineTable` in place of its set of instants, and
   `Lifecycle` over `Executor`.
