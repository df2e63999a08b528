------------------------------- MODULE Assets --------------------------------
(***************************************************************************)
(* The media of a Preview session: what its pages retain of the pictures   *)
(* they show (preview/_pages.py, _assets.py), and the serial worker that    *)
(* decodes them (_media.py).  Payloads are kept once, by content, under one *)
(* budget; a page knows a picture by a handle, and whoever asks for one is  *)
(* authorized against the backend before and after the decoding.            *)
(***************************************************************************)
EXTENDS Integers, FiniteSets, SequencesExt, FiniteSetsExt, Functions

CONSTANTS
  Tabs,       \* pages of browsers and of screenshots
  Sources,    \* what a page may show: an attachment, an embed's image, an avatar
  Owner,      \* who keeps it: "attachment" "sticker" "message" "emoji" "avatar"
  Contents,   \* payloads, told apart by their digests
  Malformed,  \* the ones no decoder takes
  Displayed,  \* the ones whose displayed form is not the payload itself
  Times,      \* media times asked for; 0 is the poster's
  Requests,   \* places of the page server for a request in flight
  MaxMedia,   \* _MAX_MEDIA_BYTES; a payload, a displayed form, a frame are 1
  MaxQueue    \* MAX_QUEUE

AssetsAssumption ==
  /\ Malformed \subseteq Contents /\ Displayed \subseteq Contents
  /\ Owner \in [Sources -> {"attachment", "sticker", "message", "emoji", "avatar"}]
  /\ 0 \in Times /\ Times \subseteq Nat /\ MaxMedia \in Nat /\ MaxQueue \in Nat \ {0}

VARIABLES
  content,    \* a source's bytes; None: not in the CDN; Gone: its owner is gone
  allowed,    \* the pages whose viewers may read the channel's history
  page,       \* the open pages: handles, what is published, the latest result
  media,      \* retained payloads, the bytes they take, and the worker
  request,    \* requests for media
  session     \* "open", "server", "worker", "closed"

vars == <<content, allowed, page, media, request, session>>

None == "none"
Gone == "gone"
Closed == [assets |-> << >>, shown |-> {}, results |-> {}, open |-> FALSE]
Idle == [state |-> "idle"]

Blob == [refs |-> 0, normals |-> 0, size |-> 0]
Asset(s, c) == [source |-> s, digest |-> c, normalized |-> FALSE, validated |-> FALSE,
                capture |-> {}, poster |-> {}, extra |-> 0]
NewWorker == [cache |-> {}, tasks |-> << >>, released |-> {}]

(***************************************************************************)
(* The worker.  A released payload takes its verdict along; its jobs are    *)
(* cancelled, and stay in the queue until the loop has ended them.          *)
(***************************************************************************)
Jobs(w, c) == {k \in DOMAIN w.tasks : k[1] = c}

Forgotten(w, c) ==
  [w EXCEPT !.cache = @ \ {c},
            !.released = IF Jobs(w, c) # {} THEN @ \cup {c} ELSE @,
            !.tasks = [k \in DOMAIN @ |->
                         IF k[1] = c /\ @[k].state # "done"
                         THEN [@[k] EXCEPT !.state = "cancelled"] ELSE @[k]]]

Finished(w, k) ==
  LET rest == Restrict(w.tasks, DOMAIN w.tasks \ {k})
      last == \A j \in DOMAIN rest : j[1] # k[1]
  IN  IF k[1] \in w.released /\ last
      THEN [cache |-> w.cache \ {k[1]}, tasks |-> rest, released |-> w.released \ {k[1]}]
      ELSE [w EXCEPT !.tasks = rest]

(***************************************************************************)
(* Payloads.  A payload goes with the last record that retains it, its      *)
(* displayed form with the last record that was served it.                  *)
(***************************************************************************)
Room(m, n) == m.used + n <= MaxMedia

RetainBlob(m, c) ==
  LET known == c \in DOMAIN m.blobs
      entry == IF known THEN m.blobs[c] ELSE Blob
  IN  [m EXCEPT !.blobs = (c :> [entry EXCEPT !.refs = @ + 1]) @@ @,
                !.used = IF known THEN @ ELSE @ + 1]

\* what a mutant does: the displayed form's bytes are not given back
ReleaseBlobLeaks(m, c, normalized) ==
  LET entry == m.blobs[c]
      last == entry.refs = 1
  IN  IF last THEN [m EXCEPT !.blobs = Restrict(@, DOMAIN @ \ {c}), !.used = @ - 1,
                             !.worker = Forgotten(@, c)]
      ELSE [m EXCEPT !.blobs[c].refs = @ - 1,
                     !.blobs[c].normals = IF normalized THEN @ - 1 ELSE @]

ReleaseBlob(m, c, normalized) ==
  LET entry == m.blobs[c]
      last == entry.refs = 1
      plain == normalized /\ entry.normals = 1
      freed == (IF last THEN 1 ELSE 0) + (IF plain \/ last THEN entry.size ELSE 0)
  IN  [m EXCEPT
        !.blobs = IF last THEN Restrict(@, DOMAIN @ \ {c})
                  ELSE [@ EXCEPT ![c] = [refs |-> entry.refs - 1,
                                         normals |-> entry.normals - (IF normalized THEN 1 ELSE 0),
                                         size |-> IF plain THEN 0 ELSE entry.size]],
        !.used = Max({0, @ - freed}),
        !.worker = IF plain \/ last THEN Forgotten(@, c) ELSE @]

ReleaseRecord(m, r) ==
  LET less == [m EXCEPT !.used = Max({0, @ - r.extra})]
  IN  IF r.digest = None THEN less ELSE ReleaseBlob(less, r.digest, r.normalized)

ReleaseAll(m, assets, handles) ==
  FoldSet(LAMBDA h, acc : ReleaseRecord(acc, assets[h]), m, handles \cap DOMAIN assets)

(***************************************************************************)
(* A page asks for the handle of a source while it is projected.  `pg' is   *)
(* the page, `m' the media, `seen' the handles referenced so far, `fresh'   *)
(* the names never used by the page.                                        *)
(***************************************************************************)
Resolved(m, s) ==
  IF content[s] \notin Contents THEN [m |-> m, digest |-> None, full |-> FALSE]
  ELSE IF content[s] \in DOMAIN m.blobs \/ Room(m, 1)
  THEN [m |-> RetainBlob(m, content[s]), digest |-> content[s], full |-> FALSE]
  ELSE [m |-> m, digest |-> None, full |-> TRUE]

AssetId(acc, s) ==
  LET assets == acc.pg.assets
      found == {h \in DOMAIN assets : assets[h].source = s}
      old == Max(found)
      retained == old \in acc.pg.results
      first == Resolved(acc.m, s)
      early == found # {} /\ first.full /\ assets[old].digest # None /\ ~retained
      again == IF early THEN Resolved(ReleaseRecord(first.m, assets[old]), s) ELSE first
      new == Min(acc.fresh)
      keeps == found # {} /\ assets[old].digest = again.digest
      bound(m, h, table) ==
        [pg |-> [acc.pg EXCEPT !.assets = table], m |-> m,
         seen |-> acc.seen \cup {h}, fresh |-> acc.fresh \ {h}]
  IN  IF found = {} THEN bound(first.m, new, (new :> Asset(s, first.digest)) @@ assets)
      ELSE IF keeps /\ early
      THEN bound(again.m, old, (old :> Asset(s, again.digest)) @@ assets)
      ELSE IF keeps
      THEN bound(ReleaseRecord(again.m, Asset(s, again.digest)), old, assets)
      ELSE LET gone == IF retained THEN {} ELSE {old}
           IN  bound(IF retained \/ early THEN again.m ELSE ReleaseRecord(again.m, assets[old]),
                     new, (new :> Asset(s, again.digest)) @@ Restrict(assets, DOMAIN assets \ gone))

(***************************************************************************)
(* One publication: the sources it shows in the order they are met; then    *)
(* what neither it nor the latest result refers to is let go.  A viewer     *)
(* without access is shown none, and the page keeps none.                   *)
(***************************************************************************)
Handles(p) ==
  LET asked == {request[q].handle : q \in {r \in Requests : request[r].state \in {"waiting", "resumed"}}}
  IN  (0..(2 * Cardinality(Sources) + Cardinality(Requests))) \ (DOMAIN page[p].assets \cup asked)

Reconciled(acc) ==
  LET kept == acc.seen \cup acc.pg.results
      rest == Restrict(acc.pg.assets, DOMAIN acc.pg.assets \cap kept)
  IN  [page |-> [acc.pg EXCEPT !.assets = rest, !.shown = acc.seen],
       media |-> ReleaseAll(acc.m, acc.pg.assets, DOMAIN acc.pg.assets \ kept)]

Cleared(m, pg) ==
  [m |-> ReleaseAll(m, pg.assets, DOMAIN pg.assets),
   pg |-> [pg EXCEPT !.assets = << >>, !.results = {}]]

Publish(p, order, anew) ==
  LET start == IF anew \/ ~allowed[p] THEN Cleared(media, page[p])
               ELSE [m |-> media, pg |-> page[p]]
      first == [m |-> start.m, pg |-> [start.pg EXCEPT !.open = TRUE],
                seen |-> {}, fresh |-> Handles(p)]
      last == Reconciled(FoldLeft(AssetId, first, IF allowed[p] THEN order ELSE <<>>))
  IN  page' = [page EXCEPT ![p] = last.page] /\ media' = last.media

Orders == {o \in BoundedSeq(Sources, Cardinality(Sources)) : IsInjective(o)}

OpenPage(p) ==
  /\ session = "open" /\ ~page[p].open
  /\ \E o \in Orders : Publish(p, o, FALSE)
  /\ UNCHANGED <<content, allowed, request, session>>

\* a refresh, or a navigation (anew) that first clears the page
Refresh(p) ==
  /\ session = "open" /\ page[p].open
  /\ \E o \in Orders, anew \in BOOLEAN : Publish(p, o, anew)
  /\ UNCHANGED <<content, allowed, request, session>>

\* the next action is admitted: the last one's result is dropped
DropResult(p) ==
  LET old == page[p].results \ page[p].shown
  IN  /\ session = "open" /\ page[p].open /\ page[p].results # {}
      /\ media' = ReleaseAll(media, page[p].assets, old)
      /\ page' = [page EXCEPT ![p].results = {},
                              ![p].assets = Restrict(@, DOMAIN @ \ old)]
      /\ UNCHANGED <<content, allowed, request, session>>

\* a query's result names the avatars it shows
KeepResult(p) ==
  LET faces == {h \in page[p].shown : page[p].assets[h].source \in
                                        {s \in Sources : Owner[s] = "avatar"}}
  IN  /\ session = "open" /\ page[p].open /\ page[p].results = {} /\ faces # {}
      /\ page' = [page EXCEPT ![p].results = faces]
      /\ UNCHANGED <<content, allowed, media, request, session>>

\* closed by its browser, expired, or the screenshot is done
ClosePage(p) ==
  /\ session = "open" /\ page[p].open
  /\ media' = Cleared(media, page[p]).m
  /\ page' = [page EXCEPT ![p] = Closed]
  /\ UNCHANGED <<content, allowed, request, session>>

(***************************************************************************)
(* A request.  It is authorized, then waits for the worker's job on its     *)
(* payload and time, joining one that is under way; the answer is made only *)
(* if the page still may show that very payload.                            *)
(***************************************************************************)
MayServe(p, h) ==
  /\ page[p].open /\ allowed[p]
  /\ h \in DOMAIN page[p].assets
  /\ LET r == page[p].assets[h]
         now == content[r.source]
         owner == Owner[r.source]
     IN  /\ r.digest # None /\ now # Gone
         /\ owner \in {"attachment", "sticker"} => now \in {None, r.digest}
         /\ owner \in {"message", "emoji"} => now = r.digest

Ends(q, end) == request' = [request EXCEPT ![q] = end]
Served(c) == [state |-> "served", body |-> c]
Refused == [state |-> "refused"]
Dropped == [state |-> "dropped"]

Modes == {[how |-> "download", time |-> 0], [how |-> "show", time |-> 0], [how |-> "poster", time |-> 0]}
           \cup {[how |-> "capture", time |-> t] : t \in Times}

Ready(r, mode) ==
  \/ mode.how = "download"
  \/ mode.how = "poster" /\ r.poster # {}
  \/ mode.how = "capture" /\ mode.time \in r.capture
  \/ mode.how = "show" /\ r.validated

Pending(q) == request[q].state \in {"waiting", "resumed"}

\* validate(): a verdict is remembered, a job is joined, the queue has a limit
Awaits(q, p, h, mode) ==
  LET c == page[p].assets[h].digest
      k == <<c, mode.time>>
      w == [media.worker EXCEPT !.released = @ \ {c}]
      joins == k \in DOMAIN w.tasks
      wait == [state |-> "waiting", page |-> p, handle |-> h, mode |-> mode,
               digest |-> c, result |-> "none"]
  IN  IF c \in w.cache \/ (~joins /\ Cardinality(DOMAIN w.tasks) >= MaxQueue)
      THEN Ends(q, Refused) /\ media' = [media EXCEPT !.worker = w]
      ELSE /\ Ends(q, wait)
           /\ media' = [media EXCEPT !.worker =
                IF joins THEN w
                ELSE [w EXCEPT !.tasks = (k :> [state |-> "queued", result |-> "none"]) @@ @]]

Ask(q, p, h, mode) ==
  /\ session = "open" /\ ~Pending(q)
  /\ h \in DOMAIN page[p].assets
  /\ IF ~MayServe(p, h) THEN Ends(q, Refused) /\ UNCHANGED media
     ELSE IF Ready(page[p].assets[h], mode)
     THEN Ends(q, Served(page[p].assets[h].digest)) /\ UNCHANGED media
     ELSE Awaits(q, p, h, mode)
  /\ UNCHANGED <<content, allowed, page, session>>

(***************************************************************************)
(* The worker's jobs: one process at a time, a deadline over the wait for   *)
(* the lock and the decoding, a verdict kept unless its payload was let go. *)
(***************************************************************************)
Task(k) == media.worker.tasks[k]
Becomes(k, state, result) ==
  media' = [media EXCEPT !.worker.tasks[k] = [state |-> state, result |-> result]]

StartDecode(k) ==
  /\ k \in DOMAIN media.worker.tasks /\ Task(k).state = "queued"
  /\ \A j \in DOMAIN media.worker.tasks : Task(j).state # "decoding"
  /\ Becomes(k, "decoding", "none")
  /\ UNCHANGED <<content, allowed, page, request, session>>

Verdict(w, c) ==
  IF c \in w.released THEN w.cache
  ELSE IF c \in Malformed THEN w.cache \cup {c} ELSE w.cache \ {c}

Decoded(k) ==
  /\ k \in DOMAIN media.worker.tasks /\ Task(k).state = "decoding"
  /\ media' = [media EXCEPT
       !.worker.tasks[k] = [state |-> "done",
                            result |-> IF k[1] \in Malformed THEN "bad" ELSE "ok"],
       !.worker.cache = Verdict(media.worker, k[1])]
  /\ UNCHANGED <<content, allowed, page, request, session>>

\* the process died, its answer could not be read, or the deadline passed
DecodeFails(k) ==
  /\ k \in DOMAIN media.worker.tasks /\ Task(k).state \in {"queued", "decoding"}
  /\ Becomes(k, "done", "bad")
  /\ UNCHANGED <<content, allowed, page, request, session>>

Cancelled(k) ==
  /\ k \in DOMAIN media.worker.tasks /\ Task(k).state = "cancelled"
  /\ Becomes(k, "done", "cancelled")
  /\ UNCHANGED <<content, allowed, page, request, session>>

\* _finish, then those who wait are called back
Finish(k) ==
  /\ k \in DOMAIN media.worker.tasks /\ Task(k).state = "done"
  /\ media' = [media EXCEPT !.worker = Finished(@, k)]
  /\ request' = [q \in Requests |->
       LET r == request[q]
       IN  IF r.state = "waiting" /\ <<r.digest, r.mode.time>> = k
           THEN [r EXCEPT !.state = "resumed", !.result = Task(k).result] ELSE r]
  /\ UNCHANGED <<content, allowed, page, session>>

(***************************************************************************)
(* The rest of _prepare_asset, after the await.                             *)
(***************************************************************************)
Frames(r) == Cardinality(r.capture \cup r.poster)

Prepared(r, mode) ==
  LET shot == [r EXCEPT
        !.capture = IF mode.how = "capture" THEN {mode.time} ELSE @,
        !.poster = IF mode.how = "poster" \/ (~r.validated /\ mode.how # "capture") THEN {0} ELSE @,
        !.normalized = TRUE, !.validated = TRUE]
  IN  [shot EXCEPT !.extra = Frames(shot)]

Installs(q, r) ==
  LET c == r.digest
      h == request[q].handle
      entry == media.blobs[c]
      new == Prepared(r, request[q].mode)
      size == IF ~r.normalized /\ entry.normals = 0 /\ c \in Displayed THEN 1 ELSE 0
      more == size + new.extra - r.extra
  IN  IF media.used + more > MaxMedia
      THEN Ends(q, Refused) /\ UNCHANGED <<page, media>>
      ELSE /\ Ends(q, Served(c))
           /\ page' = [page EXCEPT ![request[q].page].assets[h] = new]
           /\ media' = [media EXCEPT !.used = @ + more,
                !.blobs[c] = IF r.normalized THEN @
                             ELSE [refs |-> @.refs, normals |-> @.normals + 1,
                                   size |-> IF @.normals = 0 THEN size ELSE @.size]]

\* what a mutant does: nobody looks again after the decoding
StillServesUnchecked(q) ==
  /\ page[request[q].page].open
  /\ request[q].handle \in DOMAIN page[request[q].page].assets
  /\ page[request[q].page].assets[request[q].handle].digest = request[q].digest

StillServes(q) ==
  /\ MayServe(request[q].page, request[q].handle)
  /\ page[request[q].page].assets[request[q].handle].digest = request[q].digest

Resume(q) ==
  /\ request[q].state = "resumed"
  /\ IF request[q].result = "cancelled" THEN Ends(q, Dropped) /\ UNCHANGED <<page, media>>
     ELSE IF request[q].result = "bad" \/ ~StillServes(q)
     THEN Ends(q, Refused) /\ UNCHANGED <<page, media>>
     ELSE Installs(q, page[request[q].page].assets[request[q].handle])
  /\ UNCHANGED <<content, allowed, session>>

(***************************************************************************)
(* The world, and the end of the session: the server closes first, when its *)
(* patience ends it cancels the requests; then the worker; then the pages.  *)
(***************************************************************************)
World ==
  /\ \/ \E s \in Sources, c \in Contents \cup {None, Gone} :
          c # content[s] /\ content[s] # Gone /\ content' = [content EXCEPT ![s] = c] /\ UNCHANGED allowed
     \/ \E p \in Tabs : allowed' = [allowed EXCEPT ![p] = ~@] /\ UNCHANGED content
  /\ session = "open"
  /\ UNCHANGED <<page, media, request, session>>

CloseServer ==
  /\ session = "open" /\ session' = "server"
  /\ UNCHANGED <<content, allowed, page, media, request>>

ServerClosed ==
  /\ session = "server" /\ session' = "worker"
  /\ request' = [q \in Requests |-> IF Pending(q) THEN Dropped ELSE request[q]]
  /\ media' = [media EXCEPT !.worker.tasks =
       [k \in DOMAIN @ |-> IF @[k].state = "done" THEN @[k] ELSE [@[k] EXCEPT !.state = "cancelled"]]]
  /\ UNCHANGED <<content, allowed, page>>

Cleanup ==
  /\ session = "worker" /\ DOMAIN media.worker.tasks = {}
  /\ session' = "closed"
  /\ page' = [p \in Tabs |-> Closed]
  /\ media' = [blobs |-> << >>, used |-> 0, worker |-> NewWorker]
  /\ UNCHANGED <<content, allowed, request>>

Init ==
  /\ content \in [Sources -> Contents]
  /\ allowed = [p \in Tabs |-> TRUE]
  /\ page = [p \in Tabs |-> Closed]
  /\ media = [blobs |-> << >>, used |-> 0, worker |-> NewWorker]
  /\ request = [q \in Requests |-> Idle]
  /\ session = "open"

Keys == Contents \X Times

Next ==
  \/ \E p \in Tabs : OpenPage(p) \/ Refresh(p) \/ DropResult(p) \/ KeepResult(p) \/ ClosePage(p)
  \/ \E q \in Requests, p \in Tabs, mode \in Modes : \E h \in DOMAIN page[p].assets : Ask(q, p, h, mode)
  \/ \E k \in Keys : StartDecode(k) \/ Decoded(k) \/ DecodeFails(k) \/ Cancelled(k) \/ Finish(k)
  \/ \E q \in Requests : Resume(q)
  \/ World \/ CloseServer \/ ServerClosed \/ Cleanup

Spec == Init /\ [][Next]_vars

(***************************************************************************)
(* Properties                                                              *)
(***************************************************************************)
Records == UNION {{<<p, h>> : h \in DOMAIN page[p].assets} : p \in Tabs}
Of(x) == page[x[1]].assets[x[2]]
Holding(c) == {x \in Records : Of(x).digest = c}

Worker == media.worker

\* The budget: what is counted is what is retained, payloads, displayed forms
\* and frames, each payload with the records that hold it, over any order of
\* publications, closings and decodings (_retain_blob, _release_blob).
Accounted ==
  LET blobs == media.blobs
      sizes == MapThenSumSet(LAMBDA c : 1 + blobs[c].size, DOMAIN blobs)
      extras == MapThenSumSet(LAMBDA x : Of(x).extra, Records)
  IN  /\ DOMAIN blobs = {Of(x).digest : x \in Records} \ {None}
      /\ \A c \in DOMAIN blobs :
           /\ blobs[c].refs = Cardinality(Holding(c))
           /\ blobs[c].normals = Cardinality({x \in Holding(c) : Of(x).normalized})
      /\ media.used = sizes + extras
      /\ media.used <= MaxMedia

\* The worker: it decodes one payload at a time, its queue is within its limit,
\* and it remembers nothing of a payload that nobody retains (MediaWorker).
WorkerForgets ==
  /\ Cardinality({k \in DOMAIN Worker.tasks : Worker.tasks[k].state = "decoding"}) <= 1
  /\ Cardinality(DOMAIN Worker.tasks) <= MaxQueue
  /\ Worker.cache \subseteq DOMAIN media.blobs
  /\ Worker.released \subseteq {k[1] : k \in DOMAIN Worker.tasks}

\* A handle stands for one payload of one source as long as its page knows it,
\* also where the source is replaced and brought back (_Page.asset_id).
HandleStays ==
  \A p \in Tabs : \A h \in DOMAIN page[p].assets \cap DOMAIN page'[p].assets :
    /\ page'[p].assets[h].source = page[p].assets[h].source
    /\ page'[p].assets[h].digest = page[p].assets[h].digest

\* What is answered is what the viewer may see at that moment: whatever changed
\* while it was decoded, no replaced, deleted or withdrawn picture is served.
AnswersCurrent ==
  \A q \in Requests :
    /\ request[q].state = "resumed" /\ request'[q].state = "served"
    => LET r == request[q]
           known == page[r.page].assets
       IN  /\ allowed[r.page] /\ r.handle \in DOMAIN known
           /\ content[known[r.handle].source] # Gone
           /\ Owner[known[r.handle].source] \in {"message", "emoji"} =>
                content[known[r.handle].source] = request'[q].body

=============================================================================
