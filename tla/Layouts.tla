------------------------------ MODULE Layouts ------------------------------
(***************************************************************************)
(* The layout of a message of the bot through its life: the message is sent *)
(* (or deferred and completed later), then edited, each edit replacing some *)
(* of its text, components, attachments and flags and keeping the others.   *)
(* What is kept is checked together with what is new, and it is normalised  *)
(* again only when the flag of the layout changes.  Beside it, the modal    *)
(* last shown, which the actors and the Preview check again when they use   *)
(* it (src/simcord/backend/ops/messages.py, http/_helpers.py).              *)
(*                                                                         *)
(* A component tree (src/simcord/components.py) is the sequence of its      *)
(* components in the order walk_components yields them.  A component is a   *)
(* record with its kind, the wire id (0: none given), the custom_id         *)
(* (NoName: none), the number of characters of a text, the media it shows,  *)
(* the place of its parent in the sequence (0: a root) and the key it hangs *)
(* by; "fits" says whether its own scalar fields (labels, styles, URLs,     *)
(* options, bounds of a select) are inside the limits of its kind.          *)
(* "select" stands for the five kinds of menu, "picker" for the modal       *)
(* controls of types 19, 21, 22 and 23.                                     *)
(***************************************************************************)
EXTENDS Integers, FiniteSets, FiniteSetsExt, Functions, SequencesExt

CONSTANTS
  NoName,       \* no custom_id, no file name
  MaxId,        \* largest wire id (2^32 - 1)
  TreeSize,     \* components of a message (40)
  LegacyRows,   \* rows of a message without the flag (5)
  RowSize,      \* buttons of a row (5)
  SectionSize,  \* texts of a section (3)
  GallerySize,  \* pictures of a gallery (10)
  ModalSize,    \* components of a modal (5)
  TextLimit,    \* characters of all the texts of a message (4000)
  Keep,         \* a field the request does not carry
  Trees,        \* component lists a request may carry
  Modals,       \* component lists of modals
  Files,        \* names of uploaded files
  FirstId,      \* first id the server gives to an attachment
  MaxIds,       \* bound: attachments stored
  MaxUploads    \* bound: files of one request

VARIABLES
  message,    \* the message, NoMessage before it is sent
  stored,     \* ids of the attachments the CDN serves
  modal       \* the modal shown last, as it was stored (the two share nothing:
              \* a behaviour follows a message or a modal)

vars == <<message, stored, modal>>

-----------------------------------------------------------------------------
(* The rules of component trees *)

V2Kinds == {"section", "text", "gallery", "file", "separator", "container"}
ContainerChildren == {"row", "section", "text", "gallery", "file", "separator"}
Controls == {"input", "select", "picker"}

Roots(tree) == {i \in DOMAIN tree : tree[i].parent = 0}
Under(tree, i, key) == {j \in DOMAIN tree : tree[j].parent = i /\ tree[j].at = key}
Kinds(tree, nodes) == {tree[i].kind : i \in nodes}

\* What the check of a message's component opens; walk_components opens every key.
Opens(kind) == CASE kind \in {"row", "container"} -> {"components"}
                 [] kind = "section"              -> {"components", "accessory"}
                 [] kind = "label"                -> {"component"}
                 [] OTHER                         -> {}

\* The components that a check reaches.
Visited(tree) ==
  LET reached[i \in DOMAIN tree] ==
        \/ tree[i].parent = 0
        \/ /\ tree[i].at \in Opens(tree[tree[i].parent].kind)
           /\ reached[tree[i].parent]
  IN {i \in DOMAIN tree : reached[i]}

\* A component's own fields: a select's bounds and options, a button's style, and so on.
Fits(c) == c.fits

\* The ids and the custom_ids given to the components reached are unique.
ExplicitIds(tree) == {tree[i].id : i \in Visited(tree)} \ {0}
Unique(tree, of(_), none) ==
  \A i, j \in Visited(tree) : i # j /\ of(tree[i]) = of(tree[j]) => of(tree[i]) = none
GivenId(c) == c.id
CustomId(c) == c.name

\* The shape a component of a message must have.
Shaped(tree, i) ==
  LET c == tree[i]
      children == Under(tree, i, "components")
      accessory == Under(tree, i, "accessory")
  IN CASE c.kind = "row" ->
            /\ Cardinality(children) \in 1..RowSize
            /\ Kinds(tree, children) \subseteq {"button", "select"}
            /\ "select" \in Kinds(tree, children) => Cardinality(children) = 1
       [] c.kind = "section" ->
            /\ Cardinality(children) \in 1..SectionSize
            /\ Kinds(tree, children) = {"text"}
            /\ Cardinality(accessory) = 1
            /\ Kinds(tree, accessory) \subseteq {"button", "thumbnail"}
       [] c.kind = "container" -> Kinds(tree, children) \subseteq ContainerChildren
       [] c.kind = "gallery" -> Len(c.media) \in 1..GallerySize
       [] OTHER -> TRUE

TextTotal(tree) ==
  FoldFunctionOnSet(+, 0, [i \in DOMAIN tree |-> tree[i].text], Visited(tree))

CheckComponents(tree) ==
  /\ \A i \in Visited(tree) : Fits(tree[i]) /\ Shaped(tree, i)
  /\ Unique(tree, GivenId, 0)
  /\ Unique(tree, CustomId, NoName)
  /\ TextTotal(tree) <= TextLimit

\* The k-th component without an id gets the k-th positive number nobody gave.
Generated(k, explicit) ==
  CHOOSE n \in 1..(k + Cardinality(explicit)) :
    n \notin explicit /\ Cardinality((1..n) \ explicit) = k
AssignIds(tree, explicit) ==
  [i \in DOMAIN tree |->
     IF tree[i].id # 0 THEN tree[i]
     ELSE [tree[i] EXCEPT !.id = Generated(Cardinality({j \in 1..i : tree[j].id = 0}), explicit)]]

\* Without the flag every id is dropped before the tree is looked at.
WithoutIds(tree) == [i \in DOMAIN tree |-> [tree[i] EXCEPT !.id = 0]]

ValidComponents(tree, v2) ==
  /\ Len(tree) <= TreeSize
  /\ IF v2 THEN /\ \A i \in DOMAIN tree : tree[i].id \in 0..MaxId
                /\ Kinds(tree, Roots(tree)) \subseteq {"row"} \cup V2Kinds
           ELSE /\ Cardinality(Roots(tree)) <= LegacyRows
                /\ Kinds(tree, DOMAIN tree) \cap V2Kinds = {}
                /\ Kinds(tree, Roots(tree)) \subseteq {"row"}
  /\ CheckComponents(IF v2 THEN tree ELSE WithoutIds(tree))
NormalizeComponents(tree, v2) ==
  IF v2 THEN AssignIds(tree, ExplicitIds(tree)) ELSE WithoutIds(tree)

\* A modal: texts, and controls each in a label or alone in a row.
ModalShaped(tree, i) ==
  LET c == tree[i]
      held == Under(tree, i, IF c.kind = "label" THEN "component" ELSE "components")
  IN \/ c.kind = "text"
     \/ c.kind \in {"label", "row"} /\ Cardinality(held) = 1 /\ Kinds(tree, held) \subseteq Controls
     \/ c.kind \in Controls /\ c.parent # 0
ValidModal(tree) ==
  /\ Cardinality(Roots(tree)) \in 1..ModalSize
  /\ \A i \in Visited(tree) : Fits(tree[i]) /\ ModalShaped(tree, i) /\ tree[i].id \in 0..MaxId
  /\ Unique(tree, GivenId, 0)
  /\ Unique(tree, CustomId, NoName)
NormalizeModal(tree) == AssignIds(tree, ExplicitIds(tree))

\* References to uploaded files by name: checked, then replaced by the attachment,
\* the last one where two have the name.
FilesNamed(tree) ==
  UNION {{tree[i].media[k].file : k \in DOMAIN tree[i].media} : i \in DOMAIN tree} \ {NoName}
ReferencesFound(tree, attachments) ==
  FilesNamed(tree) \subseteq {attachments[k].file : k \in DOMAIN attachments}
AttachmentNamed(file, attachments) ==
  attachments[Max({k \in DOMAIN attachments : attachments[k].file = file})].id
Resolve(tree, attachments) ==
  [i \in DOMAIN tree |->
     [tree[i] EXCEPT !.media =
        [k \in DOMAIN tree[i].media |->
           LET shown == tree[i].media[k] IN
           IF shown.file = NoName THEN shown
           ELSE [file |-> NoName, attachment |-> AttachmentNamed(shown.file, attachments)]]]]

-----------------------------------------------------------------------------
(* Messages and modals *)

NoMessage == [flags |-> {}, words |-> "none", stickers |-> FALSE, poll |-> FALSE,
              components |-> <<>>, attachments |-> <<>>]
None == [sent |-> FALSE, body |-> NoMessage]
Init == message = None /\ stored = {} /\ modal = <<>>

Body == message.body
EditableFlags == {"v2", "suppress"}
Texts == {"none", "some", "long"}        \* content and embeds; long: beyond a limit

\* What a message is accepted by, apart from its component tree.
ValidFields(body, previous) ==
  /\ body.words # "long"
  /\ "v2" \in previous => "v2" \in body.flags
  /\ "v2" \in body.flags =>
       body.components # <<>> /\ body.words = "none" /\ ~body.poll /\ ~body.stickers
NotEmpty(body) ==
  body.words # "none" \/ body.components # <<>> \/ body.attachments # <<>> \/ body.stickers \/ body.poll

\* Files of a request, by their place until they are stored.
Previews(files) == [k \in DOMAIN files |-> [id |-> k - 1, file |-> files[k]]]
NextId == FirstId + Cardinality(stored)
Stage(attachments, files) ==
  LET uploads == {k \in DOMAIN attachments : attachments[k].id < Len(files)}
      rank(k) == Cardinality({j \in uploads : j < k})
  IN [k \in DOMAIN attachments |->
        IF k \notin uploads THEN attachments[k]
        ELSE [id |-> NextId + rank(k), file |-> files[attachments[k].id + 1]]]
Ids(attachments) == {attachments[k].id : k \in DOMAIN attachments}
RoomFor(attachments) == Cardinality(stored \cup Ids(attachments)) <= MaxIds

\* prepare_bot_message and commit_bot_message: nothing is stored before all is checked.
Send(body, files) ==
  LET prepared == [body EXCEPT !.attachments = Previews(files),
                               !.components = NormalizeComponents(@, "v2" \in body.flags)]
      attachments == Stage(prepared.attachments, files)
  IN /\ ~message.sent /\ modal = <<>>
     /\ ValidFields(body, {}) /\ NotEmpty(prepared)
     /\ ValidComponents(body.components, "v2" \in body.flags)
     /\ ReferencesFound(prepared.components, prepared.attachments)
     /\ RoomFor(attachments)
     /\ message' = [sent |-> TRUE,
                    body |-> [prepared EXCEPT !.attachments = attachments,
                                              !.components = Resolve(@, attachments)]]
     /\ stored' = stored \cup Ids(attachments)
     /\ UNCHANGED modal

\* A deferred answer: an empty message, loading until it is first edited.
Defer == /\ ~message.sent /\ modal = <<>>
         /\ message' = [sent |-> TRUE, body |-> [NoMessage EXCEPT !.flags = {"loading"}]]
         /\ UNCHANGED <<stored, modal>>

\* The list of attachments an edit declares: entries kept, perhaps renamed, and uploads.
Declarable(declared, files) ==
  /\ \A j, k \in DOMAIN declared : j # k => declared[j].id # declared[k].id
  /\ Ids(declared) \subseteq Ids(Body.attachments) \cup {k - 1 : k \in DOMAIN files}
Selected(declared, files) ==
  [k \in DOMAIN declared |->
     LET d == declared[k] IN
     IF d.id \in Ids(Body.attachments)
     THEN LET old == CHOOSE a \in ToSet(Body.attachments) : a.id = d.id
          IN [old EXCEPT !.file = IF d.file = NoName THEN @ ELSE d.file]
     ELSE Previews(files)[d.id + 1]]
EditedAttachments(edit) ==
  IF edit.attachments # Keep THEN Selected(edit.attachments, edit.files)
  ELSE Body.attachments \o Previews(edit.files)

MergeEditFlags(previous, requested) == (requested \cap EditableFlags) \cup (previous \ EditableFlags)

\* What an edit makes of the message before its uploads are stored.
Merged(edit) ==
  [Body EXCEPT
     !.flags = MergeEditFlags(@, IF edit.flags = Keep THEN @ ELSE edit.flags),
     !.words = IF edit.words = Keep THEN @ ELSE edit.words,
     !.poll = @ \/ edit.poll,
     !.components = IF edit.components = Keep THEN @ ELSE edit.components,
     !.attachments = EditedAttachments(edit)]

RevalidatedIfNew(edit) == edit.components # Keep
\* The components are looked at again when they are new or the flag has changed.
Revalidated(edit) == edit.components # Keep \/ ("v2" \in Merged(edit).flags) # ("v2" \in Body.flags)

\* prepare_message_edit within edit_bot_message, then commit_message_edit.
Edit(edit) ==
  LET merged == Merged(edit)
      v2 == "v2" \in merged.flags
      renewed == Revalidated(edit)
      components == IF renewed THEN NormalizeComponents(merged.components, v2) ELSE merged.components
      attachments == Stage(merged.attachments, edit.files)
  IN /\ message.sent
     /\ edit.poll => "loading" \in Body.flags
     /\ edit.attachments # Keep => Declarable(edit.attachments, edit.files)
     /\ ValidFields(merged, Body.flags)
     /\ renewed => ValidComponents(merged.components, v2)
     /\ ReferencesFound(components, merged.attachments)
     /\ RoomFor(attachments)
     /\ message' = [message EXCEPT !.body =
                      [merged EXCEPT !.flags = @ \ {"loading"},
                                     !.attachments = attachments,
                                     !.components = IF renewed THEN Resolve(components, attachments)
                                                               ELSE components]]
     /\ stored' = stored \cup Ids(attachments)
     /\ UNCHANGED modal

\* Publishing an announcement sets a flag no edit may touch.
Crosspost == /\ message.sent /\ "crossposted" \notin Body.flags
             /\ message' = [message EXCEPT !.body.flags = @ \cup {"crossposted"}]
             /\ UNCHANGED <<stored, modal>>

ShowModal(tree) == /\ ~message.sent
                   /\ ValidModal(tree)
                   /\ modal' = NormalizeModal(tree)
                   /\ UNCHANGED <<message, stored>>

Uploads == UNION {[1..n -> Files] : n \in 0..MaxUploads}
Entries(files) == [id : Ids(Body.attachments), file : Files \cup {NoName}]
                  \cup [id : {k - 1 : k \in DOMAIN files}, file : {NoName}]
Declared(files) == UNION {[1..n -> Entries(files)] : n \in 0..2}

SendAny ==
  \E flags \in SUBSET EditableFlags, words \in Texts, stickers, poll \in BOOLEAN,
     tree \in Trees, files \in Uploads :
    /\ Cardinality({b \in {<<1, stickers>>, <<2, poll>>, <<3, words # "none">>} : b[2]}) <= 1
    /\ Send([flags |-> flags, words |-> words, stickers |-> stickers, poll |-> poll,
             components |-> tree, attachments |-> <<>>], files)
\* Bound: an edit of the files comes with no text, and with the layouts that name files.
Replacing(files, declared) ==
  IF declared = Keep /\ files = <<>> THEN Trees
  ELSE {tree \in Trees : tree = <<>> \/ FilesNamed(tree) # {}}
EditAny ==
  \E files \in Uploads : \E declared \in {d \in Declared(files) : Declarable(d, files)} \cup {Keep} :
    \E flags \in (SUBSET EditableFlags) \cup {Keep},
       words \in {Keep} \cup (IF declared = Keep /\ files = <<>> THEN Texts ELSE {}),
       tree \in {Keep} \cup Replacing(files, declared), poll \in {p \in BOOLEAN : p => "loading" \in Body.flags} :
      Edit([flags |-> flags, words |-> words, poll |-> poll, components |-> tree,
            attachments |-> declared, files |-> files])

Next == SendAny \/ Defer \/ EditAny \/ Crosspost \/ \E tree \in Modals : ShowModal(tree)

Spec == Init /\ [][Next]_vars

-----------------------------------------------------------------------------
(* Properties *)

\* Whatever was sent, edited and kept, a layout with the flag has a positive id of its
\* own for every component anyone can reach by walking it, and no text, poll or sticker
\* beside it; one without the flag has rows only, all with the id 0; and checking the
\* stored tree again, as the modal's submission and the Preview do, accepts it and changes nothing.
Stable(tree, valid, normal) == valid /\ normal = tree
LayoutsSound ==
  /\ LET b == Body
         v2 == "v2" \in b.flags
         ids == [i \in DOMAIN b.components |-> b.components[i].id]
     IN /\ Stable(b.components, ValidComponents(b.components, v2), NormalizeComponents(b.components, v2))
        /\ v2 => /\ b.components # <<>> /\ b.words = "none" /\ ~b.poll /\ ~b.stickers
                 /\ 0 \notin Range(ids) /\ IsInjective(ids)
        /\ ~v2 => Range(ids) \subseteq {0} /\ Kinds(b.components, Roots(b.components)) \subseteq {"row"}
  /\ modal # <<>> => Stable(modal, ValidModal(modal), NormalizeModal(modal))

\* A stored component never names a file: it shows an attachment that the CDN serves, and
\* so does the message's own list, whichever of the two an edit replaced or kept.
FilesBound ==
  /\ FilesNamed(Body.components) = {}
  /\ Ids(Body.attachments) \subseteq stored
  /\ \A i \in DOMAIN Body.components, k \in DOMAIN Body.attachments :
       LET media == Body.components[i].media IN
       \A m \in DOMAIN media : media[m].attachment \in stored \cup {0}

\* An edit takes neither the flag of the layout away nor a flag that is not its own to change.
FlagsStay ==
  message.sent => /\ "v2" \in Body.flags => "v2" \in Body'.flags
                  /\ Body.flags \ (EditableFlags \cup {"loading"}) \subseteq Body'.flags
=============================================================================
