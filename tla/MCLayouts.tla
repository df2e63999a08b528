----------------------------- MODULE MCLayouts -----------------------------
(***************************************************************************)
(* What a bot shows, and what its test is told: layouts of messages and     *)
(* modals, and the errors of the tasks.  A behaviour is about one of the    *)
(* two, which its initial state chooses.                                    *)
(***************************************************************************)
EXTENDS Layouts, TaskErrors

VARIABLE part

Node(kind, parent, at, id, name) ==
  [kind |-> kind, parent |-> parent, at |-> at, id |-> id, name |-> name,
   text |-> IF kind = "text" THEN 1 ELSE 0, media |-> <<>>, fits |-> TRUE]
Root(kind, id) == Node(kind, 0, "components", id, NoName)
Button(row, name) == Node("button", row, "components", 0, name)
Shows(node, files) ==
  [node EXCEPT !.media = [k \in DOMAIN files |-> [file |-> files[k], attachment |-> 0]]]

\* Rows of buttons, whose ids clash unless they are dropped.
Buttons == <<Root("row", 1), [Button(1, "x") EXCEPT !.id = 1], Button(1, "y")>>
\* A later component has the id the first one would get.
Document == <<Root("text", 0), Shows(Root("file", 1), <<"a">>), Shows(Root("gallery", 0), <<"a", NoName>>)>>
Card == <<Root("container", 0),
          Node("section", 1, "components", 0, NoName), Node("text", 2, "components", 3, NoName),
          Shows(Node("thumbnail", 2, "accessory", 1, NoName), <<"b">>),
          Node("row", 1, "components", 0, NoName), Node("select", 5, "components", 0, "x")>>
\* Refused: a custom_id used twice, texts beyond the limit together, a menu that is not alone.
Twice == <<Root("row", 0), Button(1, "x"), Root("row", 0), Button(3, "x")>>
Wordy == <<Root("text", 0), Root("text", 0)>>
Crowded == <<Root("row", 0), Button(1, "y"), Node("select", 1, "components", 0, "x")>>

MCTrees == {<<>>, Buttons, Document, Card, Twice, Wordy, Crowded}

Labelled(id, control, name) ==
  <<Root("label", id), Node(control, 1, "component", 0, name)>>
MCModals == {Labelled(2, "input", "x"), Labelled(0, "select", "x") \o <<Root("text", 1)>>,
             <<Root("row", 0), Node("picker", 1, "components", 1, "x")>>,
             Labelled(0, "text", NoName), <<Root("input", 0)>>}

-----------------------------------------------------------------------------
ShowInit == part \in {"layouts", "errors"} /\ Init /\ ErrorsInit

ShowNext ==
  \/ part = "layouts" /\ Next /\ UNCHANGED <<part, taskErrorVars>>
  \/ part = "errors" /\ ErrorsNext /\ UNCHANGED <<part, vars>>

\* An inspection that is queued on the loop runs.
ShowSpec ==
  /\ ShowInit /\ [][ShowNext]_<<part, vars, taskErrorVars>>
  /\ \A t \in Tasks : WF_taskErrorVars(part = "errors" /\ Inspect(t))

\* Layouts are sound and their files bound, and an edit keeps the flags that
\* are not its own to change (prepare_bot_message, edit_bot_message).
LayoutsKept ==
  /\ [](part = "layouts" => LayoutsSound /\ FilesBound)
  /\ [][part = "layouts" => FlagsStay]_vars
=============================================================================
