------------------------------ MODULE LabelTabs -------------------------------
(***************************************************************************)
(* The Labels page of the desktop renderer: a list to the left, tabs above *)
(* the workspace, and in the workspace the component of the active tab: a  *)
(* label, a policy, or a form (components/Labels).  React keeps a          *)
(* component, and what it holds, when the tab that replaces the active one *)
(* is of the same type.                                                    *)
(***************************************************************************)
EXTENDS RendererSession

CONSTANTS
  PolicyName,   \* the policies there are at first, of either kind
  Publishes,    \* the label each of them publishes, or applies
  NewName       \* a name nobody has given yet

ASSUME LabelTabsAssumption ==
  NewName \notin PolicyName /\ Publishes \in [PolicyName -> LabelId]

VARIABLES
  lt,     \* LabelsPage: the list, the tabs and the active one
  ws,     \* the component in the workspace
  store   \* external: the policies of the tenant, by kind and name

labelVars == <<lt, ws, store>>

Name == PolicyName \cup {NewName}
Kind == { "label", "policy", "autolabel" }
PolicyKind == Kind \ {"label"}
\* A text is known by who wrote it: the policy it has always been in, the user,
\* or nobody, where it is empty; one that names a label, by the label.
Texted == PolicyName \cup LabelId \cup {"typed", "lines", ""}
Mode == { "Enable", "TestWithNotifications", "TestWithoutNotifications" }
Location == { "ExchangeLocation", "SharePointLocation", "OneDriveLocation" }
Policy == [name : Name, comment : Texted, labels : Texted, mode : Mode,
           places : SUBSET Location]
NoPolicy == [name |-> "", comment |-> "", labels |-> "",
             mode |-> "TestWithoutNotifications", places |-> {}]

\* The id of a tab is its type and its item.
NewItem(i) == "new-" \o ToString(i)
Tab(forms) == [kind : Kind, mode : {"detail", "new", "edit"},
               item : Name \cup Texted \cup { NewItem(i) : i \in 1 .. forms }]
NoTab == [kind |-> "none", mode |-> "none", item |-> ""]

Fresh(n, tab) ==
  [n |-> n, kind |-> tab.kind, mode |-> tab.mode, item |-> tab.item,
   loading |-> tab.mode # "new", error |-> FALSE, shown |-> NoPolicy,
   policies |-> {}, form |-> NoPolicy, from |-> tab.item, saving |-> FALSE,
   asking |-> FALSE, named |-> "", settled |-> FALSE, deleting |-> FALSE]
Blank(n) == [Fresh(n, NoTab) EXCEPT !.loading = FALSE]

NewList(section, n) == [section |-> section, n |-> n, st |-> "loading", items |-> {}]

LabelsInit ==
  /\ lt = [list |-> NewList("label", 0), tabs |-> <<>>, active |-> NoTab, forms |-> 0]
  /\ ws = Blank(0)
  /\ store = [k \in PolicyKind |-> [p \in PolicyName |->
       [NoPolicy EXCEPT !.name = p, !.comment = p, !.labels = Publishes[p]]]]

-----------------------------------------------------------------------------
(* Tabs.                                                                   *)

CmdletOf ==
  [policy |-> [get |-> "Get-SLLabelPolicy", new |-> "New-SLLabelPolicy",
               set |-> "Set-SLLabelPolicy", remove |-> "Remove-SLLabelPolicy"],
   autolabel |-> [get |-> "Get-SLAutoLabelPolicy", new |-> "New-SLAutoLabelPolicy",
                  set |-> "Set-SLAutoLabelPolicy", remove |-> "Remove-SLAutoLabelPolicy"]]

FetchList(list) ==
  IF list.section = "label"
    THEN Call("Get-SLLabel", [Tree |-> "yes"], list, [op |-> "list", n |-> list.n])
    ELSE Call(CmdletOf[list.section].get, <<>>, list, [op |-> "list", n |-> list.n])

\* The effect of a component that is mounted, or whose item has changed.
Fetch(w) ==
  LET for == [op |-> w.mode, n |-> w.n]
  IN  IF w.kind = "label"
        THEN Call("Get-SLLabel", [Id |-> "text"], w.item, [op |-> "label", n |-> w.n])
        ELSE Call(CmdletOf[w.kind].get, [Identity |-> "text"], w.item, for)

\* The workspace once tab is active, after w was there for the tab before it.
Shown(w, before, tab) ==
  CASE tab = before -> w
    [] tab # before /\ w.kind = tab.kind /\ w.mode = tab.mode ->
         [w EXCEPT !.item = tab.item, !.loading = @ \/ tab.mode = "detail",
                   !.error = @ /\ tab.mode # "detail"]
    [] tab = NoTab /\ before # NoTab -> Blank(w.n + 1)
    [] OTHER -> Fresh(w.n + 1, tab)

\* tabs with this one active: what is in the workspace, and what it asks for.
TurnInPlace(w, tabs, tab, forms, cs) ==
  /\ lt' = [lt EXCEPT !.tabs = tabs, !.active = tab, !.forms = forms]
  /\ ws' = [Shown(w, lt.active, tab) EXCEPT !.loading = @ /\ w.kind # tab.kind]
  /\ calls' = IF tab \in {NoTab, lt.active} \/ tab.mode = "new" \/ w.kind = tab.kind
                THEN cs ELSE Append(cs, Fetch(ws'))
Turn(w, tabs, tab, forms, cs) ==
  /\ lt' = [lt EXCEPT !.tabs = tabs, !.active = tab, !.forms = forms]
  /\ ws' = Shown(w, lt.active, tab)
  /\ calls' = IF tab \in {NoTab, lt.active} \/ tab.mode = "new"
                THEN cs ELSE Append(cs, Fetch(ws'))

Opened(tabs, tab) == IF Contains(tabs, tab) THEN tabs ELSE Append(tabs, tab)

\* closeTab: the tab that takes the place of the one that goes, or the last.
ClosedAtIndex(tabs, active, tab) ==
  LET idx == CHOOSE i \in DOMAIN tabs : tabs[i] = tab
      next == Filtered(tabs, LAMBDA t : t # tab)
  IN  [tabs |-> next,
       active |-> CASE active # tab -> active
                    [] active = tab /\ idx \in DOMAIN next -> next[idx]
                    [] OTHER -> tab]
Closed(tabs, active, tab) ==
  LET idx == CHOOSE i \in DOMAIN tabs : tabs[i] = tab
      next == Filtered(tabs, LAMBDA t : t # tab)
  IN  [tabs |-> next,
       active |-> CASE active # tab -> active
                    [] active = tab /\ next = <<>> -> NoTab
                    [] OTHER -> next[Min({idx, Len(next)})]]

OpenTab(tab) == Turn(ws, Opened(lt.tabs, tab), tab, lt.forms, calls)
CloseTab(w, tab, cs) ==
  LET c == Closed(lt.tabs, lt.active, tab) IN Turn(w, c.tabs, c.active, lt.forms, cs)

\* After a save: close the form's tab, open the detail.  closeTab activates the
\* neighbour inside the function that updates the tabs, which React runs at
\* once, or when it renders, after the detail has been activated.
Saved(w, tab, name, cs) ==
  LET c == Closed(lt.tabs, lt.active, tab)
      detail == [kind |-> tab.kind, mode |-> "detail", item |-> name]
  IN  \E last \in {detail} \cup (IF lt.active = tab THEN {c.active} ELSE {}) :
        Turn(w, Opened(c.tabs, detail), last, lt.forms, cs)

-----------------------------------------------------------------------------
(* What the user does, with a mouse: a dialog covers all but itself.       *)

OnLabelsBehind(kind) == page = "labels" /\ Click(kind) /\ UNCHANGED <<page, mount, store>>
OnLabels(kind) == page = "labels" /\ ~ws.asking /\ Click(kind) /\ UNCHANGED <<page, mount, store>>

PickSection ==
  /\ OnLabels("section")
  /\ \E section \in Kind \ {lt.list.section} :
       lt' = [lt EXCEPT !.list = NewList(section, lt.list.n + 1)]
  /\ calls' = Append(calls, FetchList(lt'.list))
  /\ UNCHANGED ws

\* Refresh below the list, Retry in its place.
RefreshList ==
  /\ OnLabels("refresh") /\ lt.list.st # "loading"
  /\ lt' = [lt EXCEPT !.list.st = "loading"]
  /\ calls' = Append(calls, FetchList(lt.list))
  /\ UNCHANGED ws

OpenFromList ==
  /\ OnLabels("open") /\ lt.list.st = "shown"
  /\ \E item \in lt.list.items :
       OpenTab([kind |-> lt.list.section, mode |-> "detail", item |-> item])

\* Below the lists of policies, and in the empty workspace.
OpenNew ==
  /\ OnLabels("tabs")
  /\ \E kind \in PolicyKind :
       /\ lt.active = NoTab \/ (lt.list.section = kind /\ lt.list.st = "shown")
       /\ LET tab == [kind |-> kind, mode |-> "new", item |-> NewItem(lt.forms + 1)]
          IN  Turn(ws, Opened(lt.tabs, tab), tab, lt.forms + 1, calls)

PickTab == OnLabels("pick") /\ \E i \in DOMAIN lt.tabs : OpenTab(lt.tabs[i])
ShutTab == OnLabels("tabs") /\ \E i \in DOMAIN lt.tabs : CloseTab(ws, lt.tabs[i], calls)

\* A label of the policy, a policy of the label, or Edit: the tab it opens has
\* the name the detail was opened with, whatever has been loaded.
Loaded == ws.mode = "detail" /\ ~ws.loading /\ ~ws.error /\ ws.shown # NoPolicy
FollowLink ==
  /\ OnLabels("open") /\ Loaded
  /\ \/ ws.kind = "label" /\ \E p \in ws.policies :
          OpenTab([kind |-> "policy", mode |-> "detail", item |-> p])
     \/ ws.kind # "label" /\ ws.shown.labels # "" /\
          OpenTab([kind |-> "label", mode |-> "detail", item |-> ws.shown.labels])
     \/ ws.kind # "label" /\
          OpenTab([kind |-> ws.kind, mode |-> "edit", item |-> ws.item])

\* The form, whose `existing` is shown; without one it makes a new policy.
FormOpen == ws.mode \in {"new", "edit"} /\ ~ws.loading
IsNew == ws.shown = NoPolicy

\* What the fields let one type; the name, and the label and the locations of
\* an auto-label policy, are fixed once there is a policy.
Typed(w) ==
  (IF w.shown = NoPolicy THEN { [w.form EXCEPT !.name = x] : x \in Name } ELSE {})
  \cup (IF w.kind = "policy" \/ w.shown = NoPolicy
          THEN { [w.form EXCEPT !.labels = x] : x \in {"typed", ""} } ELSE {})
  \cup (IF w.kind = "policy"
          THEN { [w.form EXCEPT !.comment = x] : x \in {"typed", "lines", ""} }
          ELSE { [w.form EXCEPT !.mode = x] : x \in Mode })
  \cup (IF w.kind = "autolabel" /\ w.shown = NoPolicy
          THEN { [w.form EXCEPT !.places = x] : x \in SUBSET Location } ELSE {})

TypeInForm ==
  /\ OnLabels("form") /\ FormOpen
  /\ \E f \in Typed(ws) \ {ws.form} : ws' = [ws EXCEPT !.form = f]
  /\ UNCHANGED <<lt, calls>>

\* The kind of the value a text goes out as.
Sort(text) == CASE text = "" -> "empty" [] text = "lines" -> "lines" [] OTHER -> "text"
Listed(text) == IF text = "" THEN "none" ELSE "list"
When(cond, params) == IF cond THEN params ELSE <<>>

NewParams(kind, f) ==
  IF kind = "policy"
    THEN [Name |-> "text"] ++ When(f.labels # "", [Labels |-> "list"])
         ++ When(f.comment # "", [Comment |-> Sort(f.comment)])
    ELSE [Name |-> "text", ApplySensitivityLabel |-> "text", Mode |-> "word"]
         ++ [l \in f.places |-> "list"]

SetParams(kind, f, existing) ==
  IF kind = "policy"
    THEN [Identity |-> "text"]
         ++ When(f.comment # existing.comment, [Comment |-> Sort(f.comment)])
         ++ When(f.labels # existing.labels, [Labels |-> Listed(f.labels)])
    ELSE [Identity |-> "text"] ++ When(f.mode # existing.mode, [Mode |-> "word"])

SaveForm ==
  /\ OnLabels("form") /\ FormOpen /\ ~ws.saving
  /\ LET f == ws.form
         for == [op |-> "save", n |-> ws.n, tab |-> lt.active, name |-> f.name]
         what == [identity |-> IF IsNew THEN f.name ELSE ws.shown.name, form |-> f, from |-> ws.from]
     IN  IF f.name = "" \/ (ws.kind = "autolabel" /\ f.labels = "")
           THEN ws' = [ws EXCEPT !.error = TRUE] /\ UNCHANGED calls
           ELSE /\ ws' = [ws EXCEPT !.saving = TRUE, !.error = FALSE]
                /\ calls' = Append(calls,
                     IF IsNew THEN Call(CmdletOf[ws.kind].new, NewParams(ws.kind, f), what, for)
                     ELSE Call(CmdletOf[ws.kind].set, SetParams(ws.kind, f, ws.shown), what, for))
  /\ UNCHANGED lt

CancelForm ==
  /\ OnLabels("form") /\ FormOpen /\ ~ws.saving
  /\ CloseTab(ws, lt.active, calls)

\* The dialog names what is shown: `named` is what it named at first, `settled`
\* whether nothing was awaited then (histories).
AskToDelete ==
  /\ OnLabels("delete") /\ FormOpen /\ ~IsNew
  /\ ws' = [ws EXCEPT !.asking = TRUE, !.named = ws.shown.name, !.settled = calls = <<>>]
  /\ UNCHANGED <<lt, calls>>

RemoveCall(w) ==
  Call(CmdletOf[w.kind].remove, [Identity |-> "text"],
       [identity |-> w.shown.name, named |-> w.named, settled |-> w.settled],
       [op |-> "delete", n |-> w.n, tab |-> lt.active])

AnswerDialog ==
  /\ page = "labels" /\ ws.asking /\ ~ws.deleting
  /\ Click("delete") /\ UNCHANGED <<page, mount, store, lt>>
  /\ \/ ws' = [ws EXCEPT !.asking = FALSE] /\ UNCHANGED calls
     \/ /\ ws' = [ws EXCEPT !.deleting = TRUE, !.error = FALSE]
        /\ calls' = Append(calls, RemoveCall(ws))

LabelsClicks ==
  \/ PickSection \/ RefreshList \/ OpenFromList \/ OpenNew \/ PickTab \/ ShutTab
  \/ FollowLink \/ TypeInForm \/ SaveForm \/ CancelForm \/ AskToDelete \/ AnswerDialog

-----------------------------------------------------------------------------
(* What PowerShell does, as the page sees it.                              *)

Now1 == calls[Next1]
There(kind, name) == name \in DOMAIN store[kind]

RunGet ==
  /\ \/ /\ Running("Get-SLLabel")
        /\ \/ Now1.for.op = "list" /\ Answer("ok", <<LabelId>>)
           \/ /\ Now1.for.op = "label"
              /\ IF Now1.what \in LabelId THEN Answer("ok", <<Now1.what>>)
                                          ELSE Answer("failed", <<>>)
     \/ /\ Running("Get-SLLabelPolicy") /\ Now1.for.op = "policies"
        /\ Answer("ok", <<{ p \in DOMAIN store["policy"] :
                             store["policy"][p].labels = Now1.what }>>)
     \/ \E kind \in PolicyKind :
          /\ Running(CmdletOf[kind].get)
          /\ \/ Now1.for.op = "list" /\ Answer("ok", <<DOMAIN store[kind]>>)
             \/ /\ Now1.for.op \in {"detail", "edit"}
                /\ IF There(kind, Now1.what) THEN Answer("ok", <<store[kind][Now1.what]>>)
                                             ELSE Answer("failed", <<>>)
  /\ UNCHANGED labelVars /\ Kept

\* What the command does not say stays as it is, or as a new policy has it.
Written(old, f) ==
  [old EXCEPT !.comment = IF Says("Comment") THEN f.comment ELSE @,
              !.labels = IF Says("Labels") \/ Says("ApplySensitivityLabel") THEN f.labels ELSE @,
              !.mode = IF Says("Mode") THEN f.mode ELSE @,
              !.places = @ \cup { l \in f.places : Says(l) }]

RunSave ==
  /\ \E kind \in PolicyKind, verb \in {"new", "set"} :
       /\ Running(CmdletOf[kind][verb])
       /\ LET name == Now1.what.identity
              old == IF There(kind, name) THEN store[kind][name]
                                          ELSE [NoPolicy EXCEPT !.name = name]
          IN  IF There(kind, name) = (verb = "set")
                THEN /\ store' = [store EXCEPT ![kind] =
                      [p \in {name} |-> Written(old, Now1.what.form)] ++ @]
                     /\ Answer("ok", <<>>)
                ELSE Answer("failed", <<>>) /\ UNCHANGED store
  /\ UNCHANGED <<lt, ws>> /\ Kept

RunRemove ==
  /\ \E kind \in PolicyKind :
       /\ Running(CmdletOf[kind].remove)
       /\ IF There(kind, Now1.what.identity)
            THEN /\ store' = [store EXCEPT ![kind] =
                      Restrict(@, DOMAIN @ \ {Now1.what.identity})]
                 /\ Answer("ok", <<>>)
            ELSE Answer("failed", <<>>) /\ UNCHANGED store
  /\ UNCHANGED <<lt, ws>> /\ Kept

-----------------------------------------------------------------------------
(* What the page makes of the answers.                                     *)

Mine == Head(calls).for.n = ws.n
Val == Head(calls).val[1]

TakeList ==
  /\ Answered("list")
  /\ calls' = Took
  /\ lt' = IF Head(calls).for.n # lt.list.n THEN lt
           ELSE IF Succeeded THEN [lt EXCEPT !.list.st = "shown", !.list.items = Val]
           ELSE [lt EXCEPT !.list.st = "error"]
  /\ UNCHANGED <<ws, store>> /\ Kept

\* LabelDetail asks for the policies next, whether or not there is such a label
\* and whether or not anybody looks at it any more.
TakeLabel ==
  /\ Answered("label")
  /\ calls' = Append(Took, [Call("Get-SLLabelPolicy", <<>>, Head(calls).what,
                                 [op |-> "policies", n |-> Head(calls).for.n])
                            EXCEPT !.at = Head(calls).at])
  /\ ws' = IF ~Mine THEN ws
           ELSE IF Succeeded THEN [ws EXCEPT !.shown = [NoPolicy EXCEPT !.name = Val]]
           ELSE [ws EXCEPT !.error = TRUE]
  /\ UNCHANGED <<lt, store>> /\ Kept

TakePolicies ==
  /\ Answered("policies")
  /\ calls' = Took
  /\ ws' = IF Mine THEN [ws EXCEPT !.policies = IF Succeeded THEN Val ELSE @, !.loading = FALSE]
                   ELSE ws
  /\ UNCHANGED <<lt, store>> /\ Kept

TakeDetail ==
  /\ Answered("detail")
  /\ calls' = Took
  /\ ws' = IF ~Mine THEN ws
           ELSE IF Succeeded THEN [ws EXCEPT !.shown = Val, !.loading = FALSE]
           ELSE [ws EXCEPT !.error = TRUE, !.loading = FALSE]
  /\ UNCHANGED <<lt, store>> /\ Kept

\* The fields of the form start with what is there when the form is first shown.
TakeEdit ==
  /\ Answered("edit")
  /\ calls' = Took
  /\ LET w == [ws EXCEPT !.shown = IF Succeeded THEN Val ELSE @, !.loading = FALSE]
     IN  ws' = IF ~Mine THEN ws
               ELSE IF ws.loading THEN [w EXCEPT !.form = w.shown, !.from = w.shown.name]
               ELSE w
  /\ UNCHANGED <<lt, store>> /\ Kept

TakeSave ==
  /\ Answered("save")
  /\ LET w == IF Mine THEN [ws EXCEPT !.saving = FALSE, !.error = ~Succeeded] ELSE ws
         tab == Head(calls).for.tab
     IN  IF Succeeded /\ ~Stale
           THEN Saved(w, tab, Head(calls).for.name, Took)
           ELSE ws' = w /\ calls' = Took /\ UNCHANGED lt
  /\ UNCHANGED store /\ Kept

TakeDelete ==
  /\ Answered("delete")
  /\ LET w == IF Mine THEN [ws EXCEPT !.deleting = FALSE, !.asking = FALSE, !.error = ~Succeeded]
                      ELSE ws
     IN  IF Succeeded /\ ~Stale
           THEN CloseTab(w, Head(calls).for.tab, Took)
           ELSE ws' = w /\ calls' = Took /\ UNCHANGED lt
  /\ UNCHANGED store /\ Kept

LabelsRuns ==
  \/ RunGet \/ RunSave \/ RunRemove
  \/ TakeList \/ TakeLabel \/ TakePolicies \/ TakeDetail \/ TakeEdit \/ TakeSave \/ TakeDelete

-----------------------------------------------------------------------------
(* Properties.                                                             *)

LabelsTypeOK ==
  /\ lt.list.section \in Kind /\ lt.list.st \in {"loading", "shown", "error"}
  /\ Range(lt.tabs) \cup {lt.active} \subseteq Tab(lt.forms) \cup {NoTab}
  /\ ws.kind # "label" => ws.shown \in Policy \cup {NoPolicy}
  /\ ws.policies \subseteq Name
  /\ \A k \in PolicyKind : DOMAIN store[k] \subseteq Name /\ Range(store[k]) \subseteq Policy

\* No tab is there twice, the active one is among them, and what the workspace
\* holds is of its type and its item: through closing, saving and deleting,
\* answered after the user has gone to another tab.
TabsAreSound ==
  /\ IsInjective(lt.tabs)
  /\ lt.active # NoTab => Contains(lt.tabs, lt.active)
  /\ [kind |-> ws.kind, mode |-> ws.mode, item |-> ws.item] = lt.active

\* Once everything is answered, a tab shows the label or the policy it is named
\* after, or an error: the answers come in the order of the questions, unless
\* PowerShell throttles one of them.
DetailsShowTheirTab ==
  (calls = <<>> /\ throttled = 0 /\ Loaded) => ws.shown.name = ws.item

\* A cmdlet that the registry marks guiConfirm is run for what a dialog has
\* named to the user from the moment it opened, where nothing was awaited at
\* that moment: the form under the dialog is one that other tabs are shown in.
AsksBeforeItRemoves ==
  \A i \in DOMAIN calls :
    Registry[calls[i].cmdlet].guiConfirm =>
      /\ calls[i].for.op = "delete"
      /\ calls[i].what.settled => calls[i].what.named = calls[i].what.identity

\* Not true of the code: an answer that comes under the open dialog loads another
\* policy into the form, and the dialog then names that one.
RemovesWhatTheDialogOpenedFor ==
  \A i \in DOMAIN calls :
    calls[i].for.op = "delete" => calls[i].what.named = calls[i].what.identity

\* "edit (opens a form tab pre-populated with existing data)"
\* (LabelsPage.tsx): what is saved to a policy was typed over what that policy
\* held.
EditsStartFromTheirPolicy ==
  \A i \in DOMAIN calls :
    calls[i].cmdlet \in {"Set-SLLabelPolicy", "Set-SLAutoLabelPolicy"} =>
      calls[i].what.from = calls[i].what.identity
=============================================================================
