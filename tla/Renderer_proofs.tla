---------------------------- MODULE Renderer_proofs ----------------------------
(***************************************************************************)
(* Proofs about the renderer: what each command in flight may say, to which*)
(* tab, form or run its answer belongs, and what a run of a policy does,   *)
(* for any policies, sites, sittings and ways of answering.                *)
(***************************************************************************)
EXTENDS Renderer, SequenceTheorems, WellFoundedInduction, TLAPS

-----------------------------------------------------------------------------
(* The types.                                                              *)

\* A tab is of a label that a policy names, of a policy there is, or of a new one.
Item == Name \cup Texted \cup { NewItem(i) : i \in Nat }
LabelTab == [kind : {"label"}, mode : {"detail"}, item : Texted]
FormTab == [kind : PolicyKind, mode : {"edit"}, item : Name]
           \cup [kind : PolicyKind, mode : {"new"}, item : Item]
AnyTab == LabelTab \cup [kind : PolicyKind, mode : {"detail"}, item : Name] \cup FormTab

\* What a form or a detail shows.
Shows == [name : Item, comment : Texted, labels : Texted, mode : Mode,
          places : SUBSET Location]
Form == [name : Name \cup {""}, comment : Texted, labels : Texted, mode : Mode,
         places : SUBSET Location]
LabelShown(l) == [NoPolicy EXCEPT !.name = l]

ListItems(section) == IF section = "label" THEN LabelId ELSE Name

ListType == [section : Kind, n : Nat, st : {"loading", "shown", "error"},
             items : SUBSET (Name \cup LabelId)]
PageType == [list : ListType, tabs : Seq(AnyTab), active : AnyTab \cup {NoTab}, forms : Nat]
SpaceType ==
  [n : Nat, kind : Kind \cup {"none"}, mode : {"none", "detail", "new", "edit"},
   item : Item, loading : BOOLEAN, error : BOOLEAN, shown : Shows,
   policies : SUBSET Name, form : Form, from : Item, saving : BOOLEAN,
   asking : BOOLEAN, named : Item, settled : BOOLEAN, deleting : BOOLEAN]

\* The policies of the tenant, by kind: each under its own name.
StoreOK(policies) ==
  /\ DOMAIN policies = PolicyKind
  /\ \A k \in PolicyKind :
       /\ policies[k] \in [DOMAIN policies[k] -> Policy] /\ DOMAIN policies[k] \subseteq Name
       /\ \A p \in DOMAIN policies[k] : policies[k][p].name = p

\* The component in the workspace: a label shows the label, anything else a
\* policy, and only a form has a dialog.
SpaceOK(w) ==
  /\ w \in SpaceType
  /\ w.kind = "label" => w.shown \in {NoPolicy} \cup { LabelShown(l) : l \in LabelId }
  /\ w.kind # "label" => w.shown \in Policy \cup {NoPolicy}
  /\ w.asking \/ w.deleting => w.mode \in {"new", "edit"}

PageOK(l) == l \in PageType /\ l.list.items \subseteq ListItems(l.list.section)

TabsOK(tabs, active) ==
  IsInjective(tabs) /\ (active # NoTab => Contains(tabs, active))
InSpace(w, active) == [kind |-> w.kind, mode |-> w.mode, item |-> w.item] = active

LabelInv ==
  /\ PageOK(lt) /\ SpaceOK(ws) /\ StoreOK(store)
  /\ TabsOK(lt.tabs, lt.active) /\ InSpace(ws, lt.active)

\* A policy has a name for each of its sites.
GoodPolicy == { p \in ClassPolicy : Len(p.names) = Len(p.sites) }
ClassType ==
  [loading : BOOLEAN, policies : Seq(GoodPolicy), running : Nat \cup {None},
   dry : BOOLEAN, confirm : Nat \cup {None}, delete : Nat \cup {None}]
WizardType ==
  [open : BOOLEAN, n : Nat, step : 1 .. 4, draft : GoodPolicy, labels : BOOLEAN,
   sites : BOOLEAN]
MainType ==
  [saved : Seq(GoodPolicy), job : Nat \cup {None}, ids : Nat, started : Nat]
ConfigType ==
  [use_policies : BOOLEAN, dry_run : BOOLEAN, site_ids : Seq(Site),
   target_label_id : LabelId \cup {None}, entity_types : SUBSET Entities]
RunType ==
  [pc : {"starting", "waiting", "scanning"}, at : Nat, dry : BOOLEAN,
   base : Seq(GoodPolicy), policy : GoodPolicy, left : Seq(Site \cup {None}),
   sent : ConfigType, frees : BOOLEAN]

\* A run has told job:start of its policy, and has left but sites of it, or no
\* site at all; while it scans there is one left, the one that is being scanned.
RunOK(r) ==
  /\ r \in RunType /\ r.sent = JobConfig(r.policy, r.dry)
  /\ \A i \in 1 .. Len(r.left) : r.left[i] \in Range(r.policy.sites) \cup {None}
  /\ r.pc = "scanning" => r.left # <<>>

RunsOK(rs, started, m) ==
  /\ DOMAIN rs \subseteq 1 .. started
  /\ \A k \in DOMAIN rs : RunOK(rs[k]) /\ rs[k].at <= m
JobOK(job, rs) == job # None => job \in DOMAIN rs /\ rs[job].pc = "waiting"
OneRun(rs, running, m) ==
  \A k \in DOMAIN rs : rs[k].at = m =>
    /\ running = rs[k].policy.id
    /\ \A l \in DOMAIN rs : rs[l].at = m => l = k

ClassifyInv ==
  /\ mount \in Nat /\ clicks \in Nat
  /\ cp \in ClassType /\ wiz \in WizardType /\ main \in MainType
  /\ RunsOK(runs, main.started, mount) /\ JobOK(main.job, runs)
  /\ OneRun(runs, cp.running, mount)

-----------------------------------------------------------------------------
(* What the commands in flight say.                                        *)

Ok(c) == c.st = "ok"

ForList(c) ==
  /\ c.for.n \in Nat /\ c.what.section \in Kind
  /\ IF c.what.section = "label"
       THEN c.cmdlet = "Get-SLLabel" /\ c.params = [Tree |-> "yes"]
       ELSE c.cmdlet = CmdletOf[c.what.section].get /\ c.params = <<>>
  /\ Ok(c) => \E v \in SUBSET ListItems(c.what.section) : c.val = <<v>>

ForLabel(c) ==
  /\ c.for.n \in Nat /\ c.what \in Texted
  /\ c.cmdlet = "Get-SLLabel" /\ c.params = [Id |-> "text"]
  /\ Ok(c) => c.val = <<c.what>> /\ c.what \in LabelId

ForPolicies(c) ==
  /\ c.for.n \in Nat
  /\ c.cmdlet = "Get-SLLabelPolicy" /\ c.params = <<>>
  /\ Ok(c) => \E v \in SUBSET Name : c.val = <<v>>

ForPolicy(c) ==
  /\ c.for.n \in Nat /\ c.what \in Name
  /\ \E kind \in PolicyKind : c.cmdlet = CmdletOf[kind].get
  /\ c.params = [Identity |-> "text"]
  /\ Ok(c) => \E p \in Policy : c.val = <<p>> /\ p.name = c.what

ForSave(c) ==
  /\ c.for.n \in Nat
  /\ c.for.tab \in FormTab /\ c.for.name \in Name
  /\ c.what.identity \in Name /\ c.what.form \in Form
  /\ \E kind \in PolicyKind, f \in Form, old \in Shows :
       \/ c.cmdlet = CmdletOf[kind].new /\ c.params = NewParams(kind, f)
       \/ c.cmdlet = CmdletOf[kind].set /\ c.params = SetParams(kind, f, old)

ForDelete(c) ==
  /\ c.for.n \in Nat
  /\ c.for.tab \in FormTab
  /\ \E kind \in PolicyKind : c.cmdlet = CmdletOf[kind].remove
  /\ c.params = [Identity |-> "text"]

ForWizard(c) ==
  /\ c.cmdlet \in {"Get-SLLabel", "Get-SLSiteList"} /\ c.params = <<>>

ForScan(c) ==
  /\ c.what.policy \in GoodPolicy /\ c.what.dry \in BOOLEAN
  /\ c.what.site \in Range(c.what.policy.sites) \cup {None}
  /\ c.cmdlet = "Invoke-SLAutoLabelScan"
  /\ c.params = ScanParams(c.what.policy, c.what.dry, c.what.site)

\* What a command says, by whom its answer is for, and what it is answered.
Says1(c) ==
  \/ c.for.op = "list" /\ ForList(c)
  \/ c.for.op = "label" /\ ForLabel(c)
  \/ c.for.op = "policies" /\ ForPolicies(c)
  \/ c.for.op \in {"detail", "edit"} /\ ForPolicy(c)
  \/ c.for.op = "save" /\ ForSave(c)
  \/ c.for.op = "delete" /\ ForDelete(c)
  \/ c.for.op \in {"wizardLabels", "wizardSites"} /\ ForWizard(c)
  \/ c.for.op = "scan" /\ ForScan(c)

\* A command is a record, and makes sense.
Sensible(c) ==
  /\ c = [cmdlet |-> c.cmdlet, params |-> c.params, what |-> c.what, for |-> c.for,
          at |-> c.at, st |-> c.st, val |-> c.val]
  /\ c.st \in {"sent", "ok", "failed"}
  /\ Says1(c)

\* Whose answer is still wanted: a list's by the list of its section, a
\* detail's by the component that asked, a form's by the form.
Wanted(c, list, w) ==
  /\ c.for.op = "list" =>
       /\ c.for.n <= list.n
       /\ c.for.n = list.n => c.what.section = list.section
  /\ c.for.op \in {"label", "policies"} =>
       c.for.n <= w.n /\ (c.for.n = w.n => w.kind = "label")
  /\ c.for.op \in {"detail", "edit"} =>
       c.for.n <= w.n /\ (c.for.n = w.n => w.kind # "label" /\ w.mode = c.for.op)
  /\ c.for.op \in {"save", "delete"} =>
       c.for.n <= w.n /\ (c.for.n = w.n => w.mode \in {"new", "edit"})

\* A scan belongs to a run that waits for it.
OfARun(c, rs) ==
  c.for.op = "scan" => c.for.run \in DOMAIN rs /\ rs[c.for.run].pc = "scanning"

Queue(q) == q \in Seq(Range(q)) /\ \A c \in Range(q) : Sensible(c)
\* A run has one scan at a time.
OneScan(q) ==
  \A i, j \in DOMAIN q :
    q[i].for.op = "scan" /\ q[j].for.op = "scan" /\ q[i].for.run = q[j].for.run => i = j

CallsInv ==
  /\ Queue(calls) /\ OneScan(calls)
  /\ \A c \in Range(calls) : Wanted(c, lt.list, ws) /\ OfARun(c, runs)

\* The details that the n-th component in the workspace has asked for.
Asks == { "detail", "label" }
Pending(q, n) == { i \in DOMAIN q : q[i].for.op \in Asks /\ q[i].for.n = n }

\* The last question that is open is about what the tab is named after; when none
\* is, that is there, or an error.
DetailOK(q, w) ==
  w.mode = "detail" =>
    /\ Pending(q, w.n) = {} =>
         w.error \/ w.shown = NoPolicy \/ w.shown.name = w.item
    /\ \A i \in Pending(q, w.n) :
         (\A j \in Pending(q, w.n) : j <= i) => q[i].what = w.item

DetailInv == throttled \in Nat /\ (throttled = 0 => DetailOK(calls, ws))

RendererInv == LabelInv /\ ClassifyInv /\ CallsInv /\ DetailInv /\ RunsDoAsAsked

-----------------------------------------------------------------------------
(* Sequences.                                                              *)

LEMMA Least ==
  ASSUME NEW T \in SUBSET Nat, T # {}
  PROVE \E n \in T : \A m \in T : n <= m
<1> DEFINE R == OpToRel(<, Nat)
<1>1. IsWellFoundedOn(R, Nat)
  BY NatLessThanWellFounded
<1>2. \A x, y \in Nat : x < y => <<x, y>> \in R
  BY DEF OpToRel
<1> HIDE DEF R
<1>3. PICK n \in T : \A y \in T : ~ (<<y, n>> \in R)
  BY <1>1, WFMin
<1>4. \A m \in T : n \in Nat /\ m \in Nat /\ ~(m < n)
  BY <1>2, <1>3
<1> QED BY <1>4

\* A sequence with one more element, and without its first.
LEMMA Appended ==
  ASSUME NEW s, s \in Seq(Range(s)), NEW c
  PROVE  /\ Append(s, c) \in Seq(Range(Append(s, c)))
         /\ Range(Append(s, c)) = Range(s) \cup {c}
         /\ Len(s) \in Nat /\ DOMAIN s = 1 .. Len(s)
         /\ DOMAIN Append(s, c) = 1 .. Len(s) + 1
         /\ \A i \in 1 .. Len(s) : Append(s, c)[i] = s[i]
         /\ Append(s, c)[Len(s) + 1] = c
<1> DEFINE U == Range(s) \cup {c}
           t == Append(s, c)
<1>1. s \in Seq(U) /\ c \in U
  BY SeqMonotonic
<1> HIDE DEF U
<1>2. /\ t \in Seq(U) /\ Len(t) = Len(s) + 1
      /\ \A i \in 1 .. Len(s) : t[i] = s[i]
      /\ t[Len(s) + 1] = c
      /\ Len(s) \in Nat /\ DOMAIN s = 1 .. Len(s)
  BY <1>1
<1>3. DOMAIN t = 1 .. Len(s) + 1
  BY <1>2
<1> HIDE DEF t
<1>4. Range(t) = Range(s) \cup {c}
  <2>1. \A x \in Range(t) : x \in Range(s) \cup {c}
    <3> TAKE x \in Range(t)
    <3>1. PICK i \in 1 .. Len(s) + 1 : x = t[i]
      BY <1>3 DEF Range
    <3>2. i \in 1 .. Len(s) \/ i = Len(s) + 1
      BY <1>2, <3>1
    <3> QED BY <1>2, <3>1, <3>2 DEF Range
  <2>2. \A x \in Range(s) \cup {c} : x \in Range(t)
    <3> TAKE x \in Range(s) \cup {c}
    <3>1. CASE x = c
      BY <1>2, <1>3, <3>1 DEF Range
    <3>2. CASE x \in Range(s)
      <4>1. PICK i \in 1 .. Len(s) : x = s[i]
        BY <1>2, <3>2 DEF Range
      <4>2. i \in 1 .. Len(s) + 1
        BY <1>2, <4>1
      <4> QED BY <1>2, <1>3, <4>1, <4>2 DEF Range
    <3> QED BY <3>1, <3>2
  <2> QED BY <2>1, <2>2
<1>5. t \in Seq(Range(t))
  BY <1>2, <1>4 DEF U
<1> QED BY <1>2, <1>3, <1>4, <1>5 DEF t

LEMMA Taken ==
  ASSUME NEW s, s \in Seq(Range(s)), s # <<>>
  PROVE  /\ Head(s) = s[1] /\ Head(s) \in Range(s)
         /\ Tail(s) \in Seq(Range(Tail(s))) /\ Range(Tail(s)) \subseteq Range(s)
         /\ Len(s) \in Nat \ {0} /\ DOMAIN s = 1 .. Len(s)
         /\ DOMAIN Tail(s) = 1 .. Len(s) - 1
         /\ \A i \in 1 .. Len(s) - 1 : Tail(s)[i] = s[i + 1]
<1> DEFINE U == Range(s)
           t == Tail(s)
<1>1. s \in Seq(U)
  OBVIOUS
<1> HIDE DEF U
<1>2. /\ Head(s) = s[1] /\ Head(s) \in U
      /\ t \in Seq(U) /\ Len(t) = Len(s) - 1
      /\ Len(s) \in Nat \ {0} /\ DOMAIN s = 1 .. Len(s)
  BY <1>1
<1>3. /\ \A i \in 1 .. Len(s) - 1 : t[i] = s[i + 1]
      /\ DOMAIN t = 1 .. Len(s) - 1
  BY <1>1, <1>2
<1> HIDE DEF t
<1>4. Range(t) \subseteq U
  <2>1. \A i \in 1 .. Len(s) - 1 : i + 1 \in 1 .. Len(s)
    BY <1>2
  <2> QED BY <1>2, <1>3, <2>1 DEF Range, U
<1>5. t \in Seq(Range(t))
  <2>1. \A i \in 1 .. Len(t) : t[i] \in Range(t)
    BY <1>2, <1>3 DEF Range
  <2>2. t \in [1 .. Len(t) -> Range(t)] /\ Len(t) \in Nat
    BY <1>2, <2>1
  <2> QED BY <2>2
<1> QED BY <1>2, <1>3, <1>4, <1>5 DEF t, U

\* A sequence without its i-th element.
LEMMA Removed ==
  ASSUME NEW U, NEW s \in Seq(U), NEW i \in 1 .. Len(s)
  PROVE  /\ RemoveAt(s, i) \in Seq(U) /\ Len(RemoveAt(s, i)) = Len(s) - 1
         /\ Len(s) \in Nat \ {0}
         /\ \A j \in 1 .. Len(s) - 1 :
              RemoveAt(s, i)[j] = s[IF j < i THEN j ELSE j + 1]
<1> DEFINE n == Len(s)
           a == SubSeq(s, 1, i - 1)
           b == SubSeq(s, i + 1, n)
<1>1. n \in Nat \ {0} /\ i \in 1 .. n /\ \A j \in 1 .. n : s[j] \in U
  BY ElementOfSeq
<1> HIDE DEF n
<1>2. /\ a \in Seq(U) /\ Len(a) = i - 1
      /\ \A j \in 1 .. i - 1 : a[j] = s[j]
  <2>1. \A j \in 1 .. i - 1 : s[j] \in U
    BY <1>1
  <2>2. 1 \in Int /\ i - 1 \in Int
    BY <1>1
  <2>3. /\ a \in Seq(U) /\ Len(a) = IF 1 <= i - 1 THEN i - 1 - 1 + 1 ELSE 0
        /\ \A j \in 1 .. i - 1 - 1 + 1 : a[j] = s[1 + j - 1]
    BY <2>1, <2>2, SubSeqProperties
  <2> HIDE DEF a
  <2> QED BY <1>1, <2>3
<1>3. /\ b \in Seq(U) /\ Len(b) = n - i
      /\ \A j \in 1 .. n - i : b[j] = s[i + j]
  <2>1. \A j \in i + 1 .. n : s[j] \in U
    BY <1>1
  <2>2. i + 1 \in Int /\ n \in Int
    BY <1>1
  <2>3. /\ b \in Seq(U) /\ Len(b) = IF i + 1 <= n THEN n - (i + 1) + 1 ELSE 0
        /\ \A j \in 1 .. n - (i + 1) + 1 : b[j] = s[i + 1 + j - 1]
    BY <2>1, <2>2, SubSeqProperties
  <2> HIDE DEF b
  <2> QED BY <1>1, <2>3
<1>4. RemoveAt(s, i) = a \o b
  BY DEF RemoveAt, n
<1> DEFINE r == a \o b
<1> HIDE DEF a, b
<1>5. /\ r \in Seq(U) /\ Len(r) = n - 1
      /\ \A j \in 1 .. n - 1 : r[j] = IF j <= i - 1 THEN a[j] ELSE b[j - (i - 1)]
  <2>1. /\ r \in Seq(U) /\ Len(r) = Len(a) + Len(b)
        /\ \A j \in 1 .. Len(a) + Len(b) :
             r[j] = IF j <= Len(a) THEN a[j] ELSE b[j - Len(a)]
    BY <1>2, <1>3, ConcatProperties
  <2> QED BY <1>1, <1>2, <1>3, <2>1
<1> HIDE DEF r
<1>6. \A j \in 1 .. n - 1 : r[j] = s[IF j < i THEN j ELSE j + 1]
  <2> TAKE j \in 1 .. n - 1
  <2>1. CASE j < i
    <3>1. j \in 1 .. i - 1 /\ j <= i - 1
      BY <1>1, <2>1
    <3> QED BY <1>2, <1>5, <2>1, <3>1
  <2>2. CASE ~(j < i)
    <3>1. /\ j - (i - 1) \in 1 .. n - i /\ ~(j <= i - 1)
          /\ i + (j - (i - 1)) = j + 1
      BY <1>1, <2>2
    <3> QED BY <1>3, <1>5, <2>2, <3>1
  <2> QED BY <2>1, <2>2
<1> QED BY <1>1, <1>4, <1>5, <1>6 DEF n, r

\* The i-th element goes to the end.
LEMMA Rotated ==
  ASSUME NEW s, s \in Seq(Range(s)), NEW i \in DOMAIN s, NEW t,
         t = Append(RemoveAt(s, i), s[i])
  PROVE  /\ t \in Seq(Range(t)) /\ Range(t) \subseteq Range(s)
         /\ DOMAIN s = 1 .. Len(s) /\ DOMAIN t = DOMAIN s /\ Len(s) \in Nat
         /\ \A j \in DOMAIN t :
              t[j] = s[IF j < i THEN j ELSE IF j < Len(s) THEN j + 1 ELSE i]
<1> DEFINE U == Range(s)
           r == RemoveAt(s, i)
           n == Len(s)
<1>1. s \in Seq(U) /\ DOMAIN s = 1 .. n /\ n \in Nat \ {0} /\ i \in 1 .. n
  OBVIOUS
<1>2. s[i] \in U
  BY DEF Range
<1>3. \A j \in 1 .. n : s[j] \in U
  BY <1>1 DEF Range
<1> HIDE DEF U
<1>4. /\ r \in Seq(U) /\ Len(r) = n - 1
      /\ \A j \in 1 .. n - 1 : r[j] = s[IF j < i THEN j ELSE j + 1]
  BY <1>1, Removed
<1> HIDE DEF r
<1>5. /\ t \in Seq(U) /\ Len(t) = Len(r) + 1 /\ t[Len(r) + 1] = s[i]
      /\ \A j \in 1 .. Len(r) : t[j] = r[j]
  BY <1>2, <1>4, AppendProperties DEF r
<1> HIDE DEF n
<1>6. /\ DOMAIN t = 1 .. n /\ t[n] = s[i]
      /\ \A j \in 1 .. n - 1 : t[j] = s[IF j < i THEN j ELSE j + 1]
  BY <1>1, <1>4, <1>5
<1>7. \A j \in 1 .. n : t[j] = s[IF j < i THEN j ELSE IF j < n THEN j + 1 ELSE i]
  <2> TAKE j \in 1 .. n
  <2>1. CASE j = n
    <3>1. s[IF j < i THEN j ELSE IF j < n THEN j + 1 ELSE i] = s[i]
      BY <1>1, <2>1
    <3> QED BY <1>6, <2>1, <3>1
  <2>2. CASE j # n
    <3>1. j \in 1 .. n - 1 /\ j < n
      BY <1>1, <2>2
    <3> QED BY <1>6, <3>1
  <2> QED BY <2>1, <2>2
<1>8. Range(t) \subseteq U /\ t \in Seq(Range(t))
  <2>1. \A j \in 1 .. n : t[j] \in U
    BY <1>1, <1>5, <1>6
  <2>2. Range(t) \subseteq U
    BY <1>6, <2>1 DEF Range
  <2>3. t \in [1 .. n -> Range(t)]
    <3>1. t = [j \in 1 .. n |-> t[j]]
      <4>1. t \in [1 .. Len(t) -> U] /\ DOMAIN t = 1 .. Len(t)
        BY <1>5, LenProperties
      <4> QED BY <1>6, <4>1
    <3>2. \A j \in 1 .. n : t[j] \in Range(t)
      BY <1>6 DEF Range
    <3> QED BY <3>1, <3>2
  <2> DEFINE R == Range(t)
  <2>4. t \in [1 .. Len(t) -> R] /\ Len(t) \in Nat
    BY <1>1, <1>4, <1>5, <2>3
  <2> HIDE DEF R
  <2>5. t \in Seq(R)
    BY ONLY <2>4
  <2> QED BY <2>2, <2>5 DEF R
<1> QED BY <1>1, <1>6, <1>7, <1>8 DEF U, n

\* Filtering keeps the elements of K, each as often as it was there.
LEMMA FilteredIs ==
  ASSUME NEW U, NEW s \in Seq(U), NEW K, NEW t,
         t = FlattenSeq([i \in DOMAIN s |-> IF s[i] \in K THEN <<s[i]>> ELSE <<>>])
  PROVE  /\ t \in Seq(U) /\ Range(t) = Range(s) \cap K
         /\ IsInjective(s) => IsInjective(t)
<1> DEFINE n == Len(s)
           x == [i \in 1 .. n |-> IF s[i] \in K THEN <<s[i]>> ELSE <<>>]
           Flat(m, g) == g = [i \in 1 .. m |-> IF i = 1 THEN x[i] ELSE g[i - 1] \o x[i]]
           Had(i) == { s[j] : j \in 1 .. i } \cap K
           Flats(m) == \E g : Flat(m, g)
<1>1. n \in Nat /\ DOMAIN s = 1 .. n /\ \A i \in 1 .. n : s[i] \in U
  BY ElementOfSeq
<1> HIDE DEF n
<1>2. \A i \in 1 .. n : x[i] = IF s[i] \in K THEN <<s[i]>> ELSE <<>>
  OBVIOUS
<1>3. Len(x) = n /\ t = FlattenSeq(x)
  BY <1>1
<1>4. \A i \in 1 .. n : x[i] \in Seq(U)
  BY <1>1, <1>2
<1> HIDE DEF x
<1>5. \E g : Flat(n, g)
  <2> DEFINE T == { m \in 0 .. n : ~Flats(m) }
  <2>1. ASSUME T # {} PROVE FALSE
    <3>1. T \in SUBSET Nat
      <4> HIDE DEF Flats
      <4> QED BY <1>1
    <3>2. PICK m \in T : \A j \in T : m <= j
      <4> HIDE DEF T
      <4> QED BY <2>1, <3>1, Least
    <3>3. m # 0
      <4>1. Flat(0, <<>>)
        OBVIOUS
      <4> QED BY <4>1
    <3>4. m \in 1 .. n /\ m - 1 \in 0 .. n /\ m - 1 < m
      BY <1>1, <3>3
    <3>5. m - 1 \notin T
      <4> HIDE DEF T
      <4>1. m - 1 \in T => m <= m - 1
        BY <3>2
      <4> QED BY <1>1, <3>4, <4>1
    <3>6. PICK g : Flat(m - 1, g)
      BY <3>4, <3>5
    <3> DEFINE last == IF m = 1 THEN x[m] ELSE g[m - 1] \o x[m]
               h == [i \in 1 .. m |-> IF i = m THEN last ELSE g[i]]
    <3>7. \A i \in 1 .. m : h[i] = IF i = 1 THEN x[i] ELSE h[i - 1] \o x[i]
      <4> TAKE i \in 1 .. m
      <4>1. CASE i = m
        <5>1. m # 1 => m - 1 \in 1 .. m /\ h[m - 1] = g[m - 1]
          BY <1>1, <3>4
        <5> HIDE DEF h
        <5>2. h[m] = last
          BY <3>4 DEF h
        <5> QED BY <4>1, <5>1, <5>2
      <4>2. CASE i # m
        <5>1. i \in 1 .. m - 1 /\ (i # 1 => i - 1 \in 1 .. m - 1 /\ i - 1 \in 1 .. m)
          BY <1>1, <3>4, <4>2
        <5>2. h[i] = g[i] /\ (i # 1 => h[i - 1] = g[i - 1])
          BY <1>1, <3>4, <4>2, <5>1
        <5>3. g[i] = IF i = 1 THEN x[i] ELSE g[i - 1] \o x[i]
          BY <3>6, <5>1
        <5> HIDE DEF h
        <5> QED BY <5>2, <5>3
      <4> QED BY <4>1, <4>2
    <3>8. DOMAIN h = 1 .. m /\ h = [i \in 1 .. m |-> h[i]]
      OBVIOUS
    <3>9. Flat(m, h)
      <4> HIDE DEF h
      <4> QED BY <3>7, <3>8
    <3> QED BY <3>2, <3>9
  <2> HIDE DEF Flats
  <2>2. T = {} /\ n \in 0 .. n
    BY <1>1, <2>1
  <2>3. Flats(n)
    BY <2>2
  <2> QED BY <2>3 DEF Flats
<1> DEFINE f == CHOOSE g : Flat(n, g)
<1>6. Flat(n, f)
  BY <1>5
<1>7. t = IF n = 0 THEN x ELSE f[n]
  BY <1>3 DEF FlattenSeq
<1> HIDE DEF f
<1>8. \A i \in 1 .. n : f[i] = IF i = 1 THEN x[i] ELSE f[i - 1] \o x[i]
  BY <1>6
<1> DEFINE Good(i) == /\ f[i] \in Seq(U) /\ Range(f[i]) = Had(i)
                      /\ IsInjective(s) => IsInjective(f[i])
<1>9. ASSUME NEW i \in 1 .. n, i # 1 => Good(i - 1) PROVE Good(i)
  <2> DEFINE q == IF i = 1 THEN <<>> ELSE f[i - 1]
  <2>1. f[i] = q \o x[i]
    BY <1>4, <1>8, ConcatEmptySeq
  <2>2. /\ q \in Seq(U) /\ Range(q) = { s[j] : j \in 1 .. i - 1 } \cap K
        /\ IsInjective(s) => IsInjective(q)
    <3>1. CASE i = 1
      BY <3>1 DEF Range, IsInjective
    <3>2. CASE i # 1
      BY <1>9, <3>2
    <3> QED BY <3>1, <3>2
  <2> HIDE DEF q
  <2>3. /\ i \in 1 .. n /\ 1 .. i = (1 .. i - 1) \cup {i}
        /\ Len(q) \in Nat /\ DOMAIN q = 1 .. Len(q)
    BY <1>1, <2>2
  <2>4. CASE s[i] \notin K
    <3>1. x[i] = <<>> /\ f[i] = q
      BY <1>2, <2>1, <2>2, <2>4, ConcatEmptySeq
    <3>2. Had(i) = { s[j] : j \in 1 .. i - 1 } \cap K
      BY <2>3, <2>4
    <3> QED BY <2>2, <3>1, <3>2
  <2>5. CASE s[i] \in K
    <3> DEFINE p == Append(q, s[i])
    <3>1. f[i] = p
      BY <1>1, <1>2, <2>1, <2>2, <2>5, AppendIsConcat
    <3>2. /\ p \in Seq(U) /\ DOMAIN p = 1 .. Len(q) + 1
          /\ \A j \in 1 .. Len(q) : p[j] = q[j]
          /\ p[Len(q) + 1] = s[i]
      BY <1>1, <2>2, AppendProperties
    <3> HIDE DEF p
    <3>3. Range(p) = Range(q) \cup {s[i]}
      <4>1. \A j \in 1 .. Len(q) + 1 : j \in 1 .. Len(q) \/ j = Len(q) + 1
        BY <2>3
      <4>2. \A j \in 1 .. Len(q) : j \in 1 .. Len(q) + 1
        BY <2>3
      <4>3. Len(q) + 1 \in 1 .. Len(q) + 1
        BY <2>3
      <4> QED BY <2>3, <3>2, <4>1, <4>2, <4>3 DEF Range
    <3>4. Had(i) = ({ s[j] : j \in 1 .. i - 1 } \cap K) \cup {s[i]}
      BY <2>3, <2>5
    <3>5. ASSUME IsInjective(s) PROVE IsInjective(p)
      <4>1. s[i] \notin Range(q)
        <5>1. \A j \in 1 .. i - 1 : j # i /\ j \in 1 .. n
          BY <1>1, <2>3
        <5>2. \A j \in 1 .. i - 1 : s[j] # s[i]
          BY <1>1, <3>5, <5>1 DEF IsInjective
        <5> QED BY <2>2, <5>2
      <4>2. \A j \in 1 .. Len(q) : q[j] # s[i]
        BY <2>3, <4>1 DEF Range
      <4>3. SUFFICES ASSUME NEW a \in 1 .. Len(q) + 1, NEW b \in 1 .. Len(q) + 1, p[a] = p[b]
                     PROVE  a = b
        BY <3>2 DEF IsInjective
      <4>4. /\ a \in 1 .. Len(q) \/ a = Len(q) + 1
            /\ b \in 1 .. Len(q) \/ b = Len(q) + 1
        BY <2>3
      <4>5. \A k, l \in 1 .. Len(q) : q[k] = q[l] => k = l
        BY <2>2, <2>3, <3>5 DEF IsInjective
      <4> QED BY <3>2, <4>2, <4>3, <4>4, <4>5
    <3> QED BY <2>2, <3>1, <3>2, <3>3, <3>4, <3>5
  <2> QED BY <2>4, <2>5
<1>10. \A i \in 1 .. n : Good(i)
  <2> DEFINE T == { i \in 1 .. n : ~Good(i) }
  <2> HIDE DEF Good
  <2>1. ASSUME T # {} PROVE FALSE
    <3>1. T \in SUBSET Nat
      BY <1>1
    <3>2. PICK m \in T : \A j \in T : m <= j
      <4> HIDE DEF T
      <4> QED BY <2>1, <3>1, Least
    <3>3. m # 1 => m - 1 \in 1 .. n /\ m - 1 \notin T
      <4>1. m # 1 => m - 1 \in 1 .. n /\ ~(m <= m - 1)
        BY <1>1
      <4> HIDE DEF T
      <4> QED BY <3>2, <4>1
    <3>4. m # 1 => Good(m - 1)
      BY <3>3
    <3> QED BY <1>9, <3>4
  <2> QED BY <2>1
<1>11. CASE n = 0
  <2>1. t = <<>> /\ s = <<>> /\ Range(s) = {}
    BY <1>1, <1>7, <1>11 DEF x, Range
  <2> QED BY <2>1 DEF Range, IsInjective
<1>12. CASE n # 0
  <2>1. n \in 1 .. n
    BY <1>1, <1>12
  <2>2. Good(n) /\ t = f[n]
    BY <1>7, <1>10, <1>12, <2>1
  <2>3. Had(n) = Range(s) \cap K
    BY <1>1 DEF Range
  <2> QED BY <2>2, <2>3
<1> QED BY <1>11, <1>12

-----------------------------------------------------------------------------
(* The registry.                                                           *)

LEMMA Merged ==
  \A f, g, x : /\ x \in DOMAIN (f ++ g) <=> x \in DOMAIN f \/ x \in DOMAIN g
               /\ x \in DOMAIN f => (f ++ g)[x] = f[x]
               /\ x \in DOMAIN g /\ x \notin DOMAIN f => (f ++ g)[x] = g[x]
BY DEF ++

LEMMA CmdletIs ==
  \A name, params, x :
    /\ x \in DOMAIN Plain(name, params) <=> x = name
    /\ Plain(name, params)[name] = [guiConfirm |-> FALSE, params |-> params]
    /\ x \in DOMAIN AskFirst(name, params) <=> x = name
    /\ AskFirst(name, params)[name] = [guiConfirm |-> TRUE, params |-> params]
BY DEF Cmdlets, Plain, AskFirst

LEMMA NoParamsIs == \A names, x : x \in DOMAIN NoParams(names) <=> x \in names
BY DEF Cmdlets, NoParams

\* The cmdlets that the two pages name.
PagesCmdlets ==
  { "Get-SLLabel", "Get-SLLabelPolicy", "New-SLLabelPolicy", "Set-SLLabelPolicy",
    "Remove-SLLabelPolicy", "Get-SLAutoLabelPolicy", "New-SLAutoLabelPolicy",
    "Set-SLAutoLabelPolicy", "Remove-SLAutoLabelPolicy", "Get-SLSiteList",
    "Invoke-SLAutoLabelScan" }

NewLabelPolicyParams == [Name |-> Limited(Id), Labels |-> Texts, Comment |-> Note]
SetLabelPolicyParams == [Identity |-> Id, Labels |-> Texts, Comment |-> Text]
RunScanParams ==
  [SiteId |-> Text, DriveId |-> Text,
   FolderId |-> Text, Recursive |-> Switch, LabelId |-> Param("guid"),
   LabelName |-> Text, Extensions |-> Texts, MinSizeBytes |-> Number,
   MaxSizeBytes |-> Number, FilenamePatterns |-> Texts, ContentKeywords |-> Texts,
   SkipAlreadyLabeled |-> Switch, Justification |-> Text, BatchSize |-> Number,
   DryRun |-> Switch]

\* The cmdlets of labels and of policies.
LEMMA PolicyEntries ==
  /\ PagesCmdlets \ { "Get-SLSiteList", "Invoke-SLAutoLabelScan" } \subseteq DOMAIN PolicyCmdlets
  /\ { "Get-SLSiteList", "Invoke-SLAutoLabelScan" } \cap DOMAIN PolicyCmdlets = {}
  /\ PolicyCmdlets["Get-SLLabel"] = [guiConfirm |-> FALSE, params |-> [Id |-> Text, Tree |-> Switch]]
  /\ PolicyCmdlets["Get-SLLabelPolicy"] = [guiConfirm |-> FALSE, params |-> [Identity |-> Text]]
  /\ PolicyCmdlets["New-SLLabelPolicy"] = [guiConfirm |-> FALSE, params |-> NewLabelPolicyParams]
  /\ PolicyCmdlets["Set-SLLabelPolicy"] = [guiConfirm |-> FALSE, params |-> SetLabelPolicyParams]
  /\ PolicyCmdlets["Remove-SLLabelPolicy"] = [guiConfirm |-> TRUE, params |-> [Identity |-> Id]]
  /\ PolicyCmdlets["Get-SLAutoLabelPolicy"] = [guiConfirm |-> FALSE, params |-> [Identity |-> Text]]
  /\ PolicyCmdlets["New-SLAutoLabelPolicy"] =
       [guiConfirm |-> FALSE, params |-> AutoLabelPolicyParams]
  /\ PolicyCmdlets["Set-SLAutoLabelPolicy"] =
       [guiConfirm |-> FALSE, params |-> [Identity |-> Id, Mode |-> Enum]]
  /\ PolicyCmdlets["Remove-SLAutoLabelPolicy"] = [guiConfirm |-> TRUE, params |-> [Identity |-> Id]]
<1> DEFINE a == [Id |-> Text, Tree |-> Switch]
           b == [Identity |-> Text]
           c == [Identity |-> Id]
           d == [Identity |-> Id, Mode |-> Enum]
           e == [Identity |-> Text, Search |-> Text]
           t == Plain("Get-SLLabel", a)
                ++ Plain("Get-SLLabelPolicy", b)
                ++ Plain("New-SLLabelPolicy", NewLabelPolicyParams)
                ++ Plain("Set-SLLabelPolicy", SetLabelPolicyParams)
                ++ AskFirst("Remove-SLLabelPolicy", c)
                ++ Plain("Get-SLAutoLabelPolicy", b)
                ++ Plain("New-SLAutoLabelPolicy", AutoLabelPolicyParams)
                ++ Plain("Set-SLAutoLabelPolicy", d)
                ++ AskFirst("Remove-SLAutoLabelPolicy", c)
                ++ Plain("Get-SLSensitiveInfoType", e)
<1>1. PolicyCmdlets = t
  BY Zenon DEF PolicyCmdlets, NewLabelPolicyParams, SetLabelPolicyParams
<1> HIDE DEF a, b, c, d, e
<1>2. \A x \in PagesCmdlets \ { "Get-SLSiteList", "Invoke-SLAutoLabelScan" } : x \in DOMAIN t
  BY Merged, CmdletIs DEF PagesCmdlets
<1>3. "Get-SLSiteList" \notin DOMAIN t /\ "Invoke-SLAutoLabelScan" \notin DOMAIN t
  BY Merged, CmdletIs
<1>4. /\ t["Get-SLLabel"] = [guiConfirm |-> FALSE, params |-> a]
      /\ t["Get-SLLabelPolicy"] = [guiConfirm |-> FALSE, params |-> b]
      /\ t["New-SLLabelPolicy"] = [guiConfirm |-> FALSE, params |-> NewLabelPolicyParams]
      /\ t["Set-SLLabelPolicy"] = [guiConfirm |-> FALSE, params |-> SetLabelPolicyParams]
      /\ t["Remove-SLLabelPolicy"] = [guiConfirm |-> TRUE, params |-> c]
  BY Merged, CmdletIs
<1>5. t["Get-SLAutoLabelPolicy"] = [guiConfirm |-> FALSE, params |-> b]
  BY Merged, CmdletIs
<1>6. t["New-SLAutoLabelPolicy"] = [guiConfirm |-> FALSE, params |-> AutoLabelPolicyParams]
  BY Merged, CmdletIs
<1>7. /\ t["Set-SLAutoLabelPolicy"] = [guiConfirm |-> FALSE, params |-> d]
      /\ t["Remove-SLAutoLabelPolicy"] = [guiConfirm |-> TRUE, params |-> c]
  BY Merged, CmdletIs
<1> HIDE DEF t
<1>8. /\ PagesCmdlets \ { "Get-SLSiteList", "Invoke-SLAutoLabelScan" } \subseteq DOMAIN t
      /\ { "Get-SLSiteList", "Invoke-SLAutoLabelScan" } \cap DOMAIN t = {}
  BY <1>2, <1>3
<1> QED BY <1>1, <1>4, <1>5, <1>6, <1>7, <1>8 DEF a, b, c, d

\* No other group has a cmdlet of the pages but these two.
LEMMA OtherEntries ==
  /\ \A x \in PagesCmdlets : x \notin DOMAIN ConnectionCmdlets /\ x \notin DOMAIN DocumentCmdlets
  /\ "Get-SLSiteList" \in DOMAIN OtherCmdlets /\ "Get-SLSiteList" \notin DOMAIN ScanCmdlets
  /\ OtherCmdlets["Get-SLSiteList"] = [guiConfirm |-> FALSE, params |-> [Search |-> Text]]
  /\ "Invoke-SLAutoLabelScan" \in DOMAIN ScanCmdlets
  /\ ScanCmdlets["Invoke-SLAutoLabelScan"] = [guiConfirm |-> FALSE, params |-> RunScanParams]
<1>1. ASSUME NEW x \in PagesCmdlets PROVE x \notin DOMAIN ConnectionCmdlets
  <2> DEFINE a == [UseDeviceCode |-> Switch]
             b == [TenantId |-> Text, UseDeviceCode |-> Switch]
             c == { "Connect-SLProtection", "Disconnect-SLGraph", "Disconnect-SLCompliance",
                    "Disconnect-SLProtection", "Get-SLConnectionStatus" }
             t == Plain("Connect-SLAll", a)
                  ++ Plain("Connect-SLGraph", b)
                  ++ Plain("Connect-SLCompliance", a)
                  ++ NoParams(c)
  <2>1. ConnectionCmdlets = t
    BY Zenon DEF ConnectionCmdlets
  <2>2. /\ x \notin c
        /\ x \notin {"Connect-SLAll", "Connect-SLGraph", "Connect-SLCompliance"}
    BY <1>1 DEF PagesCmdlets
  <2> HIDE DEF a, b, c
  <2> QED BY <2>1, <2>2, Merged, CmdletIs, NoParamsIs
<1>2. ASSUME NEW x \in PagesCmdlets PROVE x \notin DOMAIN DocumentCmdlets
  <2> DEFINE a == DocumentId ++ [LabelId |-> Text, LabelName |-> Text,
                                 Justification |-> Note, DryRun |-> Switch]
             b == [Items |-> Items, LabelId |-> Text, LabelName |-> Text,
                   Justification |-> Text, DryRun |-> Switch]
             c == DocumentId ++ [Justification |-> Note, DryRun |-> Switch]
             d == [CsvText |-> Id]
             e == [Items |-> Items, Mode |-> Needed(Enum), Justification |-> Note,
                   DryRun |-> Switch]
             t == Plain("Get-SLDocumentLabel", DocumentId)
                  ++ Plain("Set-SLDocumentLabel", a)
                  ++ Plain("Set-SLDocumentLabelBulk", b)
                  ++ Plain("Remove-SLDocumentLabel", c)
                  ++ Plain("Import-SLLabelCsv", d)
                  ++ AskFirst("Remove-SLDocumentLabelBulk", e)
  <2>1. DocumentCmdlets = t
    BY Zenon DEF DocumentCmdlets
  <2> HIDE DEF a, b, c, d, e
  <2> QED BY <1>2, <2>1, Merged, CmdletIs DEF PagesCmdlets
<1>3. /\ "Get-SLSiteList" \in DOMAIN OtherCmdlets
      /\ OtherCmdlets["Get-SLSiteList"] = [guiConfirm |-> FALSE, params |-> [Search |-> Text]]
  <2> DEFINE a == [Search |-> Text]
             b == [SiteId |-> Text, DriveId |-> Text, ItemId |-> Text, Path |-> Text]
             c == [Name |-> Limited(Id), Scope |-> Enum]
             d == [Name |-> Id]
             e == [Name |-> Id, Live |-> Switch]
             f == [Name |-> Id, DryRun |-> Switch, Path |-> Param("path")]
             g == [Last |-> Number]
             t == Plain("Get-SLSiteList", a)
                  ++ Plain("Get-SLDriveChildren", b)
                  ++ Plain("Get-SLDocumentDetail", DocumentId)
                  ++ Plain("New-SLSnapshot", c)
                  ++ Plain("Remove-SLSnapshot", d)
                  ++ Plain("Compare-SLSnapshot", e)
                  ++ AskFirst("Restore-SLSnapshot", f)
                  ++ Plain("Get-SLAuditLog", g)
                  ++ NoParams({ "Get-SLProtectionConfig", "Get-SLSnapshot",
                                "Get-SLLabelReport", "Get-SLLabelMismatch" })
  <2>1. OtherCmdlets = t
    BY Zenon DEF OtherCmdlets
  <2> HIDE DEF a, b, c, d, e, f, g
  <2>2. "Get-SLSiteList" \in DOMAIN t /\ t["Get-SLSiteList"] = [guiConfirm |-> FALSE, params |-> a]
    BY Merged, CmdletIs
  <2> HIDE DEF t
  <2> QED BY <2>1, <2>2 DEF a
<1>4. /\ "Get-SLSiteList" \notin DOMAIN ScanCmdlets
      /\ "Invoke-SLAutoLabelScan" \in DOMAIN ScanCmdlets
      /\ ScanCmdlets["Invoke-SLAutoLabelScan"] = [guiConfirm |-> FALSE, params |-> RunScanParams]
  <2> DEFINE b == [TaskName |-> Text, RuleFile |-> Needed(Param("path")), Schedule |-> Id,
                   RunAsUser |-> Text, DryRun |-> Switch]
             t == Plain("Invoke-SLAutoLabelScan", RunScanParams)
                  ++ Plain("Register-SLAutoLabelSchedule", b)
  <2>1. ScanCmdlets = t
    BY Zenon DEF ScanCmdlets, RunScanParams
  <2> HIDE DEF b
  <2> QED BY <2>1, Merged, CmdletIs
<1> QED BY <1>1, <1>2, <1>3, <1>4

\* What the registry says of the cmdlets that the two pages name.
LEMMA Entries ==
  /\ PagesCmdlets \subseteq DOMAIN Registry
  /\ Registry["Get-SLLabel"] = [guiConfirm |-> FALSE, params |-> [Id |-> Text, Tree |-> Switch]]
  /\ Registry["Get-SLLabelPolicy"] = [guiConfirm |-> FALSE, params |-> [Identity |-> Text]]
  /\ Registry["New-SLLabelPolicy"] = [guiConfirm |-> FALSE, params |-> NewLabelPolicyParams]
  /\ Registry["Set-SLLabelPolicy"] = [guiConfirm |-> FALSE, params |-> SetLabelPolicyParams]
  /\ Registry["Remove-SLLabelPolicy"] = [guiConfirm |-> TRUE, params |-> [Identity |-> Id]]
  /\ Registry["Get-SLAutoLabelPolicy"] = [guiConfirm |-> FALSE, params |-> [Identity |-> Text]]
  /\ Registry["New-SLAutoLabelPolicy"] = [guiConfirm |-> FALSE, params |-> AutoLabelPolicyParams]
  /\ Registry["Set-SLAutoLabelPolicy"] =
       [guiConfirm |-> FALSE, params |-> [Identity |-> Id, Mode |-> Enum]]
  /\ Registry["Remove-SLAutoLabelPolicy"] = [guiConfirm |-> TRUE, params |-> [Identity |-> Id]]
  /\ Registry["Get-SLSiteList"] = [guiConfirm |-> FALSE, params |-> [Search |-> Text]]
  /\ Registry["Invoke-SLAutoLabelScan"] = [guiConfirm |-> FALSE, params |-> RunScanParams]
<1> DEFINE R == ConnectionCmdlets ++ PolicyCmdlets ++ ScanCmdlets ++ DocumentCmdlets ++ OtherCmdlets
           scan == "Invoke-SLAutoLabelScan"
           sites == "Get-SLSiteList"
<1>1. ASSUME NEW x \in PagesCmdlets \ {sites, scan}
      PROVE  x \in DOMAIN R /\ R[x] = PolicyCmdlets[x]
  <2>1. x \notin DOMAIN ConnectionCmdlets
    BY OtherEntries
  <2>2. x \in DOMAIN PolicyCmdlets
    BY PolicyEntries
  <2> QED BY <2>1, <2>2, Merged
<1>2. scan \in DOMAIN R /\ R[scan] = ScanCmdlets[scan]
  <2>1. /\ scan \notin DOMAIN ConnectionCmdlets /\ scan \notin DOMAIN PolicyCmdlets
        /\ scan \in DOMAIN ScanCmdlets
    BY OtherEntries, PolicyEntries DEF PagesCmdlets
  <2> QED BY <2>1, Merged
<1>3. sites \in DOMAIN R /\ R[sites] = OtherCmdlets[sites]
  <2>1. /\ sites \notin DOMAIN ConnectionCmdlets /\ sites \notin DOMAIN PolicyCmdlets
        /\ sites \notin DOMAIN ScanCmdlets /\ sites \notin DOMAIN DocumentCmdlets
        /\ sites \in DOMAIN OtherCmdlets
    BY OtherEntries, PolicyEntries DEF PagesCmdlets
  <2> QED BY <2>1, Merged
<1>4. R = Registry
  BY DEF Registry
<1> HIDE DEF R
<1>5. PagesCmdlets \subseteq DOMAIN R
  BY <1>1, <1>2, <1>3
<1>6. \A x \in { "Get-SLLabel", "Get-SLLabelPolicy", "New-SLLabelPolicy", "Set-SLLabelPolicy",
                 "Remove-SLLabelPolicy", "Get-SLAutoLabelPolicy", "New-SLAutoLabelPolicy",
                 "Set-SLAutoLabelPolicy", "Remove-SLAutoLabelPolicy" } : R[x] = PolicyCmdlets[x]
  BY <1>1 DEF PagesCmdlets
<1> QED BY <1>2, <1>3, <1>4, <1>5, <1>6, PolicyEntries, OtherEntries

-----------------------------------------------------------------------------
(* What makes sense keeps the contract, and asks before it removes.        *)

LEMMA Required ==
  /\ ~Text.required /\ ~Texts.required /\ ~Switch.required /\ ~Number.required
  /\ ~Enum.required /\ ~Note.required /\ Id.required /\ Limited(Id).required
  /\ ~Param("guid").required
BY DEF Text, Texts, Switch, Number, Enum, Note, Id, Limited, Needed, Param

LEMMA Kinds2 == PolicyKind = {"policy", "autolabel"}
BY DEF PolicyKind, Kind

LEMMA Names2 ==
  /\ CmdletOf["policy"].get = "Get-SLLabelPolicy" /\ CmdletOf["policy"].new = "New-SLLabelPolicy"
  /\ CmdletOf["policy"].set = "Set-SLLabelPolicy"
  /\ CmdletOf["policy"].remove = "Remove-SLLabelPolicy"
  /\ CmdletOf["autolabel"].get = "Get-SLAutoLabelPolicy"
  /\ CmdletOf["autolabel"].new = "New-SLAutoLabelPolicy"
  /\ CmdletOf["autolabel"].set = "Set-SLAutoLabelPolicy"
  /\ CmdletOf["autolabel"].remove = "Remove-SLAutoLabelPolicy"
BY DEF CmdletOf

LEMMA WhenIs ==
  \A cond, params, x : x \in DOMAIN When(cond, params) => x \in DOMAIN params
BY DEF When

LEMMA NewKeeps ==
  ASSUME NEW kind \in PolicyKind, NEW f \in Form
  PROVE  KeepsContract(CmdletOf[kind].new, NewParams(kind, f))
<1>1. CASE kind = "policy"
  <2> DEFINE p == NewParams(kind, f)
             a == [Name |-> "text"]
             b == [Labels |-> "list"]
             c == [Comment |-> Sort(f.comment)]
             d == When(f.labels # "", b)
             e == When(f.comment # "", c)
  <2>1. p = a ++ d ++ e
    BY <1>1 DEF NewParams
  <2>2. /\ \A x : x \in DOMAIN a <=> x = "Name"
        /\ a["Name"] = "text"
        /\ \A x : x \in DOMAIN b <=> x = "Labels"
        /\ \A x : x \in DOMAIN c <=> x = "Comment"
    OBVIOUS
  <2> HIDE DEF a, b, c
  <2>3. /\ \A x \in DOMAIN d : x = "Labels"
        /\ \A x \in DOMAIN e : x = "Comment"
    BY <2>2, WhenIs
  <2> HIDE DEF p, d, e
  <2>4. /\ \A x \in DOMAIN p : x = "Name" \/ x = "Labels" \/ x = "Comment"
        /\ "Name" \in DOMAIN p /\ p["Name"] = "text"
    BY <2>1, <2>2, <2>3, Merged
  <2>5. CmdletOf[kind].new = "New-SLLabelPolicy"
    BY <1>1, Names2
  <2>6. KeepsContract("New-SLLabelPolicy", p)
    BY <2>4, Entries, Required DEF KeepsContract, NewLabelPolicyParams, PagesCmdlets
  <2> QED BY <2>5, <2>6 DEF p
<1>2. CASE kind = "autolabel"
  <2> DEFINE p == NewParams(kind, f)
             a == [Name |-> "text", ApplySensitivityLabel |-> "text", Mode |-> "word"]
             b == [l \in f.places |-> "list"]
  <2>1. p = a ++ b
    BY <1>2 DEF NewParams
  <2>2. /\ \A x : x \in DOMAIN a <=> x \in {"Name", "ApplySensitivityLabel", "Mode"}
        /\ a["Name"] = "text" /\ a["ApplySensitivityLabel"] = "text"
        /\ \A x \in DOMAIN b : x \in Location
    BY DEF Form
  <2> HIDE DEF p, a, b
  <2>3. /\ \A x \in DOMAIN p : x \in {"Name", "ApplySensitivityLabel", "Mode"} \cup Location
        /\ "Name" \in DOMAIN p /\ "ApplySensitivityLabel" \in DOMAIN p
        /\ p["Name"] = "text" /\ p["ApplySensitivityLabel"] = "text"
    BY <2>1, <2>2, Merged
  <2>4. CmdletOf[kind].new = "New-SLAutoLabelPolicy"
    BY <1>2, Names2
  <2>5. KeepsContract("New-SLAutoLabelPolicy", p)
    BY <2>3, Entries, Required DEF KeepsContract, AutoLabelPolicyParams, Location, PagesCmdlets
  <2> QED BY <2>4, <2>5 DEF p
<1> QED BY <1>1, <1>2, Kinds2

LEMMA SetKeeps ==
  ASSUME NEW kind \in PolicyKind, NEW f, NEW existing
  PROVE  KeepsContract(CmdletOf[kind].set, SetParams(kind, f, existing))
<1> DEFINE p == SetParams(kind, f, existing)
           a == [Identity |-> "text"]
           b == [Comment |-> Sort(f.comment)]
           c == [Labels |-> Listed(f.labels)]
           d == [Mode |-> "word"]
<1>1. /\ \A x : x \in DOMAIN a <=> x = "Identity"
      /\ a["Identity"] = "text"
      /\ \A x : x \in DOMAIN b <=> x = "Comment"
      /\ \A x : x \in DOMAIN c <=> x = "Labels"
      /\ \A x : x \in DOMAIN d <=> x = "Mode"
  OBVIOUS
<1>2. CASE kind = "policy"
  <2>1. p = a ++ When(f.comment # existing.comment, b) ++ When(f.labels # existing.labels, c)
    BY <1>2 DEF SetParams
  <2> HIDE DEF p, a, b, c, d
  <2>2. /\ \A x \in DOMAIN p : x = "Identity" \/ x = "Labels" \/ x = "Comment"
        /\ "Identity" \in DOMAIN p /\ p["Identity"] = "text"
    BY <1>1, <2>1, WhenIs, Merged
  <2>3. CmdletOf[kind].set = "Set-SLLabelPolicy"
    BY <1>2, Names2
  <2>4. KeepsContract("Set-SLLabelPolicy", p)
    BY <2>2, Entries, Required DEF KeepsContract, SetLabelPolicyParams, PagesCmdlets
  <2> QED BY <2>3, <2>4 DEF p
<1>3. CASE kind = "autolabel"
  <2>1. p = a ++ When(f.mode # existing.mode, d)
    BY <1>3 DEF SetParams
  <2> HIDE DEF p, a, b, c, d
  <2>2. /\ \A x \in DOMAIN p : x = "Identity" \/ x = "Mode"
        /\ "Identity" \in DOMAIN p /\ p["Identity"] = "text"
    BY <1>1, <2>1, WhenIs, Merged
  <2>3. CmdletOf[kind].set = "Set-SLAutoLabelPolicy"
    BY <1>3, Names2
  <2>4. KeepsContract("Set-SLAutoLabelPolicy", p)
    BY <2>2, Entries, Required DEF KeepsContract, PagesCmdlets
  <2> QED BY <2>3, <2>4 DEF p
<1> QED BY <1>2, <1>3, Kinds2

\* A scan says that it is a rehearsal when it is, and that what is labelled be
\* spared when the policy says so; it names its site if there is one.
LEMMA ScanSays ==
  ASSUME NEW policy, NEW dry \in BOOLEAN, NEW site, NEW p,
         policy.skip \in BOOLEAN, policy.extensions \in BOOLEAN,
         p = ScanParams(policy, dry, site)
  PROVE  /\ \A x \in DOMAIN p : x \in { "LabelId", "Recursive", "SiteId", "Extensions",
                                        "SkipAlreadyLabeled", "DryRun" }
         /\ "SiteId" \in DOMAIN p <=> site # None
         /\ dry => "DryRun" \in DOMAIN p /\ p["DryRun"] = "yes"
         /\ policy.skip => "SkipAlreadyLabeled" \in DOMAIN p /\ p["SkipAlreadyLabeled"] = "yes"
         /\ policy.extensions => "Extensions" \in DOMAIN p /\ p["Extensions"] = "list"
         /\ site # None => p["SiteId"] = "text"
<1> DEFINE a == [LabelId |-> "guid", Recursive |-> "yes"]
           b == IF site # None THEN [SiteId |-> "text"] ELSE <<>>
           c == IF policy.extensions THEN [Extensions |-> "list"] ELSE <<>>
           d == IF policy.skip THEN [SkipAlreadyLabeled |-> "yes"] ELSE <<>>
           e == IF dry THEN [DryRun |-> "yes"] ELSE <<>>
<1>1. /\ \A x : x \in DOMAIN a <=> x \in {"LabelId", "Recursive"}
      /\ \A x : x \in DOMAIN b <=> x = "SiteId" /\ site # None
      /\ \A x : x \in DOMAIN c <=> x = "Extensions" /\ policy.extensions
      /\ \A x : x \in DOMAIN d <=> x = "SkipAlreadyLabeled" /\ policy.skip
      /\ \A x : x \in DOMAIN e <=> x = "DryRun" /\ dry
      /\ site # None => b["SiteId"] = "text"
      /\ policy.extensions => c["Extensions"] = "list"
      /\ policy.skip => d["SkipAlreadyLabeled"] = "yes"
      /\ dry => e["DryRun"] = "yes"
  OBVIOUS
<1>2. p = a ++ b ++ c ++ d ++ e
  BY DEF ScanParams, ScopeParams
<1> HIDE DEF a, b, c, d, e
<1>3. \A x : x \in DOMAIN p <=> \/ x \in DOMAIN a \/ x \in DOMAIN b \/ x \in DOMAIN c
                                \/ x \in DOMAIN d \/ x \in DOMAIN e
  BY <1>2, Merged
<1>4. site # None => p["SiteId"] = "text"
  <2>1. "SiteId" \notin DOMAIN a
    BY <1>1
  <2> QED BY <1>1, <1>2, <2>1, Merged
<1>5. policy.skip => p["SkipAlreadyLabeled"] = "yes"
  <2> DEFINE k == "SkipAlreadyLabeled"
  <2>1. k \notin DOMAIN a /\ k \notin DOMAIN b /\ k \notin DOMAIN c
    BY <1>1
  <2> HIDE DEF k
  <2>2. k \in DOMAIN d => (a ++ b ++ c ++ d ++ e)[k] = d[k]
    BY <2>1, Merged
  <2> QED BY <1>1, <1>2, <2>2 DEF k
<1>6. dry => p["DryRun"] = "yes"
  <2> DEFINE k == "DryRun"
  <2>1. k \notin DOMAIN a /\ k \notin DOMAIN b /\ k \notin DOMAIN c /\ k \notin DOMAIN d
    BY <1>1
  <2> HIDE DEF k
  <2>2. k \in DOMAIN e => (a ++ b ++ c ++ d ++ e)[k] = e[k]
    BY <2>1, Merged
  <2> QED BY <1>1, <1>2, <2>2 DEF k
<1>7. \A x \in DOMAIN p : x \in { "LabelId", "Recursive", "SiteId", "Extensions",
                                  "SkipAlreadyLabeled", "DryRun" }
  BY <1>1, <1>3
<1>8. /\ "SiteId" \in DOMAIN p <=> site # None
      /\ dry => "DryRun" \in DOMAIN p
      /\ policy.extensions => "Extensions" \in DOMAIN p
      /\ policy.skip => "SkipAlreadyLabeled" \in DOMAIN p
  BY <1>1, <1>3
<1>9. policy.extensions => p["Extensions"] = "list"
  <2> DEFINE k == "Extensions"
  <2>1. k \notin DOMAIN a /\ k \notin DOMAIN b
    BY <1>1
  <2> HIDE DEF k
  <2>2. k \in DOMAIN c => (a ++ b ++ c ++ d ++ e)[k] = c[k]
    BY <2>1, Merged
  <2> QED BY <1>1, <1>2, <2>2 DEF k
<1> QED BY <1>4, <1>5, <1>6, <1>7, <1>8, <1>9

LEMMA ScanKeeps ==
  ASSUME NEW policy \in ClassPolicy, NEW dry \in BOOLEAN, NEW site
  PROVE  KeepsContract("Invoke-SLAutoLabelScan", ScanParams(policy, dry, site))
<1> DEFINE p == ScanParams(policy, dry, site)
<1>1. policy.skip \in BOOLEAN /\ policy.extensions \in BOOLEAN
  BY DEF ClassPolicy
<1>2. \A x \in DOMAIN p : x \in { "LabelId", "Recursive", "SiteId", "Extensions",
                                  "SkipAlreadyLabeled", "DryRun" }
  BY <1>1, ScanSays
<1> HIDE DEF p
<1>3. /\ \A x \in DOMAIN p : x \in DOMAIN RunScanParams
      /\ \A key \in DOMAIN RunScanParams : ~RunScanParams[key].required
  BY <1>2, Required DEF RunScanParams
<1>4. "Invoke-SLAutoLabelScan" \in DOMAIN Registry
  BY Entries DEF PagesCmdlets
<1>5. Registry["Invoke-SLAutoLabelScan"].params = RunScanParams
  BY Entries
<1> QED BY <1>3, <1>4, <1>5 DEF KeepsContract, p

LEMMA SensibleKeeps ==
  ASSUME NEW c, Sensible(c)
  PROVE  /\ KeepsContract(c.cmdlet, c.params)
         /\ Registry[c.cmdlet].guiConfirm => c.for.op = "delete"
<1>1. Says1(c)
  BY DEF Sensible
<1>2. CASE ForList(c)
  <2>1. c.what.section = "label" \/ c.what.section \in PolicyKind
    BY <1>2 DEF ForList, PolicyKind
  <2> QED BY <1>2, <2>1, Kinds2, Names2, Entries, Required DEF ForList, KeepsContract, PagesCmdlets
<1>3. CASE ForLabel(c) \/ ForPolicies(c)
  BY <1>3, Entries, Required DEF ForLabel, ForPolicies, KeepsContract, PagesCmdlets
<1>4. CASE ForPolicy(c)
  BY <1>4, Kinds2, Names2, Entries, Required DEF ForPolicy, KeepsContract, PagesCmdlets
<1>5. CASE ForSave(c)
  <2>1. PICK kind \in PolicyKind, f \in Form, old \in Shows :
          \/ c.cmdlet = CmdletOf[kind].new /\ c.params = NewParams(kind, f)
          \/ c.cmdlet = CmdletOf[kind].set /\ c.params = SetParams(kind, f, old)
    BY <1>5 DEF ForSave
  <2>2. KeepsContract(c.cmdlet, c.params)
    BY <2>1, NewKeeps, SetKeeps
  <2>3. ~Registry[c.cmdlet].guiConfirm
    BY <2>1, Kinds2, Names2, Entries
  <2> QED BY <2>2, <2>3
<1>6. CASE c.for.op = "delete" /\ ForDelete(c)
  BY <1>6, Kinds2, Names2, Entries, Required DEF ForDelete, KeepsContract, PagesCmdlets
<1>7. CASE ForWizard(c)
  BY <1>7, Entries, Required DEF ForWizard, KeepsContract, PagesCmdlets
<1>8. CASE ForScan(c)
  BY <1>8, ScanKeeps, Entries DEF ForScan, GoodPolicy
<1> QED BY <1>1, <1>2, <1>3, <1>4, <1>5, <1>6, <1>7, <1>8 DEF Says1

-----------------------------------------------------------------------------
(* The queue of commands.                                                  *)

\* q2 has what q has, under the same number, but for the answers.
SameAsked(q, q2) ==
  /\ DOMAIN q2 = DOMAIN q
  /\ \A i \in DOMAIN q : q2[i].for = q[i].for /\ q2[i].what = q[i].what

LEMMA QueueAnswered ==
  ASSUME NEW q, Queue(q), OneScan(q), NEW i \in DOMAIN q, NEW st, NEW val,
         NEW e, e = [q[i] EXCEPT !.st = st, !.val = val], Sensible(e),
         NEW q2, q2 = [q EXCEPT ![i] = e]
  PROVE  Queue(q2) /\ OneScan(q2) /\ SameAsked(q, q2)
<1>1. q[i] \in Range(q) /\ Sensible(q[i])
  BY DEF Queue, Range
<1>2. e.for = q[i].for /\ e.what = q[i].what
  <2> DEFINE d == q[i]
  <2>1. d = [cmdlet |-> d.cmdlet, params |-> d.params, what |-> d.what, for |-> d.for,
             at |-> d.at, st |-> d.st, val |-> d.val]
    BY <1>1 DEF Sensible
  <2>2. e = [d EXCEPT !.st = st, !.val = val]
    OBVIOUS
  <2> HIDE DEF d
  <2>3. e.for = d.for /\ e.what = d.what
    BY <2>1, <2>2
  <2> QED BY <2>3 DEF d
<1>3. DOMAIN q2 = DOMAIN q /\ \A j \in DOMAIN q : q2[j] = IF j = i THEN e ELSE q[j]
  BY DEF Queue
<1>4. SameAsked(q, q2)
  BY <1>2, <1>3 DEF SameAsked
<1>5. OneScan(q2)
  BY <1>4 DEF OneScan, SameAsked
<1>6. \A c \in Range(q2) : Sensible(c)
  BY <1>3 DEF Range, Queue
<1>7. q2 \in Seq(Range(q2))
  <2>1. Len(q) \in Nat /\ DOMAIN q = 1 .. Len(q)
    BY DEF Queue
  <2> DEFINE n == Len(q)
             R == Range(q2)
  <2>2. \A j \in 1 .. n : q2[j] \in R
    BY <1>3, <2>1 DEF Range
  <2>3. q2 = [j \in 1 .. n |-> q2[j]]
    <3>1. q2 = [j \in DOMAIN q |-> IF j = i THEN e ELSE q[j]]
      BY DEF Queue
    <3> QED BY <1>3, <2>1, <3>1
  <2> HIDE DEF n, R
  <2>4. n \in Nat /\ q2 \in [1 .. n -> R]
    BY <2>1, <2>2, <2>3 DEF n
  <2>5. q2 \in Seq(R)
    BY ONLY <2>4
  <2> QED BY <2>5 DEF R
<1> QED BY <1>4, <1>5, <1>6, <1>7 DEF Queue

\* What is in q2 was in q, but for c.
LEMMA QueueAppended ==
  ASSUME NEW q, Queue(q), OneScan(q), NEW c, Sensible(c),
         c.for.op = "scan" => \A d \in Range(q) : d.for.op = "scan" => d.for.run # c.for.run,
         NEW q2, q2 = Append(q, c)
  PROVE  Queue(q2) /\ OneScan(q2) /\ Range(q2) = Range(q) \cup {c}
<1>1. /\ q2 \in Seq(Range(q2)) /\ Range(q2) = Range(q) \cup {c}
      /\ Len(q) \in Nat /\ DOMAIN q = 1 .. Len(q)
      /\ DOMAIN q2 = 1 .. Len(q) + 1
      /\ \A i \in 1 .. Len(q) : q2[i] = q[i]
      /\ q2[Len(q) + 1] = c
  BY Appended DEF Queue
<1>2. Queue(q2)
  BY <1>1 DEF Queue
<1>3. OneScan(q2)
  <2> SUFFICES ASSUME NEW i \in DOMAIN q2, NEW j \in DOMAIN q2,
                      q2[i].for.op = "scan", q2[j].for.op = "scan",
                      q2[i].for.run = q2[j].for.run
               PROVE  i = j
    BY DEF OneScan
  <2>1. /\ i \in DOMAIN q \/ i = Len(q) + 1
        /\ j \in DOMAIN q \/ j = Len(q) + 1
    BY <1>1
  <2>2. ASSUME NEW k \in DOMAIN q
        PROVE  q2[k] = q[k] /\ q[k] \in Range(q)
    BY <1>1, <2>2 DEF Range
  <2>3. CASE i \in DOMAIN q /\ j \in DOMAIN q
    BY <2>2, <2>3 DEF OneScan
  <2>4. CASE i \in DOMAIN q /\ j = Len(q) + 1
    BY <1>1, <2>2, <2>4
  <2>5. CASE j \in DOMAIN q /\ i = Len(q) + 1
    BY <1>1, <2>2, <2>5
  <2> QED BY <2>1, <2>3, <2>4, <2>5
<1> QED BY <1>1, <1>2, <1>3

LEMMA QueueTaken ==
  ASSUME NEW q, Queue(q), OneScan(q), q # <<>>, NEW q2, q2 = Tail(q)
  PROVE  /\ Queue(q2) /\ OneScan(q2) /\ Range(q2) \subseteq Range(q)
         /\ Head(q) = q[1] /\ Head(q) \in Range(q) /\ Sensible(Head(q))
         /\ Len(q) \in Nat \ {0} /\ DOMAIN q = 1 .. Len(q)
         /\ DOMAIN q2 = 1 .. Len(q) - 1
         /\ \A i \in DOMAIN q2 : q2[i] = q[i + 1]
         /\ Head(q).for.op = "scan" =>
              \A d \in Range(q2) : d.for.op = "scan" => d.for.run # Head(q).for.run
<1>1. /\ Head(q) = q[1] /\ Head(q) \in Range(q)
      /\ q2 \in Seq(Range(q2)) /\ Range(q2) \subseteq Range(q)
      /\ Len(q) \in Nat \ {0} /\ DOMAIN q = 1 .. Len(q)
      /\ DOMAIN q2 = 1 .. Len(q) - 1
      /\ \A i \in 1 .. Len(q) - 1 : q2[i] = q[i + 1]
  BY Taken DEF Queue
<1>2. Queue(q2) /\ Sensible(Head(q))
  BY <1>1 DEF Queue
<1>3. \A i \in DOMAIN q2 : q2[i] = q[i + 1] /\ i \in Nat /\ i + 1 \in DOMAIN q /\ i + 1 # 1
  BY <1>1
<1>4. OneScan(q2)
  <2> SUFFICES ASSUME NEW i \in DOMAIN q2, NEW j \in DOMAIN q2,
                      q2[i].for.op = "scan", q2[j].for.op = "scan",
                      q2[i].for.run = q2[j].for.run
               PROVE  i = j
    BY DEF OneScan
  <2>1. i + 1 = j + 1
    BY <1>3 DEF OneScan
  <2> QED BY <1>3, <2>1
<1>5. ASSUME Head(q).for.op = "scan", NEW d \in Range(q2), d.for.op = "scan"
      PROVE  d.for.run # Head(q).for.run
  <2>1. PICK i \in DOMAIN q2 : d = q2[i]
    BY DEF Range
  <2>2. 1 \in DOMAIN q
    BY <1>1
  <2> QED BY <1>1, <1>3, <1>5, <2>1, <2>2 DEF OneScan
<1> QED BY <1>1, <1>2, <1>3, <1>4, <1>5

LEMMA QueueRotated ==
  ASSUME NEW q, Queue(q), OneScan(q), NEW i \in DOMAIN q,
         NEW q2, q2 = Append(RemoveAt(q, i), q[i])
  PROVE  Queue(q2) /\ OneScan(q2) /\ Range(q2) \subseteq Range(q)
<1> DEFINE n == Len(q)
           from(j) == IF j < i THEN j ELSE IF j < n THEN j + 1 ELSE i
<1>0. q \in Seq(Range(q))
  BY DEF Queue
<1>1. q2 \in Seq(Range(q2))
  BY <1>0, Rotated
<1>2. DOMAIN q = 1 .. Len(q) /\ DOMAIN q2 = DOMAIN q /\ Len(q) \in Nat
  BY <1>0, Rotated, Zenon
<1>3. \A j \in DOMAIN q2 :
        q2[j] = q[IF j < i THEN j ELSE IF j < Len(q) THEN j + 1 ELSE i]
  BY <1>0, Rotated
<1>4. /\ \A j \in DOMAIN q2 : q2[j] = q[from(j)]
      /\ DOMAIN q = 1 .. n /\ DOMAIN q2 = 1 .. n /\ n \in Nat
  BY <1>2, <1>3
<1> HIDE DEF n
<1>5. \A j \in DOMAIN q2 : from(j) \in DOMAIN q
  BY <1>4
<1>6. \A j, k \in DOMAIN q2 : from(j) = from(k) => j = k
  BY <1>4
<1> HIDE DEF from
<1>7. Range(q2) \subseteq Range(q)
  BY <1>4, <1>5 DEF Range
<1>8. Queue(q2)
  BY <1>1, <1>7 DEF Queue
<1>9. OneScan(q2)
  <2> SUFFICES ASSUME NEW j \in DOMAIN q2, NEW k \in DOMAIN q2,
                      q2[j].for.op = "scan", q2[k].for.op = "scan",
                      q2[j].for.run = q2[k].for.run
               PROVE  j = k
    BY DEF OneScan
  <2>1. from(j) = from(k)
    BY <1>4, <1>5 DEF OneScan
  <2> QED BY <1>6, <2>1
<1> QED BY <1>7, <1>8, <1>9

-----------------------------------------------------------------------------
(* The details that are awaited.                                           *)

LEMMA DetailAnswered ==
  ASSUME NEW q, NEW q2, SameAsked(q, q2), NEW w, DetailOK(q, w)
  PROVE  DetailOK(q2, w)
<1>1. Pending(q2, w.n) = Pending(q, w.n)
  BY DEF Pending, SameAsked
<1>2. \A i \in Pending(q, w.n) : q2[i].what = q[i].what
  BY DEF Pending, SameAsked
<1> QED BY <1>1, <1>2 DEF DetailOK

\* A command that asks for no detail of this component.
LEMMA DetailElse ==
  ASSUME NEW q, Queue(q), NEW w, DetailOK(q, w), NEW c, c.for.op \notin Asks, NEW q2,
         q2 = Append(q, c)
  PROVE  DetailOK(q2, w)
<1>1. /\ Len(q) \in Nat /\ DOMAIN q = 1 .. Len(q)
      /\ DOMAIN q2 = 1 .. Len(q) + 1
      /\ \A i \in 1 .. Len(q) : q2[i] = q[i]
      /\ q2[Len(q) + 1] = c
  BY Appended DEF Queue
<1>2. \A i : i \in 1 .. Len(q) + 1 <=> i \in 1 .. Len(q) \/ i = Len(q) + 1
  BY <1>1
<1>3. Pending(q2, w.n) = Pending(q, w.n)
  BY <1>1, <1>2 DEF Pending
<1>4. \A i \in Pending(q, w.n) : q2[i].what = q[i].what
  BY <1>1 DEF Pending
<1> QED BY <1>3, <1>4 DEF DetailOK

\* It asks for the item it stands for.
LEMMA DetailAsked ==
  ASSUME NEW q, Queue(q), NEW w, NEW c, c.for.op \in Asks, c.for.n = w.n,
         c.what = w.item, NEW q2, q2 = Append(q, c)
  PROVE  DetailOK(q2, w)
<1> DEFINE n == Len(q) + 1
           P == Pending(q2, w.n)
<1>1. /\ n \in Nat /\ DOMAIN q2 = 1 .. n /\ q2[n] = c
  BY Appended DEF Queue
<1>2. n \in P
  BY <1>1 DEF Pending
<1>3. P \subseteq 1 .. n
  BY <1>1 DEF Pending
<1> HIDE DEF P, n
<1>4. \A i \in P : (\A j \in P : j <= i) => i = n
  <2> SUFFICES ASSUME NEW i \in P, \A j \in P : j <= i PROVE i = n
    OBVIOUS
  <2>1. n <= i /\ i \in 1 .. n /\ n \in Nat
    BY <1>1, <1>2, <1>3
  <2> QED BY ONLY <2>1
<1>5. \A i \in P : (\A j \in P : j <= i) => q2[i].what = w.item
  BY <1>1, <1>4
<1> QED BY <1>2, <1>5 DEF DetailOK, P

\* The first command is no detail of this component.
LEMMA DetailTaken ==
  ASSUME NEW q, Queue(q), q # <<>>, NEW w, DetailOK(q, w), NEW q2, q2 = Tail(q),
         ~(q[1].for.op \in Asks /\ q[1].for.n = w.n)
  PROVE  DetailOK(q2, w)
<1>1. /\ Len(q) \in Nat \ {0} /\ DOMAIN q = 1 .. Len(q)
      /\ DOMAIN q2 = 1 .. Len(q) - 1
      /\ \A i \in 1 .. Len(q) - 1 : q2[i] = q[i + 1]
  BY Taken DEF Queue
<1> DEFINE P == Pending(q, w.n)
           P2 == Pending(q2, w.n)
<1>2. \A i \in P2 : i + 1 \in P /\ i \in Nat /\ q2[i] = q[i + 1]
  BY <1>1 DEF Pending
<1>3. \A i \in P : i - 1 \in P2 /\ i \in Nat
  <2> TAKE i \in P
  <2>1. i \in 1 .. Len(q) /\ i # 1 /\ q[i].for.op \in Asks /\ q[i].for.n = w.n
    BY <1>1 DEF Pending
  <2>2. i - 1 \in 1 .. Len(q) - 1 /\ i - 1 + 1 = i
    BY <1>1, <2>1
  <2>3. q2[i - 1] = q[i]
    BY <1>1, <2>2
  <2> QED BY <1>1, <2>1, <2>2, <2>3 DEF Pending
<1>4. CASE w.mode # "detail"
  BY <1>4 DEF DetailOK
<1>5. CASE w.mode = "detail"
  <2>1. /\ P = {} => w.error \/ w.shown = NoPolicy \/ w.shown.name = w.item
        /\ \A i \in P : (\A j \in P : j <= i) => q[i].what = w.item
    BY <1>5 DEF DetailOK
  <2> HIDE DEF P, P2
  <2>2. P2 = {} => P = {}
    BY <1>3
  <2>3. ASSUME NEW i \in P2, \A j \in P2 : j <= i
        PROVE  q2[i].what = w.item
    <3>1. \A j \in P : j <= i + 1
      <4> TAKE j \in P
      <4>1. j - 1 <= i /\ j \in Nat /\ i \in Nat
        BY <1>2, <1>3, <2>3
      <4> QED BY <4>1
    <3> QED BY <1>2, <2>1, <3>1
  <2> QED BY <2>1, <2>2, <2>3 DEF DetailOK, P2
<1> QED BY <1>4, <1>5

\* Of a form or nothing there is nothing to say.
LEMMA DetailNone ==
  ASSUME NEW q, NEW w, w.mode # "detail"
  PROVE  DetailOK(q, w)
BY DEF DetailOK

-----------------------------------------------------------------------------
(* Answers.                                                                *)

\* What the answer to a command that succeeds has to be.
AnswerOK(c, val) ==
  /\ c.for.op = "list" => \E v \in SUBSET ListItems(c.what.section) : val = <<v>>
  /\ c.for.op = "label" => val = <<c.what>> /\ c.what \in LabelId
  /\ c.for.op = "policies" => \E v \in SUBSET Name : val = <<v>>
  /\ c.for.op \in {"detail", "edit"} => \E p \in Policy : val = <<p>> /\ p.name = c.what

LEMMA Answers ==
  ASSUME NEW c, Sensible(c), NEW st \in {"ok", "failed"}, NEW val,
         st = "ok" => AnswerOK(c, val),
         NEW e, e = [c EXCEPT !.st = st, !.val = val]
  PROVE  Sensible(e)
<1>1. c = [cmdlet |-> c.cmdlet, params |-> c.params, what |-> c.what, for |-> c.for,
           at |-> c.at, st |-> c.st, val |-> c.val]
  BY DEF Sensible
<1>2. e = [cmdlet |-> c.cmdlet, params |-> c.params, what |-> c.what, for |-> c.for,
           at |-> c.at, st |-> st, val |-> val]
  BY <1>1
<1>3. /\ e.cmdlet = c.cmdlet /\ e.params = c.params /\ e.what = c.what /\ e.for = c.for
      /\ e.at = c.at /\ e.st = st /\ e.val = val
  BY <1>2
<1>4. Says1(e)
  <2>1. CASE c.for.op = "list" /\ ForList(c)
    BY <1>3, <2>1 DEF Says1, ForList, Ok, AnswerOK
  <2>2. CASE c.for.op = "label" /\ ForLabel(c)
    BY <1>3, <2>2 DEF Says1, ForLabel, Ok, AnswerOK
  <2>3. CASE c.for.op = "policies" /\ ForPolicies(c)
    BY <1>3, <2>3 DEF Says1, ForPolicies, Ok, AnswerOK
  <2>4. CASE c.for.op \in {"detail", "edit"} /\ ForPolicy(c)
    BY <1>3, <2>4 DEF Says1, ForPolicy, Ok, AnswerOK
  <2>5. CASE c.for.op = "save" /\ ForSave(c)
    BY <1>3, <2>5 DEF Says1, ForSave
  <2>6. CASE c.for.op = "delete" /\ ForDelete(c)
    BY <1>3, <2>6 DEF Says1, ForDelete
  <2>7. CASE c.for.op \in {"wizardLabels", "wizardSites"} /\ ForWizard(c)
    BY <1>3, <2>7 DEF Says1, ForWizard
  <2>8. CASE c.for.op = "scan" /\ ForScan(c)
    BY <1>3, <2>8 DEF Says1, ForScan
  <2>9. Says1(c)
    BY DEF Sensible
  <2> QED BY <2>1, <2>2, <2>3, <2>4, <2>5, <2>6, <2>7, <2>8, <2>9 DEF Says1
<1> QED BY <1>2, <1>3, <1>4 DEF Sensible

\* The command that runs is in the queue, and makes sense.
LEMMA TheOneThatRuns ==
  ASSUME Queue(calls), Waiting # {}
  PROVE  Next1 \in DOMAIN calls /\ calls[Next1] \in Range(calls) /\ Sensible(calls[Next1])
<1>1. Waiting \in SUBSET Nat
  BY DEF Waiting, Queue
<1>2. \E i \in Waiting : \A j \in Waiting : i <= j
  BY <1>1, Least
<1>3. Next1 \in Waiting
  BY <1>2 DEF Next1
<1> QED BY <1>3 DEF Waiting, Queue, Range

\* A command that is answered asks for what it asked for.
LEMMA StillWanted ==
  ASSUME NEW q, NEW q2, SameAsked(q, q2), NEW list, NEW w, NEW rs,
         \A c \in Range(q) : Wanted(c, list, w) /\ OfARun(c, rs)
  PROVE  \A c \in Range(q2) : Wanted(c, list, w) /\ OfARun(c, rs)
<1> SUFFICES ASSUME NEW i \in DOMAIN q2
             PROVE  Wanted(q2[i], list, w) /\ OfARun(q2[i], rs)
  BY DEF Range
<1>1. /\ q2[i].for = q[i].for /\ q2[i].what = q[i].what
      /\ Wanted(q[i], list, w) /\ OfARun(q[i], rs)
  BY DEF Range, SameAsked
<1> QED BY <1>1 DEF Wanted, OfARun

LEMMA AfterAnswer ==
  ASSUME CallsInv, DetailInv, Waiting # {}, NEW st \in {"ok", "failed"}, NEW val,
         Answer(st, val), st = "ok" => AnswerOK(calls[Next1], val),
         UNCHANGED <<lt, ws, runs, throttled>>
  PROVE  CallsInv' /\ DetailInv'
<1> DEFINE i == Next1
           e == [calls[i] EXCEPT !.st = st, !.val = val]
<1>1. i \in DOMAIN calls /\ Sensible(calls[i])
  BY TheOneThatRuns DEF CallsInv
<1>2. Sensible(e)
  BY <1>1, Answers
<1>3. calls' = [calls EXCEPT ![i] = e]
  BY <1>1 DEF Answer
<1> HIDE DEF i
<1>4. Queue(calls) /\ OneScan(calls)
  BY DEF CallsInv
<1>5. Queue(calls') /\ OneScan(calls') /\ SameAsked(calls, calls')
  BY <1>1, <1>2, <1>3, <1>4, QueueAnswered
<1> HIDE DEF e
<1>6. \A c \in Range(calls') : Wanted(c, lt.list, ws) /\ OfARun(c, runs)
  BY <1>5, StillWanted DEF CallsInv
<1>7. CallsInv'
  BY <1>5, <1>6 DEF CallsInv
<1>8. DetailInv'
  BY <1>5, DetailAnswered DEF DetailInv
<1> QED BY <1>7, <1>8

LEMMA RefusedOrFailed ==
  ASSUME RendererInv, RefuseCall \/ FailCall, UNCHANGED <<labelVars, classifyVars>>
  PROVE  RendererInv'
<1>1. /\ Waiting # {} /\ Answer("failed", <<>>) /\ UNCHANGED <<page, mount, clicks, throttled>>
  BY DEF RefuseCall, FailCall
<1>2. CallsInv' /\ DetailInv'
  BY <1>1, AfterAnswer DEF RendererInv, labelVars, classifyVars
<1>3. LabelInv' /\ ClassifyInv' /\ RunsDoAsAsked'
  BY <1>1 DEF RendererInv, LabelInv, ClassifyInv, RunsDoAsAsked, labelVars, classifyVars
<1> QED BY <1>2, <1>3 DEF RendererInv

LEMMA Throttled ==
  ASSUME RendererInv, ThrottleCall, UNCHANGED <<labelVars, classifyVars>>
  PROVE  RendererInv'
<1>1. UNCHANGED <<page, mount, clicks, lt, ws, store, cp, wiz, runs, main, did>>
  BY DEF ThrottleCall, labelVars, classifyVars
<1>2. Queue(calls) /\ OneScan(calls) /\ Next1 \in DOMAIN calls
  BY TheOneThatRuns DEF RendererInv, CallsInv, ThrottleCall
<1>3. Queue(calls') /\ OneScan(calls') /\ Range(calls') \subseteq Range(calls)
  BY <1>2, QueueRotated DEF ThrottleCall
<1>4. CallsInv'
  BY <1>1, <1>3 DEF RendererInv, CallsInv
<1>5. DetailInv'
  BY DEF RendererInv, DetailInv, ThrottleCall
<1>6. LabelInv' /\ ClassifyInv' /\ RunsDoAsAsked'
  BY <1>1 DEF RendererInv, LabelInv, ClassifyInv, RunsDoAsAsked
<1> QED BY <1>4, <1>5, <1>6 DEF RendererInv

-----------------------------------------------------------------------------
(* What PowerShell does.                                                   *)

\* Which of the commands the one with this cmdlet is.
LEMMA WhatItIs ==
  ASSUME NEW c, Sensible(c)
  PROVE  /\ c.cmdlet = "Get-SLLabel" => c.for.op \in {"list", "label", "wizardLabels", "wizardSites"}
         /\ c.cmdlet = "Get-SLLabel" /\ c.for.op = "list" => c.what.section = "label"
         /\ \A kind \in PolicyKind :
              c.cmdlet = CmdletOf[kind].get /\ c.for.op = "list" => c.what.section = kind
         /\ \A kind \in PolicyKind :
              /\ c.cmdlet \in {CmdletOf[kind].new, CmdletOf[kind].set} =>
                   c.for.op = "save" /\ ForSave(c)
              /\ c.cmdlet = CmdletOf[kind].remove => c.for.op = "delete"
         /\ c.for.op \in {"detail", "edit"} => ForPolicy(c)
         /\ c.cmdlet = "Invoke-SLAutoLabelScan" => c.for.op = "scan" /\ ForScan(c)
<1>1. Says1(c)
  BY DEF Sensible
<1>2. CASE c.for.op = "list" /\ ForList(c)
  <2>1. c.what.section = "label" \/ c.what.section \in PolicyKind
    BY <1>2 DEF ForList, PolicyKind
  <2>2. CASE c.what.section = "label"
    BY <1>2, <2>2, Kinds2, Names2 DEF ForList
  <2>3. CASE c.what.section = "policy"
    BY <1>2, <2>3, Kinds2, Names2 DEF ForList
  <2>4. CASE c.what.section = "autolabel"
    BY <1>2, <2>4, Kinds2, Names2 DEF ForList
  <2> QED BY <2>1, <2>2, <2>3, <2>4, Kinds2
<1>3. CASE c.for.op = "label" /\ ForLabel(c)
  BY <1>3, Kinds2, Names2 DEF ForLabel
<1>4. CASE c.for.op = "policies" /\ ForPolicies(c)
  BY <1>4, Kinds2, Names2 DEF ForPolicies
<1>5. CASE c.for.op \in {"detail", "edit"} /\ ForPolicy(c)
  BY <1>5, Kinds2, Names2 DEF ForPolicy
<1>6. CASE c.for.op = "save" /\ ForSave(c)
  <2>1. PICK kind \in PolicyKind : c.cmdlet = CmdletOf[kind].new \/ c.cmdlet = CmdletOf[kind].set
    BY <1>6 DEF ForSave
  <2> QED BY <1>6, <2>1, Kinds2, Names2
<1>7. CASE c.for.op = "delete" /\ ForDelete(c)
  BY <1>7, Kinds2, Names2 DEF ForDelete
<1>8. CASE c.for.op \in {"wizardLabels", "wizardSites"} /\ ForWizard(c)
  BY <1>8, Kinds2, Names2 DEF ForWizard
<1>9. CASE c.for.op = "scan" /\ ForScan(c)
  BY <1>9, Kinds2, Names2 DEF ForScan
<1> QED BY <1>1, <1>2, <1>3, <1>4, <1>5, <1>6, <1>7, <1>8, <1>9 DEF Says1

LEMMA GetAnswers ==
  ASSUME RendererInv, RunGet
  PROVE  /\ Waiting # {} /\ UNCHANGED <<lt, ws, store, page, mount, clicks, throttled>>
         /\ \E val : \E st \in {"ok", "failed"} :
              Answer(st, val) /\ (st = "ok" => AnswerOK(calls[Next1], val))
<1> DEFINE c == calls[Next1]
<1>1. Waiting # {} /\ UNCHANGED <<lt, ws, store, page, mount, clicks, throttled>>
  BY DEF RunGet, Running, labelVars, Kept
<1>2. Sensible(c)
  BY <1>1, TheOneThatRuns DEF RendererInv, CallsInv
<1>3. StoreOK(store)
  BY DEF RendererInv, LabelInv
<1>4. CASE Running("Get-SLLabel")
           /\ c.for.op = "list" /\ Answer("ok", <<LabelId>>)
  <2>1. c.what.section = "label"
    BY <1>2, <1>4, WhatItIs DEF Running
  <2>2. AnswerOK(c, <<LabelId>>)
    BY <1>4, <2>1 DEF AnswerOK, ListItems
  <2> QED BY <1>1, <1>4, <2>2
<1>9. CASE c.for.op = "label" /\ c.what \in LabelId /\ Answer("ok", <<c.what>>)
  <2>1. AnswerOK(c, <<c.what>>)
    BY <1>9 DEF AnswerOK
  <2> QED BY <1>1, <1>9, <2>1
<1>5. CASE Running("Get-SLLabelPolicy") /\ c.for.op = "policies"
           /\ Answer("ok", <<{ p \in DOMAIN store["policy"] :
                                store["policy"][p].labels = c.what }>>)
  <2> DEFINE v == { p \in DOMAIN store["policy"] : store["policy"][p].labels = c.what }
  <2>1. v \in SUBSET Name
    BY <1>3, Kinds2 DEF StoreOK
  <2> HIDE DEF v
  <2>2. AnswerOK(c, <<v>>)
    BY <1>5, <2>1 DEF AnswerOK
  <2> QED BY <1>1, <1>5, <2>2 DEF v
<1>6. ASSUME NEW kind \in PolicyKind, Running(CmdletOf[kind].get), c.for.op = "list",
             Answer("ok", <<DOMAIN store[kind]>>)
      PROVE  \E val : \E st \in {"ok", "failed"} :
              Answer(st, val) /\ (st = "ok" => AnswerOK(calls[Next1], val))
  <2>1. c.what.section = kind
    BY <1>2, <1>6, WhatItIs DEF Running
  <2>2. DOMAIN store[kind] \in SUBSET ListItems(kind)
    BY <1>3, <1>6, Kinds2 DEF StoreOK, ListItems
  <2>3. AnswerOK(c, <<DOMAIN store[kind]>>)
    BY <1>6, <2>1, <2>2 DEF AnswerOK
  <2> QED BY <1>6, <2>3
<1>7. ASSUME NEW kind \in PolicyKind, c.for.op \in {"detail", "edit"},
             There(kind, c.what), Answer("ok", <<store[kind][c.what]>>)
      PROVE  \E val : \E st \in {"ok", "failed"} :
              Answer(st, val) /\ (st = "ok" => AnswerOK(calls[Next1], val))
  <2> DEFINE p == store[kind][c.what]
  <2>1. p \in Policy /\ p.name = c.what
    BY <1>3, <1>7 DEF StoreOK, There
  <2> HIDE DEF p
  <2>2. AnswerOK(c, <<p>>)
    BY <1>7, <2>1 DEF AnswerOK
  <2> QED BY <1>7, <2>2 DEF p
<1>8. CASE Answer("failed", <<>>)
  BY <1>1, <1>8
<1> QED BY <1>1, <1>4, <1>5, <1>6, <1>7, <1>8, <1>9 DEF RunGet, Now1

LEMMA Got ==
  ASSUME RendererInv, RunGet, UNCHANGED classifyVars
  PROVE  RendererInv'
<1>1. /\ Waiting # {} /\ UNCHANGED <<lt, ws, store, page, mount, clicks, throttled>>
      /\ UNCHANGED <<cp, wiz, runs, main, did>>
  BY GetAnswers DEF classifyVars
<1>2. CallsInv' /\ DetailInv'
  BY <1>1, GetAnswers, AfterAnswer DEF RendererInv
<1>3. LabelInv' /\ ClassifyInv' /\ RunsDoAsAsked'
  BY <1>1 DEF RendererInv, LabelInv, ClassifyInv, RunsDoAsAsked
<1> QED BY <1>2, <1>3 DEF RendererInv

LEMMA ListsAnswered ==
  ASSUME RendererInv, RunLists, UNCHANGED labelVars
  PROVE  RendererInv'
<1>1. /\ Waiting # {} /\ UNCHANGED <<lt, ws, store, page, mount, clicks, throttled>>
      /\ UNCHANGED <<cp, wiz, runs, main, did>>
      /\ Answer("ok", <<>>) /\ calls[Next1].for.op \in {"wizardLabels", "wizardSites"}
  BY DEF RunLists, Running, labelVars, classifyVars, Kept
<1>2. AnswerOK(calls[Next1], <<>>)
  BY <1>1 DEF AnswerOK
<1>3. CallsInv' /\ DetailInv'
  BY <1>1, <1>2, AfterAnswer DEF RendererInv
<1>4. LabelInv' /\ ClassifyInv' /\ RunsDoAsAsked'
  BY <1>1 DEF RendererInv, LabelInv, ClassifyInv, RunsDoAsAsked
<1> QED BY <1>3, <1>4 DEF RendererInv

LEMMA Stored ==
  ASSUME StoreOK(store), NEW kind \in PolicyKind, NEW p \in Policy,
         NEW s, s = [store EXCEPT ![kind] = [n \in {p.name} |-> p] ++ @]
  PROVE  StoreOK(s)
<1> DEFINE f == [n \in {p.name} |-> p]
           old == store[kind]
           g == f ++ old
<1>1. /\ p.name \in Name
      /\ old \in [DOMAIN old -> Policy] /\ DOMAIN old \subseteq Name
      /\ \A n \in DOMAIN old : old[n].name = n
  BY DEF StoreOK, Policy
<1>2. /\ \A x : x \in DOMAIN f <=> x = p.name
      /\ f[p.name] = p
  OBVIOUS
<1>3. g = [n \in DOMAIN f \cup DOMAIN old |-> IF n \in DOMAIN f THEN f[n] ELSE old[n]]
  BY DEF ++
<1>4. s = [store EXCEPT ![kind] = g]
  OBVIOUS
<1> HIDE DEF f, g
<1>5. /\ DOMAIN g \subseteq Name
      /\ \A n \in DOMAIN g : g[n] \in Policy /\ g[n].name = n
  BY <1>1, <1>2, <1>3
<1>6. g \in [DOMAIN g -> Policy]
  <2>1. g = [n \in DOMAIN g |-> g[n]]
    BY <1>3
  <2> QED BY <1>5, <2>1
<1>7. DOMAIN s = PolicyKind /\ \A k \in PolicyKind : s[k] = IF k = kind THEN g ELSE store[k]
  BY <1>4 DEF StoreOK
<1> QED BY <1>5, <1>6, <1>7 DEF StoreOK

LEMMA PolicySaved ==
  ASSUME RendererInv, RunSave, UNCHANGED classifyVars
  PROVE  RendererInv'
<1> DEFINE c == calls[Next1]
<1>1. /\ Waiting # {} /\ UNCHANGED <<lt, ws, page, mount, clicks, throttled>>
      /\ UNCHANGED <<cp, wiz, runs, main, did>>
  BY DEF RunSave, Running, classifyVars, Kept
<1>2. Sensible(c)
  BY <1>1, TheOneThatRuns DEF RendererInv, CallsInv
<1>3. PICK kind \in PolicyKind, verb \in {"new", "set"} :
        /\ Running(CmdletOf[kind][verb])
        /\ LET name == Now1.what.identity
               old == IF There(kind, name) THEN store[kind][name]
                                           ELSE [NoPolicy EXCEPT !.name = name]
           IN  IF There(kind, name) = (verb = "set")
                 THEN /\ store' = [store EXCEPT ![kind] =
                            [p \in {name} |-> Written(old, Now1.what.form)] ++ @]
                      /\ Answer("ok", <<>>)
                 ELSE Answer("failed", <<>>) /\ UNCHANGED store
  BY DEF RunSave
<1>4. c.for.op = "save" /\ ForSave(c)
  <2>1. c.cmdlet \in {CmdletOf[kind].new, CmdletOf[kind].set}
    BY <1>3 DEF Running
  <2> QED BY <1>2, <2>1, WhatItIs
<1> DEFINE name == c.what.identity
           form == c.what.form
           old == IF There(kind, name) THEN store[kind][name]
                                       ELSE [NoPolicy EXCEPT !.name = name]
           new == Written(old, form)
<1>5. CallsInv' /\ DetailInv'
  <2>1. AnswerOK(c, <<>>)
    BY <1>4 DEF AnswerOK
  <2>2. PICK st \in {"ok", "failed"} : Answer(st, <<>>)
    BY <1>3
  <2> QED BY <1>1, <2>1, <2>2, AfterAnswer DEF RendererInv
<1>6. StoreOK(store)
  BY DEF RendererInv, LabelInv
<1>7. StoreOK(store')
  <2>1. name \in Name /\ form \in Form
    BY <1>4 DEF ForSave
  <2>2. old \in Policy /\ old.name = name
    <3>1. CASE There(kind, name)
      BY <1>6, <3>1 DEF There, StoreOK
    <3>2. CASE ~There(kind, name)
      BY <2>1, <3>2 DEF NoPolicy, Policy, Texted, Mode
    <3> QED BY <3>1, <3>2
  <2>3. new \in Policy /\ new.name = name
    <3> DEFINE x == IF Says("Comment") THEN form.comment ELSE old.comment
               y == IF Says("Labels") \/ Says("ApplySensitivityLabel") THEN form.labels
                    ELSE old.labels
               z == IF Says("Mode") THEN form.mode ELSE old.mode
               places == old.places \cup { l \in form.places : Says(l) }
    <3>1. x \in Texted /\ y \in Texted /\ z \in Mode /\ places \in SUBSET Location
      BY <2>1, <2>2 DEF Form, Policy
    <3>2. new = [old EXCEPT !.comment = x, !.labels = y, !.mode = z, !.places = places]
      BY DEF Written
    <3> HIDE DEF x, y, z, places, old, new
    <3> QED BY <2>2, <3>1, <3>2 DEF Policy
  <2>4. CASE There(kind, name) = (verb = "set")
    <3>1. store' = [store EXCEPT ![kind] = [p \in {new.name} |-> new] ++ @]
      BY <1>3, <2>3, <2>4 DEF Now1
    <3> HIDE DEF new
    <3> QED BY <1>6, <2>3, <3>1, Stored
  <2>5. CASE ~(There(kind, name) = (verb = "set"))
    BY <1>3, <1>6, <2>5 DEF Now1
  <2> QED BY <2>4, <2>5
<1>8. LabelInv' /\ ClassifyInv' /\ RunsDoAsAsked'
  BY <1>1, <1>7 DEF RendererInv, LabelInv, ClassifyInv, RunsDoAsAsked
<1> QED BY <1>5, <1>8 DEF RendererInv

LEMMA PolicyRemoved ==
  ASSUME RendererInv, RunRemove, UNCHANGED classifyVars
  PROVE  RendererInv'
<1> DEFINE c == calls[Next1]
<1>1. /\ Waiting # {} /\ UNCHANGED <<lt, ws, page, mount, clicks, throttled>>
      /\ UNCHANGED <<cp, wiz, runs, main, did>>
  BY DEF RunRemove, Running, classifyVars, Kept
<1>2. Sensible(c)
  BY <1>1, TheOneThatRuns DEF RendererInv, CallsInv
<1>3. PICK kind \in PolicyKind :
        /\ Running(CmdletOf[kind].remove)
        /\ IF There(kind, Now1.what.identity)
             THEN /\ store' = [store EXCEPT ![kind] =
                       Restrict(@, DOMAIN @ \ {Now1.what.identity})]
                  /\ Answer("ok", <<>>)
             ELSE Answer("failed", <<>>) /\ UNCHANGED store
  BY DEF RunRemove
<1>4. c.for.op = "delete"
  BY <1>2, <1>3, WhatItIs DEF Running
<1>5. CallsInv' /\ DetailInv'
  <2>1. AnswerOK(c, <<>>)
    BY <1>4 DEF AnswerOK
  <2>2. PICK st \in {"ok", "failed"} : Answer(st, <<>>)
    BY <1>3
  <2> QED BY <1>1, <2>1, <2>2, AfterAnswer DEF RendererInv
<1>6. StoreOK(store)
  BY DEF RendererInv, LabelInv
<1>7. StoreOK(store')
  <2>1. CASE UNCHANGED store
    BY <1>6, <2>1
  <2>2. CASE store' = [store EXCEPT ![kind] = Restrict(@, DOMAIN @ \ {Now1.what.identity})]
    <3> DEFINE S == DOMAIN store[kind] \ {Now1.what.identity}
               g == [x \in S |-> store[kind][x]]
    <3>1. store' = [store EXCEPT ![kind] = g]
      BY <2>2 DEF Restrict
    <3>2. DOMAIN g \subseteq Name /\ g \in [DOMAIN g -> Policy] /\ \A n \in DOMAIN g : g[n].name = n
      BY <1>6 DEF StoreOK
    <3> HIDE DEF g
    <3>3. DOMAIN store' = PolicyKind
          /\ \A k \in PolicyKind : store'[k] = IF k = kind THEN g ELSE store[k]
      BY <1>6, <3>1 DEF StoreOK
    <3> QED BY <1>6, <3>2, <3>3 DEF StoreOK
  <2> QED BY <1>3, <2>1, <2>2
<1>8. LabelInv' /\ ClassifyInv' /\ RunsDoAsAsked'
  BY <1>1, <1>7 DEF RendererInv, LabelInv, ClassifyInv, RunsDoAsAsked
<1> QED BY <1>5, <1>8 DEF RendererInv

\* A switch that is on, and a site that is named, are in the command.
LEMMA NotDropped ==
  /\ ~Dropped(Registry["Invoke-SLAutoLabelScan"].params["DryRun"], "yes")
  /\ ~Dropped(Registry["Invoke-SLAutoLabelScan"].params["SkipAlreadyLabeled"], "yes")
  /\ ~Dropped(Registry["Invoke-SLAutoLabelScan"].params["Extensions"], "list")
<1>1. Registry["Invoke-SLAutoLabelScan"].params = RunScanParams
  BY Entries
<1>2. /\ RunScanParams["DryRun"] = Switch /\ RunScanParams["SkipAlreadyLabeled"] = Switch
      /\ RunScanParams["Extensions"] = Texts
  BY DEF RunScanParams
<1>3. ~Dropped(Switch, "yes") /\ ~Dropped(Texts, "list")
  BY DEF Dropped, Switch, Texts, Param
<1> QED BY <1>1, <1>2, <1>3

LEMMA Scanned ==
  ASSUME RendererInv, RunScan, UNCHANGED labelVars
  PROVE  RendererInv'
<1> DEFINE c == calls[Next1]
           what == c.what
           d == [as |-> "scan", policy |-> what.policy,
                 asked |-> what.dry, dry |-> Says("DryRun"), on |-> {what.site},
                 label |-> what.policy.label, entities |-> {},
                 extensions |-> Says("Extensions"),
                 skip |-> Says("SkipAlreadyLabeled")]
<1>1. /\ Waiting # {} /\ UNCHANGED <<lt, ws, store, page, mount, clicks, throttled>>
      /\ UNCHANGED <<cp, wiz, runs, main>> /\ c.cmdlet = "Invoke-SLAutoLabelScan"
      /\ \/ Answer("failed", <<>>) /\ UNCHANGED did
         \/ Says("SiteId") /\ Answer("ok", <<>>) /\ did' = did \cup {d}
  BY DEF RunScan, Running, labelVars, Kept
<1>2. Sensible(c)
  BY <1>1, TheOneThatRuns DEF RendererInv, CallsInv
<1>3. c.for.op = "scan" /\ ForScan(c)
  BY <1>1, <1>2, WhatItIs
<1>4. CallsInv' /\ DetailInv'
  <2>1. AnswerOK(c, <<>>)
    BY <1>3 DEF AnswerOK
  <2>2. PICK st \in {"ok", "failed"} : Answer(st, <<>>)
    BY <1>1
  <2> QED BY <1>1, <2>1, <2>2, AfterAnswer DEF RendererInv
<1>5. RunsDoAsAsked'
  <2>1. CASE UNCHANGED did
    BY <2>1 DEF RendererInv, RunsDoAsAsked
  <2>2. CASE Says("SiteId") /\ did' = did \cup {d}
    <3>1. /\ what.policy \in GoodPolicy /\ what.dry \in BOOLEAN
          /\ what.site \in Range(what.policy.sites) \cup {None}
          /\ c.params = ScanParams(what.policy, what.dry, what.site)
      BY <1>3 DEF ForScan
    <3>2. what.policy.skip \in BOOLEAN /\ what.policy.extensions \in BOOLEAN
      BY <3>1 DEF GoodPolicy, ClassPolicy
    <3>3. /\ "SiteId" \in DOMAIN c.params <=> what.site # None
          /\ what.dry => "DryRun" \in DOMAIN c.params /\ c.params["DryRun"] = "yes"
          /\ what.policy.skip => /\ "SkipAlreadyLabeled" \in DOMAIN c.params
                                 /\ c.params["SkipAlreadyLabeled"] = "yes"
          /\ what.policy.extensions => /\ "Extensions" \in DOMAIN c.params
                                       /\ c.params["Extensions"] = "list"
      BY <3>1, <3>2, ScanSays
    <3>4. what.site # None
      BY <2>2, <3>3 DEF Says, Rendered
    <3>5. /\ what.dry => Says("DryRun")
          /\ what.policy.skip => Says("SkipAlreadyLabeled")
          /\ what.policy.extensions => Says("Extensions")
      BY <1>1, <3>3, NotDropped DEF Says, Rendered
    <3>6. /\ d.asked => d.dry
          /\ d.on \subseteq Range(d.policy.sites) /\ d.label = d.policy.label
          /\ d.as # "job"
          /\ d.as = "scan" /\ d.policy.extensions => d.extensions
          /\ d.as = "scan" /\ d.policy.skip => d.skip
      BY <3>1, <3>4, <3>5
    <3> HIDE DEF d
    <3> QED BY <2>2, <3>6 DEF RendererInv, RunsDoAsAsked
  <2> QED BY <1>1, <2>1, <2>2
<1>6. LabelInv' /\ ClassifyInv'
  BY <1>1 DEF RendererInv, LabelInv, ClassifyInv
<1> QED BY <1>4, <1>5, <1>6 DEF RendererInv

-----------------------------------------------------------------------------
(* Tabs.                                                                   *)

LEMMA TabFacts ==
  /\ NoTab \notin AnyTab
  /\ \A tab \in AnyTab :
       /\ tab.kind \in Kind /\ tab.mode \in {"detail", "new", "edit"} /\ tab.item \in Item
       /\ tab = [kind |-> tab.kind, mode |-> tab.mode, item |-> tab.item]
       /\ tab.kind = "label" => tab.mode = "detail" /\ tab.item \in Texted
       /\ tab.kind # "label" /\ tab.mode # "new" => tab.item \in Name
       /\ tab.mode # "detail" => tab \in FormTab
  /\ \A tab \in FormTab : tab \in AnyTab /\ tab.kind \in PolicyKind
<1>1. \A tab \in LabelTab \cup [kind : PolicyKind, mode : {"detail"}, item : Name] \cup FormTab :
        /\ tab.kind \in Kind /\ tab.mode \in {"detail", "new", "edit"} /\ tab.item \in Item
        /\ tab = [kind |-> tab.kind, mode |-> tab.mode, item |-> tab.item]
        /\ tab.kind = "label" => tab.mode = "detail" /\ tab.item \in Texted
        /\ tab.kind # "label" /\ tab.mode # "new" => tab.item \in Name
        /\ tab.mode # "detail" => tab \in FormTab
  BY DEF LabelTab, FormTab, PolicyKind, Kind, Item
<1>2. NoTab.kind = "none"
  BY DEF NoTab
<1>3. "none" \notin Kind
  BY DEF Kind
<1>4. NoTab \notin AnyTab
  BY <1>1, <1>2, <1>3 DEF AnyTab
<1>5. \A tab \in FormTab : tab \in AnyTab /\ tab.kind \in PolicyKind
  BY DEF FormTab, AnyTab
<1> QED BY <1>1, <1>4, <1>5 DEF AnyTab

LEMMA OpenedOK ==
  ASSUME NEW tabs \in Seq(AnyTab), IsInjective(tabs), NEW tab \in AnyTab,
         NEW t, t = Opened(tabs, tab)
  PROVE  /\ t \in Seq(AnyTab) /\ IsInjective(t) /\ Contains(t, tab)
         /\ \A x : Contains(tabs, x) => Contains(t, x)
<1>1. CASE Contains(tabs, tab)
  BY <1>1 DEF Opened
<1>2. CASE ~Contains(tabs, tab)
  <2> DEFINE n == Len(tabs)
  <2>1. t = Append(tabs, tab)
    BY <1>2 DEF Opened
  <2>2. /\ t \in Seq(AnyTab) /\ Len(t) = n + 1 /\ n \in Nat /\ DOMAIN tabs = 1 .. n
        /\ \A i \in 1 .. n : t[i] = tabs[i]
        /\ t[n + 1] = tab
    BY <2>1, AppendProperties
  <2>3. DOMAIN t = 1 .. n + 1
    BY <2>2
  <2>4. \A i \in 1 .. n : tabs[i] # tab
    BY <1>2 DEF Contains
  <2>5. \A i, j \in 1 .. n : tabs[i] = tabs[j] => i = j
    BY <2>2 DEF IsInjective
  <2> HIDE DEF n
  <2>6. IsInjective(t)
    <3>1. SUFFICES ASSUME NEW i \in 1 .. n + 1, NEW j \in 1 .. n + 1, t[i] = t[j]
                   PROVE  i = j
      BY <2>3 DEF IsInjective
    <3>2. (i \in 1 .. n \/ i = n + 1) /\ (j \in 1 .. n \/ j = n + 1)
      BY <2>2
    <3> QED BY <2>2, <2>4, <2>5, <3>1, <3>2
  <2>7. Contains(t, tab)
    <3>1. n + 1 \in 1 .. n + 1
      BY <2>2
    <3> QED BY <2>2, <3>1 DEF Contains
  <2>8. ASSUME NEW x, Contains(tabs, x) PROVE Contains(t, x)
    <3>1. PICK i \in 1 .. n : tabs[i] = x
      BY <2>8 DEF Contains, n
    <3>2. i \in 1 .. Len(t)
      BY <2>2
    <3> QED BY <2>2, <3>1, <3>2 DEF Contains
  <2> QED BY <2>2, <2>6, <2>7, <2>8
<1> QED BY <1>1, <1>2

LEMMA ClosedOK ==
  ASSUME NEW tabs \in Seq(AnyTab), NEW active \in AnyTab \cup {NoTab}, TabsOK(tabs, active),
         NEW tab \in AnyTab, NEW c, c = Closed(tabs, active, tab)
  PROVE  /\ c.tabs \in Seq(AnyTab) /\ c.active \in AnyTab \cup {NoTab}
         /\ TabsOK(c.tabs, c.active)
<1> DEFINE next == Filtered(tabs, LAMBDA x : x # tab)
           idx == CHOOSE i \in DOMAIN tabs : tabs[i] = tab
           K == AnyTab \ {tab}
<1>1. c.tabs = next
  BY DEF Closed
<1>2. c.active = CASE active # tab -> active
                   [] active = tab /\ next = <<>> -> NoTab
                   [] OTHER -> next[Min({idx, Len(next)})]
  BY DEF Closed
<1>3. next = FlattenSeq([i \in DOMAIN tabs |-> IF tabs[i] \in K THEN <<tabs[i]>> ELSE <<>>])
  <2>1. \A i \in DOMAIN tabs : tabs[i] \in K <=> tabs[i] # tab
    BY ElementOfSeq
  <2>2. [i \in DOMAIN tabs |-> IF tabs[i] \in K THEN <<tabs[i]>> ELSE <<>>]
        = [i \in DOMAIN tabs |-> IF tabs[i] # tab THEN <<tabs[i]>> ELSE <<>>]
    BY <2>1
  <2> QED BY <2>2 DEF Filtered
<1> HIDE DEF next, K, idx
<1>4. /\ next \in Seq(AnyTab) /\ Range(next) = Range(tabs) \cap K
      /\ IsInjective(tabs) => IsInjective(next)
  BY <1>3, FilteredIs
<1>5. IsInjective(next)
  BY <1>4 DEF TabsOK
<1>6. /\ Len(next) \in Nat /\ DOMAIN next = 1 .. Len(next)
      /\ \A i \in 1 .. Len(next) : next[i] \in AnyTab
  BY <1>4, ElementOfSeq
<1>7. CASE active # tab
  <2>1. c.active = active
    BY <1>2, <1>7
  <2>2. ASSUME active # NoTab PROVE Contains(next, active)
    <3>1. PICK i \in 1 .. Len(tabs) : tabs[i] = active
      BY <2>2 DEF TabsOK, Contains
    <3>2. active \in Range(tabs)
      BY <3>1 DEF Range
    <3>3. active \in Range(next)
      BY <1>4, <1>7, <2>2, <3>2 DEF K
    <3> QED BY <1>6, <3>3 DEF Contains, Range
  <2> QED BY <1>1, <1>4, <1>5, <2>1, <2>2 DEF TabsOK
<1>8. CASE active = tab /\ next = <<>>
  <2>1. c.active = NoTab
    BY <1>2, <1>8
  <2> QED BY <1>1, <1>4, <1>5, <2>1 DEF TabsOK
<1>9. CASE active = tab /\ next # <<>>
  <2> DEFINE k == Min({idx, Len(next)})
  <2>1. c.active = next[k]
    BY <1>2, <1>9
  <2>2. \E i \in DOMAIN tabs : tabs[i] = tab
    BY <1>9, TabFacts DEF TabsOK, Contains
  <2>3. idx \in DOMAIN tabs
    BY <2>2 DEF idx
  <2>4. idx \in Nat \ {0}
    BY <2>3
  <2>5. Len(next) \in Nat \ {0}
    BY <1>4, <1>9, EmptySeq
  <2>6. k \in 1 .. Len(next)
    <3>1. \E x \in {idx, Len(next)} : \A y \in {idx, Len(next)} : x <= y
      BY <2>4, <2>5
    <3>2. k \in {idx, Len(next)} /\ k <= Len(next)
      BY <3>1 DEF Min
    <3> QED BY <2>4, <2>5, <3>2
  <2> HIDE DEF k
  <2>7. next[k] \in AnyTab /\ Contains(next, next[k])
    BY <1>6, <2>6 DEF Contains
  <2> QED BY <1>1, <1>4, <1>5, <2>1, <2>7 DEF TabsOK
<1> QED BY <1>7, <1>8, <1>9

LEMMA NoPolicyOK ==
  NoPolicy \in Shows /\ NoPolicy \in Form /\ "" \in Item
<1>1. "" \in Item
  BY DEF Item, Texted
<1>2. /\ NoPolicy = [name |-> "", comment |-> "", labels |-> "",
                     mode |-> "TestWithoutNotifications", places |-> {}]
      /\ "" \in Texted /\ "TestWithoutNotifications" \in Mode
  BY DEF NoPolicy, Texted, Mode
<1>3. NoPolicy \in Shows /\ NoPolicy \in Form
  BY <1>1, <1>2 DEF Shows, Form
<1> QED BY <1>1, <1>3

LEMMA FreshOK ==
  ASSUME NEW n \in Nat, NEW tab \in AnyTab, NEW w, w = Fresh(n, tab)
  PROVE  SpaceOK(w) /\ InSpace(w, tab) /\ w.n = n
<1>1. /\ w.n = n /\ w.kind = tab.kind /\ w.mode = tab.mode /\ w.item = tab.item
      /\ w.shown = NoPolicy /\ w.asking = FALSE /\ w.deleting = FALSE
  BY DEF Fresh
<1>2. NoPolicy \in Shows /\ NoPolicy \in Form /\ "" \in Item
  BY NoPolicyOK
<1>3. w \in SpaceType
  BY <1>2, TabFacts DEF Fresh, SpaceType
<1>4. InSpace(w, tab)
  BY <1>1, TabFacts DEF InSpace
<1> QED BY <1>1, <1>3, <1>4 DEF SpaceOK

LEMMA BlankOK ==
  ASSUME NEW n \in Nat, NEW w, w = Blank(n)
  PROVE  SpaceOK(w) /\ InSpace(w, NoTab) /\ w.n = n /\ w.mode = "none"
<1>1. /\ w.n = n /\ w.kind = "none" /\ w.mode = "none" /\ w.item = ""
      /\ w.shown = NoPolicy /\ w.asking = FALSE /\ w.deleting = FALSE
  BY DEF Blank, Fresh, NoTab
<1>2. NoPolicy \in Shows /\ NoPolicy \in Form /\ "" \in Item
  BY NoPolicyOK
<1>3. w \in SpaceType
  BY <1>2 DEF Blank, Fresh, NoTab, SpaceType
<1>4. InSpace(w, NoTab)
  BY <1>1 DEF InSpace, NoTab
<1> QED BY <1>1, <1>3, <1>4 DEF SpaceOK

\* What is in the workspace is the active tab's.
LEMMA InSpaceIs ==
  ASSUME NEW w, NEW tab \in AnyTab \cup {NoTab}, InSpace(w, tab)
  PROVE  /\ tab.kind = w.kind /\ tab.mode = w.mode /\ tab.item = w.item
         /\ tab = NoTab <=> w.kind = "none"
         /\ tab = NoTab <=> w.mode = "none"
         /\ w.mode # "none" => tab \in AnyTab
<1>1. tab.kind = w.kind /\ tab.mode = w.mode /\ tab.item = w.item
  BY DEF InSpace
<1>2. NoTab.kind = "none" /\ NoTab.mode = "none"
  BY DEF NoTab
<1>3. tab \in AnyTab => tab.kind # "none" /\ tab.mode # "none"
  BY TabFacts DEF Kind
<1> QED BY <1>1, <1>2, <1>3, TabFacts

LEMMA ShownOK ==
  ASSUME NEW w, SpaceOK(w), NEW before \in AnyTab \cup {NoTab}, InSpace(w, before),
         NEW tab \in AnyTab \cup {NoTab}, NEW s, s = Shown(w, before, tab)
  PROVE  /\ SpaceOK(s) /\ InSpace(s, tab)
         /\ w.n \in Nat /\ s.n \in {w.n, w.n + 1}
         /\ s.n = w.n => s.kind = w.kind /\ s.mode = w.mode
         /\ tab = before => s = w
         /\ tab = NoTab => s.mode = "none"
<1>1. w.n \in Nat
  BY DEF SpaceOK, SpaceType
<1>2. CASE tab = before
  <2>1. s = w
    BY <1>2 DEF Shown
  <2> QED BY <1>1, <1>2, <2>1, InSpaceIs
<1>3. CASE tab # before /\ w.kind = tab.kind /\ w.mode = tab.mode
  <2>1. tab \in AnyTab /\ before \in AnyTab
    <3>1. before.kind = w.kind /\ (before = NoTab <=> w.kind = "none")
      BY InSpaceIs
    <3>2. NoTab.kind = "none" /\ "none" \notin Kind
      BY DEF NoTab, Kind
    <3>3. tab \in AnyTab => tab.kind # "none"
      BY <3>2, TabFacts
    <3> QED BY <1>3, <3>1, <3>2, <3>3
  <2>2. s = [w EXCEPT !.item = tab.item, !.loading = @ \/ tab.mode = "detail",
                      !.error = @ /\ tab.mode # "detail"]
    <3>1. tab # NoTab
      BY <2>1, TabFacts
    <3> QED BY <1>3, <3>1 DEF Shown
  <2>3. /\ s \in SpaceType /\ s.n = w.n /\ s.kind = w.kind /\ s.mode = w.mode
        /\ s.item = tab.item /\ s.shown = w.shown /\ s.asking = w.asking
        /\ s.deleting = w.deleting
    <3>1. w \in SpaceType /\ tab.item \in Item
      BY <2>1, TabFacts DEF SpaceOK
    <3> QED BY <2>2, <3>1 DEF SpaceType
  <2>4. InSpace(s, tab)
    BY <1>3, <2>1, <2>3, TabFacts DEF InSpace
  <2>5. SpaceOK(s)
    BY <1>3, <2>3 DEF SpaceOK
  <2> QED BY <1>1, <1>3, <2>1, <2>3, <2>4, <2>5, TabFacts
<1>4. CASE tab # before /\ ~(w.kind = tab.kind /\ w.mode = tab.mode) /\ tab = NoTab
  <2>1. s = Blank(w.n + 1)
    BY <1>4 DEF Shown
  <2>2. w.n + 1 \in Nat /\ w.n + 1 # w.n
    BY <1>1
  <2> QED BY <1>1, <1>4, <2>1, <2>2, BlankOK
<1>5. CASE tab # before /\ ~(w.kind = tab.kind /\ w.mode = tab.mode) /\ tab # NoTab
  <2>1. s = Fresh(w.n + 1, tab)
    BY <1>5 DEF Shown
  <2>2. w.n + 1 \in Nat /\ w.n + 1 # w.n
    BY <1>1
  <2> QED BY <1>1, <1>5, <2>1, <2>2, FreshOK
<1> QED BY <1>2, <1>3, <1>4, <1>5

-----------------------------------------------------------------------------
(* What the page asks for, and the tab it turns to.                        *)

\* An answer is wanted as long as the one who asked is there, and by nobody
\* after that.
LEMMA WantedOn ==
  ASSUME NEW c, Sensible(c), NEW list, NEW w, Wanted(c, list, w),
         list.n \in Nat, w.n \in Nat,
         NEW list2, \/ list2.n = list.n /\ list2.section = list.section
                    \/ list2.n = list.n + 1,
         NEW w2, \/ w2.n = w.n /\ w2.kind = w.kind /\ w2.mode = w.mode
                 \/ w2.n = w.n + 1
  PROVE  Wanted(c, list2, w2)
<1>1. c.for.op = "list" =>
        /\ c.for.n \in Nat /\ c.for.n <= list.n
        /\ c.for.n = list.n => c.what.section = list.section
  BY DEF Sensible, Says1, ForList, Wanted
<1>2. c.for.op \in {"label", "policies"} =>
        c.for.n \in Nat /\ c.for.n <= w.n /\ (c.for.n = w.n => w.kind = "label")
  BY DEF Sensible, Says1, ForLabel, ForPolicies, Wanted
<1>3. c.for.op \in {"detail", "edit"} =>
        /\ c.for.n \in Nat /\ c.for.n <= w.n
        /\ c.for.n = w.n => w.kind # "label" /\ w.mode = c.for.op
  BY DEF Sensible, Says1, ForPolicy, Wanted
<1>4. c.for.op \in {"save", "delete"} =>
        c.for.n \in Nat /\ c.for.n <= w.n /\ (c.for.n = w.n => w.mode \in {"new", "edit"})
  BY DEF Sensible, Says1, ForSave, ForDelete, Wanted
<1> DEFINE a == c.for.n
           op == c.for.op
<1>5. /\ list2.n \in Nat
      /\ a \in Nat /\ a <= list.n => a <= list2.n /\ (a = list2.n => list2.n = list.n)
  OBVIOUS
<1>6. w2.n \in Nat /\ (a \in Nat /\ a <= w.n => a <= w2.n /\ (a = w2.n => w2.n = w.n))
  OBVIOUS
<1>7. list2.n = list.n => list2.section = list.section
  OBVIOUS
<1>8. w2.n = w.n => w2.kind = w.kind /\ w2.mode = w.mode
  OBVIOUS
<1> QED BY <1>1, <1>2, <1>3, <1>4, <1>5, <1>6, <1>7, <1>8 DEF Wanted

\* A command that has just been sent, by whichever mount of the page.
Sent(cmdlet, params, what, for, at) ==
  [cmdlet |-> cmdlet, params |-> params, what |-> what, for |-> for, at |-> at,
   st |-> "sent", val |-> <<>>]

LEMMA CallIs ==
  ASSUME NEW cmdlet, NEW params, NEW what, NEW for, NEW at, NEW c,
         c = Sent(cmdlet, params, what, for, at)
  PROVE  /\ c.cmdlet = cmdlet /\ c.params = params /\ c.what = what /\ c.for = for
         /\ c.st = "sent" /\ ~Ok(c) /\ (Says1(c) => Sensible(c))
BY DEF Sent, Sensible, Ok

LEMMA FetchListIs ==
  ASSUME NEW list \in ListType, NEW at, NEW c,
         c = [FetchList(list) EXCEPT !.at = at] \/ c = FetchList(list)
  PROVE  Sensible(c) /\ c.for = [op |-> "list", n |-> list.n] /\ c.what = list
<1> DEFINE for == [op |-> "list", n |-> list.n]
<1>1. for.op = "list" /\ for.n = list.n /\ list.n \in Nat
  BY DEF ListType
<1>2. CASE list.section = "label"
  <2>1. FetchList(list) = Sent("Get-SLLabel", [Tree |-> "yes"], list, for, mount)
    BY <1>2 DEF FetchList, Call, Sent
  <2>2. PICK a : c = Sent("Get-SLLabel", [Tree |-> "yes"], list, for, a)
    BY <2>1 DEF Sent
  <2> HIDE DEF for
  <2>3. /\ c.cmdlet = "Get-SLLabel" /\ c.params = [Tree |-> "yes"] /\ c.what = list
        /\ c.for = for /\ ~Ok(c) /\ (Says1(c) => Sensible(c))
    BY ONLY <2>2, CallIs
  <2>4. ForList(c)
    BY <1>1, <1>2, <2>3 DEF ForList, ListType
  <2> QED BY <1>1, <2>3, <2>4 DEF Says1, for
<1>3. CASE list.section # "label"
  <2>1. FetchList(list) = Sent(CmdletOf[list.section].get, <<>>, list, for, mount)
    BY <1>3 DEF FetchList, Call, Sent
  <2>2. PICK a : c = Sent(CmdletOf[list.section].get, <<>>, list, for, a)
    BY <2>1 DEF Sent
  <2> HIDE DEF for
  <2>3. /\ c.cmdlet = CmdletOf[list.section].get /\ c.params = <<>> /\ c.what = list
        /\ c.for = for /\ ~Ok(c) /\ (Says1(c) => Sensible(c))
    BY ONLY <2>2, CallIs
  <2>4. ForList(c)
    BY <1>1, <1>3, <2>3 DEF ForList, ListType
  <2> QED BY <1>1, <2>3, <2>4 DEF Says1, for
<1> QED BY <1>2, <1>3

LEMMA FetchIs ==
  ASSUME NEW w, SpaceOK(w), NEW tab \in AnyTab, InSpace(w, tab), tab.mode # "new",
         NEW c, c = Fetch(w)
  PROVE  /\ Sensible(c) /\ c.for.n = w.n
         /\ IF w.kind = "label" THEN c.for.op = "label"
                                ELSE c.for.op = w.mode /\ c.for.op \in {"detail", "edit"}
         /\ c.what = w.item
<1>1. /\ tab.kind = w.kind /\ tab.mode = w.mode /\ tab.item = w.item /\ w.n \in Nat
  BY InSpaceIs DEF SpaceOK, SpaceType
<1>2. /\ w.kind # "label" => w.kind \in PolicyKind /\ w.item \in Name
      /\ w.mode \in {"detail", "edit"}
      /\ w.kind = "label" => w.item \in Texted
  BY <1>1, TabFacts DEF PolicyKind
<1>3. CASE w.kind = "label"
  <2>1. c = Sent("Get-SLLabel", [Id |-> "text"], w.item, [op |-> "label", n |-> w.n], mount)
    BY <1>3 DEF Fetch, Call, Sent
  <2>2. /\ c.cmdlet = "Get-SLLabel" /\ c.params = [Id |-> "text"] /\ c.what = w.item
        /\ c.for = [op |-> "label", n |-> w.n]
        /\ ~Ok(c) /\ (Says1(c) => Sensible(c))
    BY <2>1, CallIs
  <2>3. ForLabel(c)
    BY <1>1, <1>2, <1>3, <2>2 DEF ForLabel
  <2> QED BY <1>3, <2>2, <2>3 DEF Says1
<1>4. CASE w.kind # "label"
  <2>1. c = Sent(CmdletOf[w.kind].get, [Identity |-> "text"], w.item,
                 [op |-> w.mode, n |-> w.n], mount)
    BY <1>4 DEF Fetch, Call, Sent
  <2>2. /\ c.cmdlet = CmdletOf[w.kind].get /\ c.params = [Identity |-> "text"] /\ c.what = w.item
        /\ c.for = [op |-> w.mode, n |-> w.n]
        /\ ~Ok(c) /\ (Says1(c) => Sensible(c))
    BY <2>1, CallIs
  <2>3. ForPolicy(c)
    BY <1>1, <1>2, <1>4, <2>2 DEF ForPolicy
  <2> QED BY <1>2, <1>4, <2>2, <2>3 DEF Says1
<1> QED BY <1>3, <1>4

\* One more command, for the component that is there, or for the list.
LEMMA OneMore ==
  ASSUME NEW q, Queue(q), OneScan(q), NEW list, NEW w, NEW rs,
         \A d \in Range(q) : Wanted(d, list, w) /\ OfARun(d, rs),
         NEW c, Sensible(c), c.for.op # "scan", Wanted(c, list, w),
         NEW q2, q2 = Append(q, c)
  PROVE  /\ Queue(q2) /\ OneScan(q2)
         /\ \A d \in Range(q2) : Wanted(d, list, w) /\ OfARun(d, rs)
<1>1. Queue(q2) /\ OneScan(q2) /\ Range(q2) = Range(q) \cup {c}
  BY QueueAppended
<1> QED BY <1>1 DEF OfARun

\* The tab that becomes the active one, and what it asks for, keep everything.
LEMMA Turned ==
  ASSUME PageOK(lt), StoreOK(store), throttled \in Nat,
         NEW w, SpaceOK(w), InSpace(w, lt.active),
         NEW tabs \in Seq(AnyTab), NEW tab \in AnyTab \cup {NoTab}, TabsOK(tabs, tab),
         NEW forms \in Nat,
         NEW cs, Queue(cs), OneScan(cs),
         \A c \in Range(cs) : Wanted(c, lt.list, w) /\ OfARun(c, runs),
         throttled = 0 => DetailOK(cs, w),
         Turn(w, tabs, tab, forms, cs),
         UNCHANGED <<runs, throttled, store>>
  PROVE  LabelInv' /\ CallsInv' /\ DetailInv'
<1>1. lt.active \in AnyTab \cup {NoTab} /\ lt.list.n \in Nat
  BY DEF PageOK, PageType, ListType
<1>2. ws' = Shown(w, lt.active, tab)
  BY DEF Turn
<1>3. /\ SpaceOK(ws') /\ InSpace(ws', tab)
      /\ w.n \in Nat /\ ws'.n \in {w.n, w.n + 1}
      /\ ws'.n = w.n => ws'.kind = w.kind /\ ws'.mode = w.mode
      /\ tab = lt.active => ws' = w
      /\ tab = NoTab => ws'.mode = "none"
  BY <1>1, <1>2, ShownOK
<1>4. PageOK(lt') /\ lt'.list = lt.list /\ lt'.tabs = tabs /\ lt'.active = tab
  <2>1. lt' = [lt EXCEPT !.tabs = tabs, !.active = tab, !.forms = forms]
    BY DEF Turn
  <2> QED BY <2>1 DEF PageOK, PageType
<1>5. LabelInv'
  BY <1>3, <1>4 DEF LabelInv
<1>6. \A c \in Range(cs) : Wanted(c, lt'.list, ws') /\ OfARun(c, runs')
  <2> SUFFICES ASSUME NEW c \in Range(cs)
               PROVE  Wanted(c, lt.list, ws') /\ OfARun(c, runs)
    BY <1>4
  <2>1. Sensible(c) /\ Wanted(c, lt.list, w) /\ OfARun(c, runs)
    BY DEF Queue
  <2> QED BY <1>1, <1>3, <2>1, WantedOn
<1>7. CASE tab \in {NoTab, lt.active} \/ tab.mode = "new"
  <2>1. calls' = cs
    BY <1>7 DEF Turn
  <2>2. CallsInv'
    BY <1>6, <2>1 DEF CallsInv
  <2>3. throttled = 0 => DetailOK(cs, ws')
    <3>1. CASE tab = lt.active
      BY <1>3, <3>1
    <3>2. CASE tab = NoTab
      BY <1>3, <3>2, DetailNone
    <3>3. CASE tab.mode = "new"
      <4>1. ws'.mode = "new"
        BY <1>3, <3>3, InSpaceIs
      <4> QED BY <4>1, DetailNone
    <3> QED BY <1>7, <3>1, <3>2, <3>3
  <2>4. DetailInv'
    BY <2>1, <2>3 DEF DetailInv
  <2> QED BY <1>5, <2>2, <2>4
<1>8. CASE ~(tab \in {NoTab, lt.active} \/ tab.mode = "new")
  <2> DEFINE c == Fetch(ws')
  <2>1. calls' = Append(cs, c)
    BY <1>8 DEF Turn
  <2>2. tab \in AnyTab /\ tab.mode # "new"
    BY <1>8
  <2>3. /\ Sensible(c) /\ c.for.n = ws'.n
        /\ IF ws'.kind = "label" THEN c.for.op = "label"
                                 ELSE c.for.op = ws'.mode /\ c.for.op \in {"detail", "edit"}
        /\ c.what = ws'.item
    BY <1>3, <2>2, FetchIs
  <2> HIDE DEF c
  <2>4. ws'.n \in Nat
    BY <1>3
  <2>5. Wanted(c, lt'.list, ws') /\ c.for.op # "scan"
    BY <2>3, <2>4 DEF Wanted
  <2>6. CallsInv'
    BY <1>6, <2>1, <2>3, <2>5, OneMore DEF CallsInv
  <2>7. DetailOK(calls', ws')
    <3>1. CASE ws'.mode = "detail"
      <4>1. c.for.op \in Asks
        BY <2>3, <3>1 DEF Asks
      <4> QED BY <2>1, <2>3, <4>1, DetailAsked
    <3>2. CASE ws'.mode # "detail"
      BY <3>2, DetailNone
    <3> QED BY <3>1, <3>2
  <2>8. DetailInv'
    BY <2>7 DEF DetailInv
  <2> QED BY <1>5, <2>6, <2>8
<1> QED BY <1>7, <1>8

-----------------------------------------------------------------------------
(* What the user does on the Labels page.                                  *)

LEMMA Facts ==
  ASSUME RendererInv
  PROVE  /\ PageOK(lt) /\ SpaceOK(ws) /\ StoreOK(store) /\ TabsOK(lt.tabs, lt.active)
         /\ InSpace(ws, lt.active)
         /\ lt.tabs \in Seq(AnyTab) /\ lt.active \in AnyTab \cup {NoTab} /\ lt.forms \in Nat
         /\ lt.list \in ListType /\ lt.list.n \in Nat /\ ws.n \in Nat
         /\ Queue(calls) /\ OneScan(calls)
         /\ \A c \in Range(calls) : Wanted(c, lt.list, ws) /\ OfARun(c, runs)
         /\ throttled \in Nat
         /\ throttled = 0 => DetailOK(calls, ws)
<1>1. PageOK(lt) /\ SpaceOK(ws) /\ StoreOK(store) /\ TabsOK(lt.tabs, lt.active)
      /\ InSpace(ws, lt.active)
  BY DEF RendererInv, LabelInv
<1>2. /\ lt.tabs \in Seq(AnyTab) /\ lt.active \in AnyTab \cup {NoTab} /\ lt.forms \in Nat
      /\ lt.list \in ListType /\ lt.list.n \in Nat /\ ws.n \in Nat
  BY <1>1 DEF PageOK, PageType, ListType, SpaceOK, SpaceType
<1>3. /\ Queue(calls) /\ OneScan(calls)
      /\ \A c \in Range(calls) : Wanted(c, lt.list, ws) /\ OfARun(c, runs)
      /\ throttled \in Nat
      /\ throttled = 0 => DetailOK(calls, ws)
  BY DEF RendererInv, CallsInv, DetailInv
<1> QED BY <1>1, <1>2, <1>3

LEMMA TabOpened ==
  ASSUME RendererInv, NEW tab \in AnyTab, NEW forms \in Nat,
         Turn(ws, Opened(lt.tabs, tab), tab, forms, calls),
         UNCHANGED <<runs, throttled, store>>
  PROVE  LabelInv' /\ CallsInv' /\ DetailInv'
<1> DEFINE tabs == Opened(lt.tabs, tab)
<1>1. tabs \in Seq(AnyTab) /\ TabsOK(tabs, tab)
  BY Facts, OpenedOK DEF TabsOK
<1> HIDE DEF tabs
<1>2. Turn(ws, tabs, tab, forms, calls)
  BY DEF tabs
<1> QED BY <1>1, <1>2, Facts, Turned

LEMMA TabClosed ==
  ASSUME RendererInv, NEW tab \in AnyTab,
         NEW w, SpaceOK(w), InSpace(w, lt.active),
         NEW cs, Queue(cs), OneScan(cs),
         \A c \in Range(cs) : Wanted(c, lt.list, w) /\ OfARun(c, runs),
         throttled = 0 => DetailOK(cs, w),
         CloseTab(w, tab, cs), UNCHANGED <<runs, throttled, store>>
  PROVE  LabelInv' /\ CallsInv' /\ DetailInv'
<1> DEFINE c == Closed(lt.tabs, lt.active, tab)
<1>1. c.tabs \in Seq(AnyTab) /\ c.active \in AnyTab \cup {NoTab} /\ TabsOK(c.tabs, c.active)
  BY Facts, ClosedOK
<1>2. Turn(w, c.tabs, c.active, lt.forms, cs)
  BY DEF CloseTab
<1> HIDE DEF c
<1> QED BY <1>1, <1>2, Facts, Turned

\* A form, or a dialog over it, that changes.
LEMMA FormTouched ==
  ASSUME RendererInv, ws.mode \in {"new", "edit"},
         SpaceOK(ws'), ws'.n = ws.n, ws'.kind = ws.kind, ws'.mode = ws.mode, ws'.item = ws.item,
         \/ UNCHANGED calls
         \/ \E c : /\ Sensible(c) /\ c.for.op \in {"save", "delete"} /\ c.for.n = ws.n
                   /\ calls' = Append(calls, c),
         UNCHANGED <<lt, store, runs, throttled>>
  PROVE  LabelInv' /\ CallsInv' /\ DetailInv'
<1>1. LabelInv'
  BY Facts DEF LabelInv, InSpace
<1>2. DetailInv'
  BY Facts, DetailNone DEF DetailInv
<1>3. \A c \in Range(calls) : Wanted(c, lt.list, ws') /\ OfARun(c, runs)
  <2> SUFFICES ASSUME NEW c \in Range(calls) PROVE Wanted(c, lt.list, ws') /\ OfARun(c, runs)
    OBVIOUS
  <2>1. Sensible(c) /\ Wanted(c, lt.list, ws) /\ OfARun(c, runs)
    BY Facts DEF Queue
  <2> QED BY <2>1, Facts, WantedOn
<1>4. CASE UNCHANGED calls
  <2>1. CallsInv'
    BY <1>3, <1>4, Facts DEF CallsInv
  <2> QED BY <1>1, <1>2, <2>1
<1>5. ASSUME NEW c, Sensible(c), c.for.op \in {"save", "delete"}, c.for.n = ws.n,
             calls' = Append(calls, c)
      PROVE  CallsInv'
  <2>1. Wanted(c, lt.list, ws') /\ c.for.op # "scan"
    BY <1>5, Facts DEF Wanted
  <2>2. /\ Queue(calls') /\ OneScan(calls')
        /\ \A d \in Range(calls') : Wanted(d, lt.list, ws') /\ OfARun(d, runs)
    BY <1>3, <1>5, <2>1, Facts, OneMore
  <2> QED BY <2>2 DEF CallsInv
<1> QED BY <1>1, <1>2, <1>4, <1>5

\* The list asks again, for its section or for another.
LEMMA ListAsked ==
  ASSUME RendererInv, PageOK(lt'), lt'.tabs = lt.tabs, lt'.active = lt.active,
         \/ lt'.list.n = lt.list.n /\ lt'.list.section = lt.list.section
         \/ lt'.list.n = lt.list.n + 1,
         NEW list \in ListType, list.n = lt'.list.n, list.section = lt'.list.section,
         calls' = Append(calls, FetchList(list)),
         UNCHANGED <<ws, store, runs, throttled>>
  PROVE  LabelInv' /\ CallsInv' /\ DetailInv'
<1> DEFINE c == FetchList(list)
<1>1. Sensible(c) /\ c.for = [op |-> "list", n |-> list.n] /\ c.what = list
  BY FetchListIs
<1> HIDE DEF c
<1>2. c.for.op = "list" /\ c.for.n = list.n /\ list.n \in Nat
  BY <1>1 DEF ListType
<1>3. LabelInv'
  BY Facts DEF LabelInv
<1>4. \A d \in Range(calls) : Wanted(d, lt'.list, ws) /\ OfARun(d, runs)
  <2> SUFFICES ASSUME NEW d \in Range(calls) PROVE Wanted(d, lt'.list, ws) /\ OfARun(d, runs)
    OBVIOUS
  <2>1. Sensible(d) /\ Wanted(d, lt.list, ws) /\ OfARun(d, runs)
    BY Facts DEF Queue
  <2> QED BY <2>1, Facts, WantedOn
<1>5. Wanted(c, lt'.list, ws)
  BY <1>1, <1>2 DEF Wanted
<1>6. calls' = Append(calls, c)
  BY DEF c
<1>7. CallsInv'
  BY <1>1, <1>2, <1>4, <1>5, <1>6, Facts, OneMore DEF CallsInv
<1>8. DetailInv'
  BY <1>2, <1>6, Facts, DetailElse DEF DetailInv, Asks
<1> QED BY <1>3, <1>7, <1>8

LEMMA SectionPicked ==
  ASSUME RendererInv, PickSection, UNCHANGED classifyVars
  PROVE  LabelInv' /\ CallsInv' /\ DetailInv'
<1>1. PICK section \in Kind : lt' = [lt EXCEPT !.list = NewList(section, lt.list.n + 1)]
  BY DEF PickSection
<1> DEFINE list == NewList(section, lt.list.n + 1)
<1>2. list \in ListType /\ list.items = {} /\ list.n = lt.list.n + 1
  BY Facts DEF NewList, ListType
<1> HIDE DEF list
<1>3. lt' = [lt EXCEPT !.list = list]
  BY <1>1 DEF list
<1>4. lt \in PageType
  BY Facts DEF PageOK
<1>5. PageOK(lt') /\ lt'.tabs = lt.tabs /\ lt'.active = lt.active /\ lt'.list = list
  BY <1>2, <1>3, <1>4 DEF PageOK, PageType
<1>6. calls' = Append(calls, FetchList(list))
  BY <1>5 DEF PickSection
<1>7. UNCHANGED <<ws, store, runs, throttled>>
  BY DEF PickSection, OnLabels, Click, classifyVars
<1> QED BY <1>2, <1>5, <1>6, <1>7, ListAsked

LEMMA ListRefreshed ==
  ASSUME RendererInv, RefreshList, UNCHANGED classifyVars
  PROVE  LabelInv' /\ CallsInv' /\ DetailInv'
<1>1. lt \in PageType /\ lt.list.items \subseteq ListItems(lt.list.section)
  BY Facts DEF PageOK
<1>2. lt' = [lt EXCEPT !.list.st = "loading"]
  BY DEF RefreshList
<1>3. /\ lt'.tabs = lt.tabs /\ lt'.active = lt.active /\ lt'.forms = lt.forms
      /\ lt' \in PageType /\ lt'.list.n = lt.list.n /\ lt'.list.section = lt.list.section
      /\ lt'.list.items = lt.list.items
  BY <1>1, <1>2 DEF PageType, ListType
<1>4. PageOK(lt')
  BY <1>1, <1>3 DEF PageOK
<1>5. calls' = Append(calls, FetchList(lt.list)) /\ UNCHANGED <<ws, store, runs, throttled>>
  BY DEF RefreshList, OnLabels, Click, classifyVars
<1> QED BY <1>3, <1>4, <1>5, Facts, ListAsked

LEMMA OpenedFromList ==
  ASSUME RendererInv, OpenFromList, UNCHANGED classifyVars
  PROVE  LabelInv' /\ CallsInv' /\ DetailInv'
<1>1. PICK item \in lt.list.items :
        OpenTab([kind |-> lt.list.section, mode |-> "detail", item |-> item])
  BY DEF OpenFromList
<1> DEFINE tab == [kind |-> lt.list.section, mode |-> "detail", item |-> item]
<1>2. lt.list.section \in Kind /\ item \in ListItems(lt.list.section)
  BY Facts DEF PageOK, ListType
<1>3. tab \in AnyTab
  BY <1>2 DEF AnyTab, LabelTab, ListItems, PolicyKind, Texted
<1> HIDE DEF tab
<1>4. Turn(ws, Opened(lt.tabs, tab), tab, lt.forms, calls)
  BY <1>1 DEF OpenTab, tab
<1>5. UNCHANGED <<store, runs, throttled>>
  BY DEF OpenFromList, OnLabels, Click, classifyVars
<1> QED BY <1>3, <1>4, <1>5, Facts, TabOpened

LEMMA NewOpened ==
  ASSUME RendererInv, OpenNew, UNCHANGED classifyVars
  PROVE  LabelInv' /\ CallsInv' /\ DetailInv'
<1> DEFINE m == lt.forms + 1
           item == NewItem(m)
<1>1. PICK kind \in PolicyKind :
        Turn(ws, Opened(lt.tabs, [kind |-> kind, mode |-> "new", item |-> item]),
             [kind |-> kind, mode |-> "new", item |-> item], m, calls)
  BY DEF OpenNew
<1>2. m \in Nat /\ item \in Item
  BY Facts DEF Item
<1> HIDE DEF m, item
<1> DEFINE tab == [kind |-> kind, mode |-> "new", item |-> item]
<1>3. tab \in AnyTab
  BY <1>2 DEF AnyTab, FormTab
<1>4. Turn(ws, Opened(lt.tabs, tab), tab, m, calls)
  BY <1>1
<1> HIDE DEF tab
<1>5. UNCHANGED <<store, runs, throttled>>
  BY DEF OpenNew, OnLabels, Click, classifyVars
<1> QED BY <1>2, <1>3, <1>4, <1>5, TabOpened

LEMMA TabPicked ==
  ASSUME RendererInv, PickTab, UNCHANGED classifyVars
  PROVE  LabelInv' /\ CallsInv' /\ DetailInv'
<1>1. PICK i \in DOMAIN lt.tabs : OpenTab(lt.tabs[i])
  BY DEF PickTab
<1> DEFINE tab == lt.tabs[i]
<1>2. tab \in AnyTab
  BY Facts, ElementOfSeq
<1> HIDE DEF tab
<1>3. Turn(ws, Opened(lt.tabs, tab), tab, lt.forms, calls)
  BY <1>1 DEF OpenTab, tab
<1>4. UNCHANGED <<store, runs, throttled>>
  BY DEF PickTab, OnLabels, Click, classifyVars
<1> QED BY <1>2, <1>3, <1>4, Facts, TabOpened

LEMMA TabShut ==
  ASSUME RendererInv, ShutTab, UNCHANGED classifyVars
  PROVE  LabelInv' /\ CallsInv' /\ DetailInv'
<1>1. PICK i \in DOMAIN lt.tabs : CloseTab(ws, lt.tabs[i], calls)
  BY DEF ShutTab
<1> DEFINE tab == lt.tabs[i]
<1>2. tab \in AnyTab
  BY Facts, ElementOfSeq
<1> HIDE DEF tab
<1>3. CloseTab(ws, tab, calls)
  BY <1>1 DEF tab
<1>4. UNCHANGED <<store, runs, throttled>>
  BY DEF ShutTab, OnLabels, Click, classifyVars
<1> QED BY <1>2, <1>3, <1>4, Facts, TabClosed

LEMMA LinkFollowed ==
  ASSUME RendererInv, FollowLink, UNCHANGED classifyVars
  PROVE  LabelInv' /\ CallsInv' /\ DetailInv'
<1>1. UNCHANGED <<store, runs, throttled>>
  BY DEF FollowLink, OnLabels, Click, classifyVars
<1>2. ASSUME NEW tab \in AnyTab, OpenTab(tab)
      PROVE  LabelInv' /\ CallsInv' /\ DetailInv'
  BY <1>1, <1>2, Facts, TabOpened DEF OpenTab
<1>3. lt.active \in AnyTab /\ lt.active.kind = ws.kind /\ lt.active.mode = "detail"
      /\ lt.active.item = ws.item
  BY Facts, InSpaceIs DEF FollowLink, Loaded
<1>4. CASE ws.kind = "label" /\ \E p \in ws.policies :
             OpenTab([kind |-> "policy", mode |-> "detail", item |-> p])
  <2>1. PICK p \in ws.policies : OpenTab([kind |-> "policy", mode |-> "detail", item |-> p])
    BY <1>4
  <2>2. p \in Name
    BY Facts DEF SpaceOK, SpaceType
  <2>3. [kind |-> "policy", mode |-> "detail", item |-> p] \in AnyTab
    BY <2>2, Kinds2 DEF AnyTab
  <2> QED BY <1>2, <2>1, <2>3
<1>5. CASE /\ ws.kind # "label" /\ ws.shown # NoPolicy
           /\ OpenTab([kind |-> "label", mode |-> "detail", item |-> ws.shown.labels])
  <2>1. ws.shown.labels \in Texted
    BY <1>5, Facts DEF SpaceOK, Policy
  <2>2. [kind |-> "label", mode |-> "detail", item |-> ws.shown.labels] \in AnyTab
    BY <2>1 DEF AnyTab, LabelTab
  <2> QED BY <1>2, <1>5, <2>2
<1>6. CASE ws.kind # "label" /\ OpenTab([kind |-> ws.kind, mode |-> "edit", item |-> ws.item])
  <2>1. ws.kind \in PolicyKind /\ ws.item \in Name
    BY <1>3, <1>6, TabFacts DEF PolicyKind
  <2>2. [kind |-> ws.kind, mode |-> "edit", item |-> ws.item] \in AnyTab
    BY <2>1 DEF AnyTab, FormTab
  <2> QED BY <1>2, <1>6, <2>2
<1> QED BY <1>4, <1>5, <1>6 DEF FollowLink, Loaded

LEMMA FormFacts ==
  ASSUME RendererInv, ws.mode \in {"new", "edit"}
  PROVE  /\ lt.active \in FormTab /\ lt.active \in AnyTab
         /\ lt.active.kind = ws.kind /\ ws.kind \in PolicyKind /\ ws.kind # "label"
         /\ ws \in SpaceType /\ ws.form \in Form /\ ws.shown \in Policy \cup {NoPolicy}
         /\ ws.shown \in Shows
<1>1. lt.active \in AnyTab /\ lt.active.kind = ws.kind /\ lt.active.mode = ws.mode
  BY Facts, InSpaceIs
<1>2. lt.active \in FormTab /\ ws.kind \in PolicyKind
  BY <1>1, TabFacts
<1>3. ws.kind # "label"
  BY <1>2 DEF PolicyKind
<1>4. ws \in SpaceType /\ ws.shown \in Policy \cup {NoPolicy}
  BY <1>3, Facts DEF SpaceOK
<1> QED BY <1>1, <1>2, <1>3, <1>4 DEF SpaceType

LEMMA FormTyped ==
  ASSUME RendererInv, TypeInForm, UNCHANGED classifyVars
  PROVE  LabelInv' /\ CallsInv' /\ DetailInv'
<1>1. ws.mode \in {"new", "edit"} /\ UNCHANGED <<lt, calls, store, runs, throttled>>
  BY DEF TypeInForm, FormOpen, OnLabels, Click, classifyVars
<1>2. PICK f \in Typed(ws) : ws' = [ws EXCEPT !.form = f]
  BY DEF TypeInForm
<1>3. ws \in SpaceType /\ ws.form \in Form
  BY <1>1, FormFacts
<1>4. f \in Form
  <2>1. PICK x : \/ x \in Name /\ f = [ws.form EXCEPT !.name = x]
                 \/ x \in {"typed", "lines", ""} /\ f = [ws.form EXCEPT !.labels = x]
                 \/ x \in {"typed", "lines", ""} /\ f = [ws.form EXCEPT !.comment = x]
                 \/ x \in Mode /\ f = [ws.form EXCEPT !.mode = x]
                 \/ x \in SUBSET Location /\ f = [ws.form EXCEPT !.places = x]
    BY DEF Typed
  <2> QED BY <1>3, <2>1 DEF Form, Texted
<1>5. /\ ws'.n = ws.n /\ ws'.kind = ws.kind /\ ws'.mode = ws.mode /\ ws'.item = ws.item
      /\ ws'.shown = ws.shown /\ ws'.asking = ws.asking /\ ws'.deleting = ws.deleting
      /\ ws' \in SpaceType
  BY <1>2, <1>3, <1>4 DEF SpaceType
<1>6. SpaceOK(ws')
  BY <1>5, Facts DEF SpaceOK
<1> QED BY <1>1, <1>5, <1>6, FormTouched

LEMMA FormSaved ==
  ASSUME RendererInv, SaveForm, UNCHANGED classifyVars
  PROVE  LabelInv' /\ CallsInv' /\ DetailInv'
<1> DEFINE f == ws.form
           id == IF IsNew THEN f.name ELSE ws.shown.name
           for == [op |-> "save", n |-> ws.n, tab |-> lt.active, name |-> f.name]
           what == [identity |-> id, form |-> f, from |-> ws.from]
           bad == f.name = "" \/ (ws.kind = "autolabel" /\ f.labels = "")
           new == Call(CmdletOf[ws.kind].new, NewParams(ws.kind, f), what, for)
           set == Call(CmdletOf[ws.kind].set, SetParams(ws.kind, f, ws.shown), what, for)
<1>1. ws.mode \in {"new", "edit"} /\ UNCHANGED <<lt, store, runs, throttled>>
  BY DEF SaveForm, FormOpen, OnLabels, Click, classifyVars
<1>2. IF bad
        THEN ws' = [ws EXCEPT !.error = TRUE] /\ UNCHANGED calls
        ELSE /\ ws' = [ws EXCEPT !.saving = TRUE, !.error = FALSE]
             /\ calls' = Append(calls, IF IsNew THEN new ELSE set)
  BY DEF SaveForm
<1>3. /\ ws \in SpaceType /\ ws.form \in Form /\ ws.kind \in PolicyKind
      /\ lt.active \in FormTab /\ ws.shown \in Policy \cup {NoPolicy} /\ ws.shown \in Shows
      /\ ws.n \in Nat
  BY <1>1, FormFacts, Facts
<1> HIDE DEF bad, new, set
<1>4. /\ ws'.n = ws.n /\ ws'.kind = ws.kind /\ ws'.mode = ws.mode /\ ws'.item = ws.item
      /\ ws'.shown = ws.shown /\ ws'.asking = ws.asking /\ ws'.deleting = ws.deleting
      /\ ws' \in SpaceType
  BY <1>2, <1>3 DEF SpaceType
<1>5. SpaceOK(ws')
  BY <1>4, Facts DEF SpaceOK
<1>6. CASE bad
  BY <1>1, <1>2, <1>4, <1>5, <1>6, FormTouched
<1>7. CASE ~bad
  <2>1. f.name \in Name
    BY <1>3, <1>7 DEF Form, bad
  <2>2. id \in Name
    BY <1>3, <2>1 DEF IsNew, Policy
  <2>3. for.op = "save" /\ for.n = ws.n /\ for.tab = lt.active /\ for.name = f.name
        /\ what.identity = id /\ what.form = f
    OBVIOUS
  <2> HIDE DEF for, what, id
  <2>4. Sensible(new) /\ new.for = for
    <3>1. new = Sent(CmdletOf[ws.kind].new, NewParams(ws.kind, f), what, for, mount)
      BY DEF new, Call, Sent
    <3>2. /\ new.cmdlet = CmdletOf[ws.kind].new /\ new.params = NewParams(ws.kind, f)
          /\ new.what = what /\ new.for = for /\ (Says1(new) => Sensible(new))
      BY ONLY <3>1, CallIs
    <3>3. ForSave(new)
      BY <1>3, <2>1, <2>2, <2>3, <3>2 DEF ForSave
    <3> QED BY <2>3, <3>2, <3>3 DEF Says1
  <2>5. Sensible(set) /\ set.for = for
    <3>1. set = Sent(CmdletOf[ws.kind].set, SetParams(ws.kind, f, ws.shown), what, for, mount)
      BY DEF set, Call, Sent
    <3>2. /\ set.cmdlet = CmdletOf[ws.kind].set /\ set.params = SetParams(ws.kind, f, ws.shown)
          /\ set.what = what /\ set.for = for /\ (Says1(set) => Sensible(set))
      BY ONLY <3>1, CallIs
    <3>3. ForSave(set)
      BY <1>3, <2>1, <2>2, <2>3, <3>2 DEF ForSave
    <3> QED BY <2>3, <3>2, <3>3 DEF Says1
  <2>6. \E c : /\ Sensible(c) /\ c.for.op \in {"save", "delete"} /\ c.for.n = ws.n
               /\ calls' = Append(calls, c)
    BY <1>2, <1>7, <2>3, <2>4, <2>5
  <2> QED BY <1>1, <1>4, <1>5, <2>6, FormTouched
<1> QED BY <1>6, <1>7

LEMMA FormCancelled ==
  ASSUME RendererInv, CancelForm, UNCHANGED classifyVars
  PROVE  LabelInv' /\ CallsInv' /\ DetailInv'
<1>1. /\ ws.mode \in {"new", "edit"} /\ CloseTab(ws, lt.active, calls)
      /\ UNCHANGED <<store, runs, throttled>>
  BY DEF CancelForm, FormOpen, OnLabels, Click, classifyVars
<1>2. lt.active \in AnyTab
  BY <1>1, FormFacts
<1> QED BY <1>1, <1>2, Facts, TabClosed

LEMMA DeleteAsked ==
  ASSUME RendererInv, AskToDelete, UNCHANGED classifyVars
  PROVE  LabelInv' /\ CallsInv' /\ DetailInv'
<1>1. /\ ws.mode \in {"new", "edit"} /\ UNCHANGED <<lt, calls, store, runs, throttled>>
      /\ ws' = [ws EXCEPT !.asking = TRUE, !.named = ws.shown.name, !.settled = calls = <<>>]
  BY DEF AskToDelete, FormOpen, OnLabels, Click, classifyVars
<1>2. /\ ws'.n = ws.n /\ ws'.kind = ws.kind /\ ws'.mode = ws.mode /\ ws'.item = ws.item
      /\ ws'.shown = ws.shown /\ ws' \in SpaceType
  <2> DEFINE none == calls = <<>>
  <2>1. ws \in SpaceType /\ ws.shown.name \in Item /\ none \in BOOLEAN
    BY <1>1, FormFacts DEF Shows
  <2> HIDE DEF none
  <2>2. ws' = [ws EXCEPT !.asking = TRUE, !.named = ws.shown.name, !.settled = none]
    BY <1>1 DEF none
  <2> QED BY <2>1, <2>2 DEF SpaceType
<1>3. SpaceOK(ws')
  BY <1>1, <1>2, Facts DEF SpaceOK
<1> QED BY <1>1, <1>2, <1>3, FormTouched

LEMMA DialogAnswered ==
  ASSUME RendererInv, AnswerDialog, UNCHANGED classifyVars
  PROVE  LabelInv' /\ CallsInv' /\ DetailInv'
<1> DEFINE c == RemoveCall(ws)
           for == [op |-> "delete", n |-> ws.n, tab |-> lt.active]
           what == [identity |-> ws.shown.name, named |-> ws.named, settled |-> ws.settled]
<1>1. UNCHANGED <<lt, store, runs, throttled>>
  BY DEF AnswerDialog, Click, classifyVars
<1>2. ws.mode \in {"new", "edit"}
  BY Facts DEF AnswerDialog, SpaceOK
<1>3. \/ ws' = [ws EXCEPT !.asking = FALSE] /\ UNCHANGED calls
      \/ ws' = [ws EXCEPT !.deleting = TRUE, !.error = FALSE] /\ calls' = Append(calls, c)
  BY DEF AnswerDialog
<1>4. ws \in SpaceType /\ lt.active \in FormTab /\ ws.kind \in PolicyKind /\ ws.n \in Nat
  BY <1>2, FormFacts, Facts
<1> HIDE DEF c
<1>5. /\ ws'.n = ws.n /\ ws'.kind = ws.kind /\ ws'.mode = ws.mode /\ ws'.item = ws.item
      /\ ws'.shown = ws.shown /\ ws' \in SpaceType
  BY <1>3, <1>4 DEF SpaceType
<1>6. SpaceOK(ws')
  BY <1>2, <1>5, Facts DEF SpaceOK
<1>7. for.op = "delete" /\ for.n = ws.n /\ for.tab = lt.active
  OBVIOUS
<1> HIDE DEF for, what
<1>8. Sensible(c) /\ c.for = for
  <2>1. c = Sent(CmdletOf[ws.kind].remove, [Identity |-> "text"], what, for, mount)
    BY DEF c, RemoveCall, Call, Sent, for, what
  <2>2. /\ c.cmdlet = CmdletOf[ws.kind].remove /\ c.params = [Identity |-> "text"]
        /\ c.what = what /\ c.for = for /\ (Says1(c) => Sensible(c))
    BY ONLY <2>1, CallIs
  <2>3. ForDelete(c)
    BY <1>4, <1>7, <2>2 DEF ForDelete
  <2> QED BY <1>7, <2>2, <2>3 DEF Says1
<1>9. \/ UNCHANGED calls
      \/ \E d : /\ Sensible(d) /\ d.for.op \in {"save", "delete"} /\ d.for.n = ws.n
                /\ calls' = Append(calls, d)
  BY <1>3, <1>7, <1>8
<1> QED BY <1>1, <1>2, <1>5, <1>6, <1>9, FormTouched

LEMMA LabelsClicked ==
  ASSUME RendererInv, LabelsClicks, UNCHANGED classifyVars
  PROVE  RendererInv'
<1>1. LabelInv' /\ CallsInv' /\ DetailInv'
  BY SectionPicked, ListRefreshed, OpenedFromList, NewOpened, TabPicked, TabShut, LinkFollowed,
     FormTyped, FormSaved, FormCancelled, DeleteAsked, DialogAnswered DEF LabelsClicks
<1>2. clicks' = clicks + 1 /\ UNCHANGED mount
  BY DEF LabelsClicks, PickSection, RefreshList, OpenFromList, OpenNew, PickTab, ShutTab,
         FollowLink, TypeInForm, SaveForm, CancelForm, AskToDelete, AnswerDialog, OnLabels, Click
<1>3. ClassifyInv' /\ RunsDoAsAsked'
  BY <1>2 DEF RendererInv, ClassifyInv, RunsDoAsAsked, classifyVars
<1> QED BY <1>1, <1>3 DEF RendererInv

-----------------------------------------------------------------------------
(* What the Labels page makes of the answers.                              *)

LEMMA AnsweredIs ==
  ASSUME RendererInv, NEW op, Answered(op), NEW h, h = Head(calls)
  PROVE  /\ h = calls[1] /\ h.for.op = op /\ calls # <<>> /\ h \in Range(calls)
         /\ Sensible(h) /\ Wanted(h, lt.list, ws) /\ OfARun(h, runs)
         /\ Succeeded <=> Ok(h)
         /\ Queue(Took) /\ OneScan(Took) /\ Range(Took) \subseteq Range(calls)
         /\ \A c \in Range(Took) : Wanted(c, lt.list, ws) /\ OfARun(c, runs)
         /\ ~(op \in Asks /\ h.for.n = ws.n) /\ throttled = 0 => DetailOK(Took, ws)
<1>1. calls # <<>> /\ h.for.op = op
  BY DEF Answered
<1>2. /\ Queue(Took) /\ OneScan(Took) /\ Range(Took) \subseteq Range(calls)
      /\ h = calls[1] /\ h \in Range(calls) /\ Sensible(h)
  BY <1>1, Facts, QueueTaken DEF Took
<1>3. ~(op \in Asks /\ h.for.n = ws.n) /\ throttled = 0 => DetailOK(Took, ws)
  BY <1>1, <1>2, Facts, DetailTaken DEF Took
<1>4. \A c \in Range(Took) : Wanted(c, lt.list, ws) /\ OfARun(c, runs)
  BY <1>2, Facts
<1>5. Wanted(h, lt.list, ws) /\ OfARun(h, runs)
  BY <1>2, Facts
<1>6. Succeeded <=> Ok(h)
  BY DEF Succeeded, Ok
<1> QED BY <1>1, <1>2, <1>3, <1>4, <1>5, <1>6

LEMMA PageTook ==
  ASSUME RendererInv, NEW op, Answered(op), calls' = Took,
         lt'.list.n = lt.list.n, lt'.list.section = lt.list.section,
         ws'.n = ws.n, ws'.kind = ws.kind, ws'.mode = ws.mode,
         throttled = 0 => DetailOK(Took, ws'), UNCHANGED <<runs, throttled>>
  PROVE  CallsInv' /\ DetailInv'
<1>1. /\ Queue(Took) /\ OneScan(Took)
      /\ \A c \in Range(Took) : Wanted(c, lt.list, ws) /\ OfARun(c, runs)
  BY AnsweredIs
<1>2. \A c \in Range(Took) : Wanted(c, lt'.list, ws') /\ OfARun(c, runs)
  <2> SUFFICES ASSUME NEW c \in Range(Took) PROVE Wanted(c, lt'.list, ws') /\ OfARun(c, runs)
    OBVIOUS
  <2>1. Sensible(c) /\ Wanted(c, lt.list, ws) /\ OfARun(c, runs)
    BY <1>1 DEF Queue
  <2> QED BY <2>1, Facts, WantedOn
<1>3. CallsInv'
  BY <1>1, <1>2 DEF CallsInv
<1>4. DetailInv'
  BY Facts DEF DetailInv
<1> QED BY <1>3, <1>4

LEMMA ListTaken ==
  ASSUME RendererInv, TakeList, UNCHANGED classifyVars
  PROVE  LabelInv' /\ CallsInv' /\ DetailInv'
<1> DEFINE h == Head(calls)
<1>1. Answered("list") /\ calls' = Took /\ UNCHANGED <<ws, store, runs, throttled>>
  BY DEF TakeList, Kept, classifyVars
<1>2. /\ Sensible(h) /\ h.for.op = "list" /\ Wanted(h, lt.list, ws)
      /\ Succeeded <=> Ok(h)
      /\ throttled = 0 => DetailOK(Took, ws)
  BY <1>1, AnsweredIs DEF Asks
<1>3. ForList(h)
  BY <1>2 DEF Sensible, Says1
<1>4. lt' = IF h.for.n # lt.list.n THEN lt
            ELSE IF Succeeded THEN [lt EXCEPT !.list.st = "shown", !.list.items = Val]
            ELSE [lt EXCEPT !.list.st = "error"]
  BY DEF TakeList
<1>5. lt \in PageType /\ lt.list.items \subseteq ListItems(lt.list.section)
  BY Facts DEF PageOK
<1>6. PageOK(lt') /\ lt'.tabs = lt.tabs /\ lt'.active = lt.active
      /\ lt'.list.n = lt.list.n /\ lt'.list.section = lt.list.section
  <2>1. CASE h.for.n # lt.list.n
    BY <1>4, <2>1, Facts
  <2>2. CASE h.for.n = lt.list.n /\ Succeeded
    <3>1. h.what.section = lt.list.section
      BY <1>2, <2>2 DEF Wanted
    <3>2. PICK v \in SUBSET ListItems(lt.list.section) : h.val = <<v>>
      BY <1>2, <1>3, <2>2, <3>1 DEF ForList
    <3>3. Val = v
      BY <3>2 DEF Val
    <3>4. lt' = [lt EXCEPT !.list.st = "shown", !.list.items = v]
      BY <1>4, <2>2, <3>3
    <3>5. v \in SUBSET (Name \cup LabelId)
      BY <3>2 DEF ListItems
    <3>6. /\ lt' \in PageType /\ lt'.tabs = lt.tabs /\ lt'.active = lt.active
          /\ lt'.list.n = lt.list.n /\ lt'.list.section = lt.list.section
          /\ lt'.list.items = v
      <4> DEFINE l == [lt.list EXCEPT !.st = "shown", !.items = v]
      <4>1. l \in ListType /\ l.n = lt.list.n /\ l.section = lt.list.section /\ l.items = v
        BY <3>5, Facts DEF ListType
      <4>2. lt' = [lt EXCEPT !.list = l]
        BY <3>4
      <4> HIDE DEF l
      <4> QED BY <1>5, <4>1, <4>2 DEF PageType
    <3> QED BY <3>2, <3>6 DEF PageOK
  <2>3. CASE h.for.n = lt.list.n /\ ~Succeeded
    <3>1. lt' = [lt EXCEPT !.list.st = "error"]
      BY <1>4, <2>3
    <3>2. /\ lt' \in PageType /\ lt'.tabs = lt.tabs /\ lt'.active = lt.active
          /\ lt'.list.n = lt.list.n /\ lt'.list.section = lt.list.section
          /\ lt'.list.items = lt.list.items
      BY <1>5, <3>1 DEF PageType, ListType
    <3> QED BY <1>5, <3>2 DEF PageOK
  <2> QED BY <2>1, <2>2, <2>3
<1>7. LabelInv'
  BY <1>1, <1>6, Facts DEF LabelInv
<1>8. CallsInv' /\ DetailInv'
  BY <1>1, <1>2, <1>6, PageTook
<1> QED BY <1>7, <1>8

\* The answer to the last question is what the tab is of; before that, it
\* does not matter.
LEMMA DetailHere ==
  ASSUME NEW q, Queue(q), q # <<>>, NEW w, DetailOK(q, w), w.mode = "detail",
         q[1].for.op \in Asks, q[1].for.n = w.n, NEW q2, q2 = Tail(q)
  PROVE  /\ Pending(q2, w.n) = {} => q[1].what = w.item
         /\ \A i \in Pending(q2, w.n) :
              (\A j \in Pending(q2, w.n) : j <= i) => q2[i].what = w.item
<1>1. /\ Len(q) \in Nat \ {0} /\ DOMAIN q = 1 .. Len(q)
      /\ DOMAIN q2 = 1 .. Len(q) - 1
      /\ \A i \in 1 .. Len(q) - 1 : q2[i] = q[i + 1]
  BY Taken DEF Queue
<1> DEFINE P == Pending(q, w.n)
           P2 == Pending(q2, w.n)
<1>2. \A i \in P2 : i + 1 \in P /\ i \in Nat /\ q2[i] = q[i + 1]
  BY <1>1 DEF Pending
<1>3. \A i \in P : i \in Nat /\ i >= 1 /\ (i # 1 => i - 1 \in P2)
  <2> TAKE i \in P
  <2>1. i \in 1 .. Len(q) /\ q[i].for.op \in Asks /\ q[i].for.n = w.n
    BY <1>1 DEF Pending
  <2>2. ASSUME i # 1 PROVE i - 1 \in P2
    <3>1. i - 1 \in 1 .. Len(q) - 1 /\ i - 1 + 1 = i
      BY <1>1, <2>1, <2>2
    <3>2. q2[i - 1] = q[i]
      BY <1>1, <3>1
    <3> QED BY <1>1, <2>1, <3>1, <3>2 DEF Pending
  <2> QED BY <2>1, <2>2
<1>4. 1 \in P
  BY <1>1 DEF Pending
<1>5. \A i \in P : (\A j \in P : j <= i) => q[i].what = w.item
  BY DEF DetailOK
<1> HIDE DEF P, P2
<1>6. ASSUME P2 = {} PROVE q[1].what = w.item
  <2>1. \A j \in P : j <= 1
    BY <1>3, <1>6
  <2> QED BY <1>4, <1>5, <2>1
<1>7. ASSUME NEW i \in P2, \A j \in P2 : j <= i
      PROVE  q2[i].what = w.item
  <2>1. \A j \in P : j <= i + 1
    <3> TAKE j \in P
    <3>1. CASE j = 1
      BY <1>2, <3>1
    <3>2. CASE j # 1
      <4>1. j - 1 <= i /\ j \in Nat /\ i \in Nat
        BY <1>2, <1>3, <1>7, <3>2
      <4> QED BY <4>1
    <3> QED BY <3>1, <3>2
  <2> QED BY <1>2, <1>5, <2>1
<1> QED BY <1>6, <1>7 DEF P2

LEMMA LabelTaken ==
  ASSUME RendererInv, TakeLabel, UNCHANGED classifyVars
  PROVE  LabelInv' /\ CallsInv' /\ DetailInv'
<1> DEFINE h == Head(calls)
           for == [op |-> "policies", n |-> h.for.n]
           c == [Call("Get-SLLabelPolicy", <<>>, h.what, for) EXCEPT !.at = h.at]
<1>1. Answered("label") /\ calls' = Append(Took, c) /\ UNCHANGED <<lt, store, runs, throttled>>
  BY DEF TakeLabel, Kept, classifyVars
<1>2. /\ Sensible(h) /\ h.for.op = "label" /\ Wanted(h, lt.list, ws)
      /\ Succeeded <=> Ok(h)
      /\ Queue(Took) /\ OneScan(Took)
      /\ \A d \in Range(Took) : Wanted(d, lt.list, ws) /\ OfARun(d, runs)
      /\ h.for.n # ws.n /\ throttled = 0 => DetailOK(Took, ws)
      /\ h = calls[1] /\ calls # <<>>
  BY <1>1, AnsweredIs
<1>3. ForLabel(h) /\ h.for.n \in Nat /\ h.for.n <= ws.n /\ (h.for.n = ws.n => ws.kind = "label")
  BY <1>2 DEF Sensible, Says1, ForLabel, Wanted
<1>4. Sensible(c) /\ c.for.op = "policies" /\ c.for.n = h.for.n
  <2>1. c = Sent("Get-SLLabelPolicy", <<>>, h.what, for, h.at)
    BY DEF Call, Sent
  <2>2. for.op = "policies" /\ for.n = h.for.n
    OBVIOUS
  <2> HIDE DEF c, for
  <2>3. /\ c.cmdlet = "Get-SLLabelPolicy" /\ c.params = <<>> /\ c.for = for
        /\ ~Ok(c) /\ (Says1(c) => Sensible(c))
    BY <2>1, CallIs
  <2>4. ForPolicies(c)
    BY <1>3, <2>2, <2>3 DEF ForPolicies
  <2> QED BY <2>2, <2>3, <2>4 DEF Says1
<1> HIDE DEF c
<1>5. ws' = IF ~Mine THEN ws
            ELSE IF Succeeded THEN [ws EXCEPT !.shown = LabelShown(h.what)]
            ELSE [ws EXCEPT !.error = TRUE]
  <2>1. Succeeded => Val = h.what
    BY <1>2, <1>3 DEF ForLabel, Val
  <2>2. Succeeded => [NoPolicy EXCEPT !.name = Val] = LabelShown(h.what)
    BY <2>1 DEF LabelShown
  <2>3. ws' = IF ~Mine THEN ws
              ELSE IF Succeeded THEN [ws EXCEPT !.shown = [NoPolicy EXCEPT !.name = Val]]
              ELSE [ws EXCEPT !.error = TRUE]
    BY DEF TakeLabel
  <2> QED BY <2>2, <2>3
<1>6. Succeeded => /\ h.what \in LabelId /\ LabelShown(h.what) \in Shows
                   /\ LabelShown(h.what).name = h.what
  <2>1. Succeeded => h.what \in LabelId
    BY <1>2, <1>3 DEF ForLabel
  <2>2. h.what \in Texted => h.what \in Item
    BY DEF Item
  <2>3. NoPolicy \in Shows
    BY NoPolicyOK
  <2> QED BY <1>3, <2>1, <2>2, <2>3 DEF LabelShown, Shows, ForLabel
<1>7. /\ ws'.n = ws.n /\ ws'.kind = ws.kind /\ ws'.mode = ws.mode /\ ws'.item = ws.item
      /\ ws'.asking = ws.asking /\ ws'.deleting = ws.deleting /\ ws' \in SpaceType
      /\ \/ ws'.shown = ws.shown
         \/ ws.kind = "label" /\ h.what \in LabelId /\ ws'.shown = LabelShown(h.what)
      /\ ~Mine => ws' = ws
      /\ Mine => \/ ws'.shown.name = h.what
                 \/ ws'.error
  <2>1. ws \in SpaceType
    BY Facts DEF SpaceOK
  <2>2. Mine => ws.kind = "label"
    BY <1>3 DEF Mine
  <2> QED BY <1>5, <1>6, <2>1, <2>2 DEF SpaceType
<1>8. SpaceOK(ws')
  BY <1>7, Facts DEF SpaceOK
<1>9. LabelInv'
  BY <1>1, <1>7, <1>8, Facts DEF LabelInv, InSpace
<1>10. \A d \in Range(Took) : Wanted(d, lt.list, ws') /\ OfARun(d, runs)
  <2> SUFFICES ASSUME NEW d \in Range(Took) PROVE Wanted(d, lt.list, ws') /\ OfARun(d, runs)
    OBVIOUS
  <2>1. Sensible(d) /\ Wanted(d, lt.list, ws) /\ OfARun(d, runs)
    BY <1>2 DEF Queue
  <2> QED BY <1>7, <2>1, Facts, WantedOn
<1>11. Wanted(c, lt.list, ws')
  BY <1>3, <1>4, <1>7 DEF Wanted
<1>12. CallsInv'
  BY <1>1, <1>2, <1>4, <1>10, <1>11, OneMore DEF CallsInv
<1>13. throttled = 0 => DetailOK(calls', ws')
  <2> SUFFICES ASSUME throttled = 0 PROVE DetailOK(calls', ws')
    OBVIOUS
  <2>1. DetailOK(Took, ws')
    <3>1. CASE ~Mine
      BY <1>2, <1>7, <3>1 DEF Mine
    <3>2. CASE Mine
      <4>1. DetailOK(calls, ws) /\ Queue(calls)
        BY Facts
      <4>2. ws.mode = "detail"
        BY <1>3, <3>2, Facts, InSpaceIs, TabFacts DEF Mine
      <4>3. h.for.op \in Asks
        BY <1>2 DEF Asks
      <4>4. /\ Pending(Took, ws.n) = {} => h.what = ws.item
            /\ \A i \in Pending(Took, ws.n) :
                 (\A j \in Pending(Took, ws.n) : j <= i) => Took[i].what = ws.item
        BY <1>2, <3>2, <4>1, <4>2, <4>3, DetailHere DEF Took, Mine
      <4> QED BY <1>7, <3>2, <4>4 DEF DetailOK
    <3> QED BY <3>1, <3>2
  <2>2. c.for.op \notin Asks
    BY <1>4 DEF Asks
  <2> QED BY <1>1, <1>2, <2>1, <2>2, DetailElse
<1>14. DetailInv'
  BY <1>1, <1>13, Facts DEF DetailInv
<1> QED BY <1>9, <1>12, <1>14

LEMMA PoliciesTaken ==
  ASSUME RendererInv, TakePolicies, UNCHANGED classifyVars
  PROVE  LabelInv' /\ CallsInv' /\ DetailInv'
<1> DEFINE h == Head(calls)
           ps == IF Succeeded THEN Val ELSE ws.policies
<1>1. Answered("policies") /\ calls' = Took /\ UNCHANGED <<lt, store, runs, throttled>>
  BY DEF TakePolicies, Kept, classifyVars
<1>2. /\ Sensible(h) /\ h.for.op = "policies" /\ Wanted(h, lt.list, ws)
      /\ Succeeded <=> Ok(h)
      /\ throttled = 0 => DetailOK(Took, ws)
  BY <1>1, AnsweredIs DEF Asks
<1>3. ForPolicies(h) /\ (Mine => ws.kind = "label")
  BY <1>2 DEF Sensible, Says1, Wanted, Mine
<1>4. ws \in SpaceType
  BY Facts DEF SpaceOK
<1>5. ps \in SUBSET Name
  <2>1. CASE Succeeded
    <3>1. PICK v \in SUBSET Name : h.val = <<v>>
      BY <1>2, <1>3, <2>1 DEF ForPolicies
    <3>2. Val = v
      BY <3>1 DEF Val
    <3> QED BY <2>1, <3>2
  <2>2. CASE ~Succeeded
    BY <1>4, <2>2 DEF SpaceType
  <2> QED BY <2>1, <2>2
<1>6. ws' = IF Mine THEN [ws EXCEPT !.policies = ps, !.loading = FALSE] ELSE ws
  BY DEF TakePolicies
<1> HIDE DEF ps
<1>7. /\ ws'.n = ws.n /\ ws'.kind = ws.kind /\ ws'.mode = ws.mode /\ ws'.item = ws.item
      /\ ws'.asking = ws.asking /\ ws'.deleting = ws.deleting /\ ws'.shown = ws.shown
      /\ ws' \in SpaceType /\ ws'.error = ws.error
  BY <1>3, <1>4, <1>5, <1>6 DEF SpaceType
<1>8. SpaceOK(ws')
  BY <1>7, Facts DEF SpaceOK
<1>9. LabelInv'
  BY <1>1, <1>7, <1>8, Facts DEF LabelInv, InSpace
<1>10. throttled = 0 => DetailOK(Took, ws')
  BY <1>2, <1>7 DEF DetailOK
<1>11. CallsInv' /\ DetailInv'
  BY <1>1, <1>7, <1>10, PageTook
<1> QED BY <1>9, <1>11

\* What a detail or a form is answered.
LEMMA PolicyAnswered ==
  ASSUME NEW h, Sensible(h), h.for.op \in {"detail", "edit"}, Ok(h)
  PROVE  h.val[1] \in Policy /\ h.val[1].name = h.what
<1>1. ForPolicy(h)
  BY DEF Sensible, Says1
<1>2. PICK p \in Policy : h.val = <<p>> /\ p.name = h.what
  BY <1>1 DEF ForPolicy
<1>3. h.val[1] = p
  BY <1>2
<1> QED BY <1>2, <1>3

LEMMA PolicyIs ==
  ASSUME NEW p \in Policy \cup {NoPolicy}
  PROVE  p \in Shows /\ p \in Form /\ p.name \in Item
<1>1. CASE p \in Policy
  BY <1>1 DEF Policy, Shows, Form, Item
<1>2. CASE p = NoPolicy
  <2>1. NoPolicy.name = ""
    BY DEF NoPolicy
  <2> QED BY <1>2, <2>1, NoPolicyOK
<1> QED BY <1>1, <1>2

LEMMA DetailTakenHere ==
  ASSUME RendererInv, TakeDetail, UNCHANGED classifyVars
  PROVE  LabelInv' /\ CallsInv' /\ DetailInv'
<1> DEFINE h == Head(calls)
<1>1. Answered("detail") /\ calls' = Took /\ UNCHANGED <<lt, store, runs, throttled>>
  BY DEF TakeDetail, Kept, classifyVars
<1>2. /\ Sensible(h) /\ h.for.op = "detail" /\ Wanted(h, lt.list, ws) /\ h = calls[1]
      /\ calls # <<>>
      /\ Succeeded <=> Ok(h)
      /\ h.for.n # ws.n /\ throttled = 0 => DetailOK(Took, ws)
      /\ h.for.op \in Asks
  BY <1>1, AnsweredIs DEF Asks
<1>3. Mine => ws.kind # "label" /\ ws.mode = "detail"
  BY <1>2 DEF Mine, Wanted
<1>4. ws \in SpaceType
  BY Facts DEF SpaceOK
<1>5. Succeeded => Val \in Policy /\ Val.name = h.what
  BY <1>2, PolicyAnswered DEF Val
<1>6. ws' = IF ~Mine THEN ws
            ELSE IF Succeeded THEN [ws EXCEPT !.shown = Val, !.loading = FALSE]
            ELSE [ws EXCEPT !.error = TRUE, !.loading = FALSE]
  BY DEF TakeDetail
<1>7. Succeeded => Val \in Shows
  BY <1>5, PolicyIs
<1>8. /\ ws'.n = ws.n /\ ws'.kind = ws.kind /\ ws'.mode = ws.mode /\ ws'.item = ws.item
      /\ ws'.asking = ws.asking /\ ws'.deleting = ws.deleting
      /\ ws' \in SpaceType
      /\ ~Mine => ws' = ws
      /\ Mine => IF Succeeded THEN ws'.shown = Val ELSE ws'.shown = ws.shown /\ ws'.error
  BY <1>4, <1>6, <1>7 DEF SpaceType
<1>9. SpaceOK(ws')
  BY <1>3, <1>5, <1>8, Facts DEF SpaceOK
<1>10. LabelInv'
  BY <1>1, <1>8, <1>9, Facts DEF LabelInv, InSpace
<1>11. ASSUME throttled = 0 PROVE DetailOK(Took, ws')
  <2>1. CASE ~Mine
    BY <1>2, <1>8, <1>11, <2>1 DEF Mine
  <2>2. CASE Mine
    <3>1. DetailOK(calls, ws) /\ Queue(calls)
      BY <1>11, Facts
    <3>2. /\ Pending(Took, ws.n) = {} => h.what = ws.item
          /\ \A i \in Pending(Took, ws.n) :
               (\A j \in Pending(Took, ws.n) : j <= i) => Took[i].what = ws.item
      BY <1>2, <1>3, <2>2, <3>1, DetailHere DEF Took, Mine
    <3> QED BY <1>5, <1>8, <2>2, <3>2 DEF DetailOK
  <2> QED BY <2>1, <2>2
<1>12. CallsInv' /\ DetailInv'
  BY <1>1, <1>8, <1>11, PageTook
<1> QED BY <1>10, <1>12

LEMMA EditTaken ==
  ASSUME RendererInv, TakeEdit, UNCHANGED classifyVars
  PROVE  LabelInv' /\ CallsInv' /\ DetailInv'
<1> DEFINE h == Head(calls)
           p == IF Succeeded THEN Val ELSE ws.shown
<1>1. Answered("edit") /\ calls' = Took /\ UNCHANGED <<lt, store, runs, throttled>>
  BY DEF TakeEdit, Kept, classifyVars
<1>2. /\ Sensible(h) /\ h.for.op = "edit" /\ Wanted(h, lt.list, ws)
      /\ Succeeded <=> Ok(h)
      /\ throttled = 0 => DetailOK(Took, ws)
  BY <1>1, AnsweredIs DEF Asks
<1>3. Mine => ws.kind # "label" /\ ws.mode = "edit"
  BY <1>2 DEF Mine, Wanted
<1>4. ws \in SpaceType
  BY Facts DEF SpaceOK
<1>5. Mine => p \in Policy \cup {NoPolicy}
  BY <1>2, <1>3, PolicyAnswered, Facts DEF Val, SpaceOK
<1>6. ws' = LET w == [ws EXCEPT !.shown = p, !.loading = FALSE]
            IN  IF ~Mine THEN ws
                ELSE IF ws.loading THEN [w EXCEPT !.form = w.shown, !.from = w.shown.name]
                ELSE w
  BY DEF TakeEdit
<1> HIDE DEF p
<1>7. ws' = IF ~Mine THEN ws
            ELSE IF ws.loading THEN [ws EXCEPT !.shown = p, !.loading = FALSE, !.form = p,
                                               !.from = p.name]
            ELSE [ws EXCEPT !.shown = p, !.loading = FALSE]
  BY <1>4, <1>6 DEF SpaceType
<1>8. Mine => p \in Shows /\ p \in Form /\ p.name \in Item
  BY <1>5, PolicyIs
<1>9. /\ ws'.n = ws.n /\ ws'.kind = ws.kind /\ ws'.mode = ws.mode /\ ws'.item = ws.item
      /\ ws'.asking = ws.asking /\ ws'.deleting = ws.deleting
      /\ ws' \in SpaceType
      /\ ~Mine => ws' = ws
      /\ Mine => ws'.shown = p
  BY <1>4, <1>7, <1>8 DEF SpaceType
<1>10. SpaceOK(ws')
  BY <1>3, <1>5, <1>9, Facts DEF SpaceOK
<1>11. LabelInv'
  BY <1>1, <1>9, <1>10, Facts DEF LabelInv, InSpace
<1>12. throttled = 0 => DetailOK(Took, ws')
  <2>1. CASE ~Mine
    BY <1>2, <1>9, <2>1
  <2>2. CASE Mine
    <3>1. ws'.mode = "edit"
      BY <1>3, <1>9, <2>2
    <3> QED BY <3>1, DetailNone
  <2> QED BY <2>1, <2>2
<1>13. CallsInv' /\ DetailInv'
  BY <1>1, <1>9, <1>12, PageTook
<1> QED BY <1>11, <1>13

\* A form that has been answered, before its tab goes.
LEMMA FormDone ==
  ASSUME RendererInv, NEW op \in {"save", "delete"}, Answered(op), NEW w,
         IF Mine THEN /\ w \in SpaceType /\ w.n = ws.n /\ w.kind = ws.kind /\ w.mode = ws.mode
                      /\ w.item = ws.item /\ w.shown = ws.shown
                 ELSE w = ws
  PROVE  /\ SpaceOK(w) /\ InSpace(w, lt.active) /\ w.n = ws.n /\ w.kind = ws.kind
         /\ w.mode = ws.mode
         /\ Queue(Took) /\ OneScan(Took)
         /\ \A c \in Range(Took) : Wanted(c, lt.list, w) /\ OfARun(c, runs)
         /\ throttled = 0 => DetailOK(Took, w)
<1> DEFINE h == Head(calls)
<1>1. /\ h.for.op = op /\ Wanted(h, lt.list, ws)
      /\ Queue(Took) /\ OneScan(Took)
      /\ \A c \in Range(Took) : Wanted(c, lt.list, ws) /\ OfARun(c, runs)
      /\ throttled = 0 => DetailOK(Took, ws)
  BY AnsweredIs DEF Asks
<1>2. Mine => ws.mode \in {"new", "edit"}
  BY <1>1 DEF Mine, Wanted
<1>3. w.n = ws.n /\ w.kind = ws.kind /\ w.mode = ws.mode /\ w.item = ws.item
  OBVIOUS
<1>4. SpaceOK(w)
  BY <1>2, <1>3, Facts DEF SpaceOK
<1>5. InSpace(w, lt.active)
  BY <1>3, Facts DEF InSpace
<1>6. \A c \in Range(Took) : Wanted(c, lt.list, w) /\ OfARun(c, runs)
  <2> SUFFICES ASSUME NEW c \in Range(Took) PROVE Wanted(c, lt.list, w) /\ OfARun(c, runs)
    OBVIOUS
  <2>1. Sensible(c) /\ Wanted(c, lt.list, ws) /\ OfARun(c, runs)
    BY <1>1 DEF Queue
  <2> QED BY <1>3, <2>1, Facts, WantedOn
<1>7. throttled = 0 => DetailOK(Took, w)
  <2>1. CASE ~Mine
    BY <1>1, <2>1
  <2>2. CASE Mine
    <3>1. w.mode # "detail"
      BY <1>2, <1>3, <2>2
    <3> QED BY <3>1, DetailNone
  <2> QED BY <2>1, <2>2
<1> QED BY <1>1, <1>3, <1>4, <1>5, <1>6, <1>7

LEMMA SaveTaken ==
  ASSUME RendererInv, TakeSave, UNCHANGED classifyVars
  PROVE  LabelInv' /\ CallsInv' /\ DetailInv'
<1> DEFINE h == Head(calls)
           w == IF Mine THEN [ws EXCEPT !.saving = FALSE, !.error = ~Succeeded] ELSE ws
           tab == h.for.tab
           name == h.for.name
<1>1. Answered("save") /\ UNCHANGED <<store, runs, throttled>>
  BY DEF TakeSave, Kept, classifyVars
<1>2. \/ Saved(w, tab, name, Took)
      \/ ws' = w /\ calls' = Took /\ UNCHANGED lt
  BY DEF TakeSave
<1>3. tab \in FormTab /\ name \in Name
  <2>1. Sensible(h) /\ h.for.op = "save"
    BY <1>1, AnsweredIs
  <2> QED BY <2>1 DEF Sensible, Says1, ForSave
<1>4. IF Mine THEN /\ w \in SpaceType /\ w.n = ws.n /\ w.kind = ws.kind /\ w.mode = ws.mode
                   /\ w.item = ws.item /\ w.shown = ws.shown
              ELSE w = ws
  <2>1. ws \in SpaceType /\ Succeeded \in BOOLEAN
    BY Facts DEF SpaceOK, Succeeded
  <2> QED BY <2>1 DEF SpaceType
<1> HIDE DEF w, tab, name
<1>5. /\ SpaceOK(w) /\ InSpace(w, lt.active) /\ w.n = ws.n /\ w.kind = ws.kind
      /\ w.mode = ws.mode
      /\ Queue(Took) /\ OneScan(Took)
      /\ \A c \in Range(Took) : Wanted(c, lt.list, w) /\ OfARun(c, runs)
      /\ throttled = 0 => DetailOK(Took, w)
  BY <1>1, <1>4, FormDone
<1>6. CASE Saved(w, tab, name, Took)
  <2> DEFINE c == Closed(lt.tabs, lt.active, tab)
             detail == [kind |-> tab.kind, mode |-> "detail", item |-> name]
             t == Opened(c.tabs, detail)
  <2>1. PICK last \in {detail, c.active} : Turn(w, t, last, lt.forms, Took)
    BY <1>6 DEF Saved
  <2>2. tab \in AnyTab /\ tab.kind \in PolicyKind
    BY <1>3, TabFacts
  <2>3. detail \in AnyTab
    BY <1>3, <2>2 DEF AnyTab
  <2>4. /\ c.tabs \in Seq(AnyTab) /\ c.active \in AnyTab \cup {NoTab}
        /\ TabsOK(c.tabs, c.active)
    BY <2>2, Facts, ClosedOK
  <2> HIDE DEF c, detail
  <2>5. /\ t \in Seq(AnyTab) /\ IsInjective(t) /\ Contains(t, detail)
        /\ \A x : Contains(c.tabs, x) => Contains(t, x)
    BY <2>3, <2>4, OpenedOK DEF TabsOK
  <2> HIDE DEF t
  <2>6. last \in AnyTab \cup {NoTab} /\ TabsOK(t, last)
    BY <2>1, <2>3, <2>4, <2>5 DEF TabsOK
  <2> QED BY <1>1, <1>5, <2>1, <2>5, <2>6, Facts, Turned
<1>7. CASE ws' = w /\ calls' = Took /\ UNCHANGED lt
  <2>1. LabelInv'
    BY <1>1, <1>5, <1>7, Facts DEF LabelInv
  <2>2. CallsInv' /\ DetailInv'
    BY <1>1, <1>5, <1>7, PageTook
  <2> QED BY <2>1, <2>2
<1> QED BY <1>2, <1>6, <1>7

LEMMA DeleteTaken ==
  ASSUME RendererInv, TakeDelete, UNCHANGED classifyVars
  PROVE  LabelInv' /\ CallsInv' /\ DetailInv'
<1> DEFINE h == Head(calls)
           w == IF Mine THEN [ws EXCEPT !.deleting = FALSE, !.asking = FALSE, !.error = ~Succeeded]
                        ELSE ws
           tab == h.for.tab
<1>1. Answered("delete") /\ UNCHANGED <<store, runs, throttled>>
  BY DEF TakeDelete, Kept, classifyVars
<1>2. \/ CloseTab(w, tab, Took)
      \/ ws' = w /\ calls' = Took /\ UNCHANGED lt
  BY DEF TakeDelete
<1>3. tab \in AnyTab
  <2>1. Sensible(h) /\ h.for.op = "delete"
    BY <1>1, AnsweredIs
  <2> QED BY <2>1, TabFacts DEF Sensible, Says1, ForDelete
<1>4. IF Mine THEN /\ w \in SpaceType /\ w.n = ws.n /\ w.kind = ws.kind /\ w.mode = ws.mode
                   /\ w.item = ws.item /\ w.shown = ws.shown
              ELSE w = ws
  <2>1. ws \in SpaceType /\ Succeeded \in BOOLEAN
    BY Facts DEF SpaceOK, Succeeded
  <2> QED BY <2>1 DEF SpaceType
<1> HIDE DEF w, tab
<1>5. /\ SpaceOK(w) /\ InSpace(w, lt.active) /\ w.n = ws.n /\ w.kind = ws.kind
      /\ w.mode = ws.mode
      /\ Queue(Took) /\ OneScan(Took)
      /\ \A c \in Range(Took) : Wanted(c, lt.list, w) /\ OfARun(c, runs)
      /\ throttled = 0 => DetailOK(Took, w)
  BY <1>1, <1>4, FormDone
<1>6. CASE CloseTab(w, tab, Took)
  BY <1>1, <1>3, <1>5, <1>6, TabClosed
<1>7. CASE ws' = w /\ calls' = Took /\ UNCHANGED lt
  <2>1. LabelInv'
    BY <1>1, <1>5, <1>7, Facts DEF LabelInv
  <2>2. CallsInv' /\ DetailInv'
    BY <1>1, <1>5, <1>7, PageTook
  <2> QED BY <2>1, <2>2
<1> QED BY <1>2, <1>6, <1>7

LEMMA LabelsRan ==
  ASSUME RendererInv, LabelsRuns, UNCHANGED classifyVars
  PROVE  RendererInv'
<1>1. CASE RunGet \/ RunSave \/ RunRemove
  BY <1>1, Got, PolicySaved, PolicyRemoved
<1>2. CASE \/ TakeList \/ TakeLabel \/ TakePolicies \/ TakeDetail \/ TakeEdit \/ TakeSave
           \/ TakeDelete
  <2>1. LabelInv' /\ CallsInv' /\ DetailInv'
    BY <1>2, ListTaken, LabelTaken, PoliciesTaken, DetailTakenHere, EditTaken, SaveTaken,
       DeleteTaken
  <2>2. UNCHANGED <<mount, clicks>>
    BY <1>2 DEF TakeList, TakeLabel, TakePolicies, TakeDetail, TakeEdit, TakeSave, TakeDelete, Kept
  <2>3. ClassifyInv' /\ RunsDoAsAsked'
    BY <2>2 DEF RendererInv, ClassifyInv, RunsDoAsAsked, classifyVars
  <2> QED BY <2>1, <2>3 DEF RendererInv
<1> QED BY <1>1, <1>2 DEF LabelsRuns

-----------------------------------------------------------------------------
(* What the user does on the Classify & Label page.                        *)

LEMMA ClassifyFacts ==
  ASSUME RendererInv
  PROVE  /\ mount \in Nat /\ clicks \in Nat
         /\ cp \in ClassType /\ wiz \in WizardType /\ main \in MainType
         /\ RunsOK(runs, main.started, mount) /\ JobOK(main.job, runs)
         /\ OneRun(runs, cp.running, mount)
         /\ cp.policies \in Seq(GoodPolicy) /\ main.saved \in Seq(GoodPolicy)
         /\ main.started \in Nat /\ main.ids \in Nat
         /\ wiz.draft \in GoodPolicy
         /\ \A p \in Policies : p \in GoodPolicy /\ p.id \in Nat
<1>1. /\ mount \in Nat /\ clicks \in Nat
      /\ cp \in ClassType /\ wiz \in WizardType /\ main \in MainType
      /\ RunsOK(runs, main.started, mount) /\ JobOK(main.job, runs)
      /\ OneRun(runs, cp.running, mount)
  BY DEF RendererInv, ClassifyInv
<1>2. /\ cp.policies \in Seq(GoodPolicy) /\ main.saved \in Seq(GoodPolicy)
      /\ main.started \in Nat /\ main.ids \in Nat
      /\ wiz.draft \in GoodPolicy
  BY <1>1 DEF ClassType, MainType, WizardType
<1>3. \A p \in Policies : p \in GoodPolicy
  BY <1>2, ElementOfSeq DEF Policies, Range
<1>4. \A p \in GoodPolicy : p.id \in Nat
  BY DEF GoodPolicy, ClassPolicy
<1> QED BY <1>1, <1>2, <1>3, <1>4

\* Nobody asks anything, and the runs that scan go on scanning.
LEMMA CallsStay ==
  ASSUME RendererInv, UNCHANGED <<calls, throttled>>, UNCHANGED labelVars,
         \A k \in DOMAIN runs : runs[k].pc = "scanning" =>
           k \in DOMAIN runs' /\ runs'[k].pc = "scanning"
  PROVE  LabelInv' /\ CallsInv' /\ DetailInv'
<1>1. LabelInv' /\ DetailInv'
  BY DEF RendererInv, LabelInv, DetailInv, labelVars
<1>2. CallsInv'
  BY Facts DEF CallsInv, OfARun, labelVars
<1> QED BY <1>1, <1>2

\* The page, the wizard and the preferences change; the runs do not.
LEMMA OnlyThePage ==
  ASSUME RendererInv, cp' \in ClassType, wiz' \in WizardType, main' \in MainType,
         cp'.running = cp.running, main'.job = main.job, main'.started = main.started,
         clicks' \in Nat, UNCHANGED <<runs, mount>>
  PROVE  ClassifyInv'
BY ClassifyFacts DEF ClassifyInv

\* The n-th run has begun after those there are.
WithRun(rs, n, r) == [k \in {n} |-> r] ++ rs

LEMMA RunAdded ==
  ASSUME NEW rs, NEW n \in Nat, NEW m \in Nat, NEW k1, k1 = n + 1, RunsOK(rs, n, m),
         NEW r, RunOK(r), r.at = m,
         NEW rs2, rs2 = WithRun(rs, k1, r)
  PROVE  /\ RunsOK(rs2, k1, m)
         /\ \A k : k \in DOMAIN rs2 <=> k \in DOMAIN rs \/ k = k1
         /\ k1 \notin DOMAIN rs
         /\ rs2[k1] = r
         /\ \A k \in DOMAIN rs : rs2[k] = rs[k]
<1> DEFINE f == [k \in {k1} |-> r]
<1>1. /\ \A k : k \in DOMAIN f <=> k = k1
      /\ f[k1] = r
  OBVIOUS
<1>2. \A k \in DOMAIN rs : k \in 1 .. n
  BY DEF RunsOK
<1>3. k1 \notin DOMAIN rs
  BY <1>2
<1> HIDE DEF f
<1>4. rs2 = f ++ rs
  BY DEF f, WithRun
<1>5. /\ \A k : k \in DOMAIN rs2 <=> k \in DOMAIN rs \/ k = k1
      /\ rs2[k1] = r
      /\ \A k \in DOMAIN rs : rs2[k] = rs[k]
  <2>1. \A k : k \in DOMAIN rs2 <=> k \in DOMAIN f \/ k \in DOMAIN rs
    BY <1>4, Merged
  <2>2. rs2[k1] = f[k1]
    BY <1>1, <1>4, Merged
  <2>3. \A k \in DOMAIN rs : k \notin DOMAIN f
    BY <1>1, <1>3
  <2>4. \A k \in DOMAIN rs : rs2[k] = rs[k]
    BY <1>4, <2>3, Merged
  <2> QED BY <1>1, <2>1, <2>2, <2>4
<1>6. \A k \in 1 .. n : k \in 1 .. k1
  OBVIOUS
<1>7. k1 \in 1 .. k1
  OBVIOUS
<1>8. RunsOK(rs2, k1, m)
  BY <1>2, <1>5, <1>6, <1>7 DEF RunsOK
<1> QED BY <1>3, <1>5, <1>8

\* What job:start is told.
LEMMA ConfigIs ==
  ASSUME NEW p \in GoodPolicy, NEW dry \in BOOLEAN, NEW c, c = JobConfig(p, dry)
  PROVE  /\ c \in ConfigType /\ "dry_run" \in DOMAIN c /\ c.dry_run = dry
         /\ c.site_ids = p.sites /\ c.target_label_id = p.label
         /\ c.entity_types = p.entities
<1>1. /\ p.sites \in Seq(Site) /\ p.label \in LabelId \cup {None}
      /\ p.entities \in SUBSET Entities
  BY DEF GoodPolicy, ClassPolicy
<1> QED BY <1>1 DEF JobConfig, ConfigType

\* A run begins when the page says that none is running, so there is none.
LEMMA RunStarted ==
  ASSUME RendererInv, NEW id \in Nat, NEW dry \in BOOLEAN, RunPolicy(id, dry),
         UNCHANGED <<mount, wiz>>, clicks' \in Nat
  PROVE  /\ ClassifyInv'
         /\ \A k \in DOMAIN runs : k \in DOMAIN runs' /\ runs'[k] = runs[k]
<1>1. CASE UNCHANGED <<cp, runs, main>>
  BY <1>1, ClassifyFacts, OnlyThePage
<1>2. CASE PolicyOf(id) # {} /\ cp.running = None /\ Started(id, dry)
  <2> DEFINE p == CHOOSE q \in PolicyOf(id) : TRUE
             r == [pc |-> "starting", at |-> mount, dry |-> dry, base |-> cp.policies,
                   policy |-> p, left |-> <<>>, sent |-> JobConfig(p, dry),
                   frees |-> FALSE]
             n == main.started
             k1 == n + 1
  <2>1. p \in Policies /\ p.id = id /\ p \in GoodPolicy
    <3>1. p \in PolicyOf(id)
      BY <1>2
    <3> QED BY <3>1, ClassifyFacts DEF PolicyOf
  <2>2. /\ cp' = [cp EXCEPT !.running = id, !.confirm = None]
        /\ main' = [main EXCEPT !.started = k1]
        /\ runs' = [k \in {k1} |-> r] ++ runs
    BY <1>2 DEF Started
  <2> HIDE DEF p
  <2>3. RunOK(r) /\ r.at = mount /\ r.policy.id = id
    <3> DEFINE sent == JobConfig(p, dry)
    <3>1. /\ r.at = mount /\ r.policy = p /\ r.left = <<>> /\ r.pc = "starting"
          /\ r.sent = JobConfig(r.policy, r.dry)
      OBVIOUS
    <3>2. r \in RunType
      <4>1. sent \in ConfigType
        BY <2>1, ConfigIs
      <4> HIDE DEF sent
      <4>2. r = [pc |-> "starting", at |-> mount, dry |-> dry, base |-> cp.policies,
                 policy |-> p, left |-> <<>>, sent |-> sent, frees |-> FALSE]
        BY DEF sent
      <4> QED BY <2>1, <4>1, <4>2, ClassifyFacts DEF RunType
    <3> HIDE DEF r
    <3> QED BY <2>1, <3>1, <3>2 DEF RunOK
  <2> HIDE DEF r
  <2>4. /\ n \in Nat /\ mount \in Nat /\ RunsOK(runs, n, mount)
        /\ k1 = n + 1 /\ k1 \in Nat
    BY ClassifyFacts
  <2> HIDE DEF k1, n
  <2>5. runs' = WithRun(runs, k1, r)
    BY <2>2 DEF WithRun
  <2>6. /\ RunsOK(runs', k1, mount)
        /\ \A k : k \in DOMAIN runs' <=> k \in DOMAIN runs \/ k = k1
        /\ k1 \notin DOMAIN runs
        /\ runs'[k1] = r
        /\ \A k \in DOMAIN runs : runs'[k] = runs[k]
    BY ONLY <2>3, <2>4, <2>5, RunAdded
  <2>7. cp' \in ClassType /\ cp'.running = id
    BY <2>2, ClassifyFacts DEF ClassType
  <2>8. main' \in MainType /\ main'.started = k1 /\ main'.job = main.job
    BY <2>2, <2>4, ClassifyFacts DEF MainType
  <2>9. JobOK(main'.job, runs')
    BY <2>6, <2>8, ClassifyFacts DEF JobOK
  <2>10. \A k \in DOMAIN runs : runs[k].at # mount
    <3> SUFFICES ASSUME NEW k \in DOMAIN runs, runs[k].at = mount PROVE FALSE
      OBVIOUS
    <3>1. cp.running = runs[k].policy.id
      BY ClassifyFacts DEF OneRun
    <3>2. runs[k].policy.id \in Nat
      BY ClassifyFacts DEF RunsOK, RunOK, RunType, GoodPolicy, ClassPolicy
    <3> QED BY <1>2, <3>1, <3>2, ClassifyAssumption
  <2>11. OneRun(runs', cp'.running, mount)
    <3> SUFFICES ASSUME NEW k \in DOMAIN runs', runs'[k].at = mount
                 PROVE  /\ cp'.running = runs'[k].policy.id
                        /\ \A l \in DOMAIN runs' : runs'[l].at = mount => l = k
      BY DEF OneRun
    <3>1. \A l \in DOMAIN runs' : runs'[l].at = mount => l = k1
      BY <2>6, <2>10
    <3> QED BY <2>3, <2>6, <2>7, <3>1
  <2>12. ClassifyInv'
    BY <2>4, <2>6, <2>7, <2>8, <2>9, <2>11, ClassifyFacts DEF ClassifyInv
  <2> QED BY <2>6, <2>12
<1> QED BY <1>1, <1>2 DEF RunPolicy

LEMMA RunsClicked ==
  ASSUME RendererInv, ClickRun \/ AnswerRunDialog \/ ScheduleTick \/ ToggleDryRun,
         UNCHANGED labelVars
  PROVE  RendererInv'
<1>1. /\ clicks' = clicks + 1 /\ UNCHANGED <<mount, throttled, wiz, did, calls>>
  BY DEF ClickRun, AnswerRunDialog, ScheduleTick, ToggleDryRun, OnClassify, Click
<1>2. clicks' \in Nat
  BY <1>1, ClassifyFacts
<1>3. \/ \E id \in Nat, dry \in BOOLEAN : RunPolicy(id, dry)
      \/ /\ UNCHANGED <<runs, main>>
         /\ \/ \E c \in Nat \cup {None} : cp' = [cp EXCEPT !.confirm = c]
            \/ cp' = [cp EXCEPT !.dry = ~cp.dry]
  <2>1. CASE ClickRun
    BY <2>1, ClassifyFacts DEF ClickRun
  <2>2. CASE AnswerRunDialog
    <3>1. cp.confirm \in Nat
      BY <2>2, ClassifyFacts DEF AnswerRunDialog, ClassType
    <3> QED BY <2>2, <3>1 DEF AnswerRunDialog
  <2>3. CASE ScheduleTick
    BY <2>3, ClassifyFacts DEF ScheduleTick
  <2>4. CASE ToggleDryRun
    BY <2>4 DEF ToggleDryRun
  <2> QED BY <2>1, <2>2, <2>3, <2>4
<1>4. /\ ClassifyInv'
      /\ \A k \in DOMAIN runs : k \in DOMAIN runs' /\ runs'[k] = runs[k]
  <2>1. CASE \E id \in Nat, dry \in BOOLEAN : RunPolicy(id, dry)
    BY <1>1, <1>2, <2>1, RunStarted
  <2>2. CASE /\ UNCHANGED <<runs, main>>
             /\ \/ \E c \in Nat \cup {None} : cp' = [cp EXCEPT !.confirm = c]
                \/ cp' = [cp EXCEPT !.dry = ~cp.dry]
    <3>1. cp' \in ClassType /\ cp'.running = cp.running
      BY <2>2, ClassifyFacts DEF ClassType
    <3> QED BY <1>1, <1>2, <2>2, <3>1, ClassifyFacts, OnlyThePage
  <2> QED BY <1>3, <2>1, <2>2
<1>5. LabelInv' /\ CallsInv' /\ DetailInv'
  BY <1>1, <1>4, CallsStay
<1>6. RunsDoAsAsked'
  BY <1>1 DEF RendererInv, RunsDoAsAsked
<1> QED BY <1>4, <1>5, <1>6 DEF RendererInv

LEMMA DraftOK ==
  ASSUME NEW d \in GoodPolicy
  PROVE  /\ [d EXCEPT !.enabled = ~d.enabled] \in GoodPolicy
         /\ \A b \in BOOLEAN : [d EXCEPT !.named = b] \in GoodPolicy
         /\ \A e \in Entities : [d EXCEPT !.entities = SymDiff(d.entities, {e})] \in GoodPolicy
         /\ \A l \in LabelId : [d EXCEPT !.label = l] \in GoodPolicy
         /\ [d EXCEPT !.extensions = ~d.extensions] \in GoodPolicy
         /\ [d EXCEPT !.skip = ~d.skip] \in GoodPolicy
         /\ \A f \in Frequency : [d EXCEPT !.schedule = f] \in GoodPolicy
<1>1. d \in ClassPolicy /\ Len(d.names) = Len(d.sites)
  BY DEF GoodPolicy
<1>2. [d EXCEPT !.enabled = ~d.enabled] \in GoodPolicy
  BY <1>1 DEF GoodPolicy, ClassPolicy
<1>3. \A b \in BOOLEAN : [d EXCEPT !.named = b] \in GoodPolicy
  BY <1>1 DEF GoodPolicy, ClassPolicy
<1>4. ASSUME NEW e \in Entities
      PROVE  [d EXCEPT !.entities = SymDiff(d.entities, {e})] \in GoodPolicy
  <2> DEFINE E == SymDiff(d.entities, {e})
  <2>1. E \subseteq Entities
    BY <1>1 DEF SymDiff, ClassPolicy
  <2> HIDE DEF E
  <2>2. [d EXCEPT !.entities = E] \in GoodPolicy
    BY <1>1, <2>1 DEF GoodPolicy, ClassPolicy
  <2> QED BY <2>2 DEF E
<1>5. \A l \in LabelId : [d EXCEPT !.label = l] \in GoodPolicy
  BY <1>1 DEF GoodPolicy, ClassPolicy
<1>6. [d EXCEPT !.extensions = ~d.extensions] \in GoodPolicy
  BY <1>1 DEF GoodPolicy, ClassPolicy
<1>7. [d EXCEPT !.skip = ~d.skip] \in GoodPolicy
  BY <1>1 DEF GoodPolicy, ClassPolicy
<1>8. \A f \in Frequency : [d EXCEPT !.schedule = f] \in GoodPolicy
  BY <1>1 DEF GoodPolicy, ClassPolicy
<1> QED BY <1>2, <1>3, <1>4, <1>5, <1>6, <1>7, <1>8

LEMMA BlankPolicyOK ==
  ASSUME NEW id \in Nat
  PROVE  createBlankPolicy(id) \in GoodPolicy
<1> DEFINE p == createBlankPolicy(id)
<1>1. /\ p.names = <<>> /\ p.sites = <<>>
  BY DEF createBlankPolicy
<1>2. p \in ClassPolicy
  <2>1. <<>> \in Seq(Site) /\ <<>> \in Seq(Range(SiteNamed))
    OBVIOUS
  <2> QED BY <2>1 DEF createBlankPolicy, ClassPolicy, Frequency
<1> HIDE DEF p
<1>3. p \in GoodPolicy
  BY <1>1, <1>2 DEF GoodPolicy
<1> QED BY <1>3 DEF p

LEMMA NoWizardOK == NoWizard \in WizardType
<1>1. createBlankPolicy(0) \in GoodPolicy
  BY BlankPolicyOK
<1> DEFINE p == createBlankPolicy(0)
<1>2. NoWizard = [open |-> FALSE, n |-> 0, step |-> 1, draft |-> p, labels |-> FALSE,
                  sites |-> FALSE]
  BY DEF NoWizard
<1> HIDE DEF p
<1>3. p \in GoodPolicy
  BY <1>1 DEF p
<1> QED BY <1>2, <1>3 DEF WizardType

LEMMA ChangedOK ==
  ASSUME NEW s \in Seq(GoodPolicy), NEW p \in GoodPolicy
  PROVE  Changed(s, p) \in Seq(GoodPolicy)
<1> DEFINE n == Len(s)
           t == [i \in 1 .. n |-> IF s[i].id = p.id THEN p ELSE s[i]]
<1>1. n \in Nat /\ DOMAIN s = 1 .. n /\ \A i \in 1 .. n : s[i] \in GoodPolicy
  BY ElementOfSeq
<1>2. Changed(s, p) = t
  BY <1>1 DEF Changed
<1> HIDE DEF n
<1>3. t \in [1 .. n -> GoodPolicy]
  BY <1>1
<1> HIDE DEF t
<1>4. t \in Seq(GoodPolicy)
  BY ONLY <1>1, <1>3
<1> QED BY <1>2, <1>4

\* The page, the wizard and the preferences, when nothing is asked.
LEMMA PageEdited ==
  ASSUME RendererInv, UNCHANGED labelVars, cp' \in ClassType, wiz' \in WizardType,
         main' \in MainType, cp'.running = cp.running, main'.job = main.job,
         main'.started = main.started, clicks' \in Nat,
         UNCHANGED <<runs, mount, calls, throttled, did>>
  PROVE  RendererInv'
<1>1. ClassifyInv'
  BY OnlyThePage
<1>2. LabelInv' /\ CallsInv' /\ DetailInv'
  BY CallsStay
<1>3. RunsDoAsAsked'
  BY DEF RendererInv, RunsDoAsAsked
<1> QED BY <1>1, <1>2, <1>3 DEF RendererInv

LEMMA SavesOK ==
  ASSUME RendererInv, NEW page1 \in ClassType, NEW ps \in Seq(GoodPolicy), Saves(page1, ps)
  PROVE  /\ cp' \in ClassType /\ main' \in MainType /\ cp'.running = page1.running
         /\ main'.job = main.job /\ main'.started = main.started
<1>1. cp' = [page1 EXCEPT !.policies = ps] /\ main' = [main EXCEPT !.saved = ps]
  BY DEF Saves
<1>2. cp' \in ClassType /\ cp'.running = page1.running
  BY <1>1 DEF ClassType
<1>3. main' \in MainType /\ main'.job = main.job /\ main'.started = main.started
  BY <1>1, ClassifyFacts DEF MainType
<1> QED BY <1>2, <1>3

LEMMA PolicyToggled ==
  ASSUME RendererInv, TogglePolicy, UNCHANGED labelVars
  PROVE  RendererInv'
<1>1. clicks' \in Nat /\ UNCHANGED <<wiz, runs, mount, calls, throttled, did>>
  BY ClassifyFacts DEF TogglePolicy, OnClassify, Click
<1>2. PICK p \in Policies : Saves(cp, Changed(cp.policies, [p EXCEPT !.enabled = ~p.enabled]))
  BY DEF TogglePolicy
<1> DEFINE d == [p EXCEPT !.enabled = ~p.enabled]
           ps == Changed(cp.policies, d)
<1>3. d \in GoodPolicy
  BY ClassifyFacts, DraftOK
<1> HIDE DEF d
<1>4. ps \in Seq(GoodPolicy) /\ Saves(cp, ps)
  BY <1>2, <1>3, ClassifyFacts, ChangedOK DEF d
<1> HIDE DEF ps
<1>5. /\ cp' \in ClassType /\ main' \in MainType /\ cp'.running = cp.running
      /\ main'.job = main.job /\ main'.started = main.started
  BY <1>4, ClassifyFacts, SavesOK
<1> QED BY <1>1, <1>5, ClassifyFacts, PageEdited

LEMMA PolicyDeleted ==
  ASSUME RendererInv, DeletePolicy, UNCHANGED labelVars
  PROVE  RendererInv'
<1>1. clicks' \in Nat /\ UNCHANGED <<wiz, runs, mount, calls, throttled, did>>
  BY ClassifyFacts DEF DeletePolicy, OnClassify, Click
<1> DEFINE ps == Filtered(cp.policies, LAMBDA p : p.id # cp.delete)
           K == { p \in GoodPolicy : p.id # cp.delete }
           page1 == [cp EXCEPT !.delete = None]
<1>2. ps \in Seq(GoodPolicy)
  <2>1. \A i \in DOMAIN cp.policies : cp.policies[i] \in GoodPolicy
    BY ClassifyFacts, ElementOfSeq
  <2>2. \A i \in DOMAIN cp.policies : cp.policies[i] \in K <=> cp.policies[i].id # cp.delete
    BY <2>1
  <2>3. [i \in DOMAIN cp.policies |->
           IF cp.policies[i] \in K THEN <<cp.policies[i]>> ELSE <<>>]
        = [i \in DOMAIN cp.policies |->
             IF cp.policies[i].id # cp.delete THEN <<cp.policies[i]>> ELSE <<>>]
    BY <2>2
  <2>4. ps = FlattenSeq([i \in DOMAIN cp.policies |->
               IF cp.policies[i] \in K THEN <<cp.policies[i]>> ELSE <<>>])
    BY <2>3 DEF Filtered
  <2> HIDE DEF ps, K
  <2> QED BY <2>4, ClassifyFacts, FilteredIs
<1>3. page1 \in ClassType /\ page1.running = cp.running
  BY ClassifyFacts DEF ClassType
<1>4. \/ UNCHANGED main /\ \E d \in Nat \cup {None} : cp' = [cp EXCEPT !.delete = d]
      \/ Saves(page1, ps)
  BY ClassifyFacts DEF DeletePolicy
<1> HIDE DEF ps, page1
<1>5. /\ cp' \in ClassType /\ main' \in MainType /\ cp'.running = cp.running
      /\ main'.job = main.job /\ main'.started = main.started
  <2>1. CASE UNCHANGED main /\ \E d \in Nat \cup {None} : cp' = [cp EXCEPT !.delete = d]
    BY <2>1, ClassifyFacts DEF ClassType
  <2>2. CASE Saves(page1, ps)
    BY <1>2, <1>3, <2>2, SavesOK
  <2> QED BY <1>4, <2>1, <2>2
<1> QED BY <1>1, <1>5, ClassifyFacts, PageEdited

LEMMA WizardOpened ==
  ASSUME RendererInv, OpenWizard, UNCHANGED labelVars
  PROVE  RendererInv'
<1> DEFINE a == Call("Get-SLLabel", <<>>, <<>>, [op |-> "wizardLabels", n |-> clicks])
           b == Call("Get-SLSiteList", <<>>, <<>>, [op |-> "wizardSites", n |-> clicks])
           q == Append(calls, a)
<1>1. clicks' \in Nat /\ UNCHANGED <<cp, runs, mount, throttled, did>>
  BY ClassifyFacts DEF OpenWizard, OnClassify, Click
<1>2. PICK draft \in Policies \cup {createBlankPolicy(main.ids + 1)} :
        /\ wiz' = [NoWizard EXCEPT !.open = TRUE, !.n = clicks, !.draft = draft]
        /\ main' = [main EXCEPT !.ids = IF draft \in Policies THEN main.ids ELSE main.ids + 1]
  BY DEF OpenWizard
<1>3. draft \in GoodPolicy
  <2>1. main.ids + 1 \in Nat
    BY ClassifyFacts
  <2> QED BY <2>1, ClassifyFacts, BlankPolicyOK
<1>4. wiz' \in WizardType
  BY <1>2, <1>3, NoWizardOK, ClassifyFacts DEF WizardType
<1>5. main' \in MainType /\ main'.job = main.job /\ main'.started = main.started
  <2> DEFINE ids == IF draft \in Policies THEN main.ids ELSE main.ids + 1
  <2>1. ids \in Nat
    BY ClassifyFacts
  <2>2. main' = [main EXCEPT !.ids = ids]
    BY <1>2
  <2> HIDE DEF ids
  <2> QED BY <2>1, <2>2, ClassifyFacts DEF MainType
<1>6. ClassifyInv'
  BY <1>1, <1>4, <1>5, ClassifyFacts, OnlyThePage
<1>7. /\ Sensible(a) /\ a.for.op = "wizardLabels"
      /\ Sensible(b) /\ b.for.op = "wizardSites"
  <2>1. a = Sent("Get-SLLabel", <<>>, <<>>, [op |-> "wizardLabels", n |-> clicks], mount)
        /\ b = Sent("Get-SLSiteList", <<>>, <<>>, [op |-> "wizardSites", n |-> clicks], mount)
    BY DEF Call, Sent
  <2>2. /\ a.cmdlet = "Get-SLLabel" /\ a.params = <<>> /\ a.for.op = "wizardLabels"
        /\ b.cmdlet = "Get-SLSiteList" /\ b.params = <<>> /\ b.for.op = "wizardSites"
        /\ Says1(a) => Sensible(a)
        /\ Says1(b) => Sensible(b)
    <3> HIDE DEF a, b
    <3> QED BY <2>1, CallIs
  <2> QED BY <2>2 DEF Says1, ForWizard
<1>8. Wanted(a, lt.list, ws) /\ Wanted(b, lt.list, ws)
  <2> HIDE DEF a, b
  <2> QED BY <1>7 DEF Wanted
<1>9. calls' = Append(q, b)
  <2>1. calls' = calls \o <<a, b>>
    BY DEF OpenWizard
  <2> HIDE DEF a, b
  <2>2. calls \in Seq(Range(calls) \cup {a, b})
    <3>1. calls \in Seq(Range(calls))
      BY Facts DEF Queue
    <3> QED BY <3>1, SeqMonotonic
  <2> DEFINE U == Range(calls) \cup {a, b}
  <2>3. a \in U /\ b \in U
    OBVIOUS
  <2> HIDE DEF U
  <2>4. calls \in Seq(U)
    BY <2>2 DEF U
  <2>5. calls \o <<a, b>> = Append(Append(calls, a), b)
    BY ONLY <2>3, <2>4
  <2> QED BY <2>1, <2>5
<1> HIDE DEF a, b
<1>10. /\ Queue(q) /\ OneScan(q)
       /\ \A c \in Range(q) : Wanted(c, lt.list, ws) /\ OfARun(c, runs)
  BY <1>7, <1>8, Facts, OneMore
<1>11. throttled = 0 => DetailOK(q, ws)
  BY <1>7, Facts, DetailElse DEF Asks
<1> HIDE DEF q
<1>12. CallsInv'
  BY <1>1, <1>7, <1>8, <1>9, <1>10, OneMore DEF CallsInv, labelVars
<1>13. DetailInv'
  BY <1>1, <1>7, <1>9, <1>10, <1>11, Facts, DetailElse DEF DetailInv, labelVars, Asks
<1>14. LabelInv' /\ RunsDoAsAsked'
  BY <1>1 DEF RendererInv, LabelInv, RunsDoAsAsked, labelVars
<1> QED BY <1>6, <1>12, <1>13, <1>14 DEF RendererInv

\* The names stay in step with the sites.
LEMMA ToggledOK ==
  ASSUME NEW d \in GoodPolicy, NEW site \in Site
  PROVE  ToggledSite(d, site) \in GoodPolicy
<1>1. /\ d \in ClassPolicy /\ Len(d.names) = Len(d.sites)
      /\ d.sites \in Seq(Site) /\ d.names \in Seq(Range(SiteNamed))
      /\ Len(d.sites) \in Nat
  BY DEF GoodPolicy, ClassPolicy
<1>2. ASSUME NEW ss \in Seq(Site), NEW ns \in Seq(Range(SiteNamed)), Len(ns) = Len(ss)
      PROVE  [d EXCEPT !.sites = ss, !.names = ns] \in GoodPolicy
  <2> DEFINE e == [d EXCEPT !.sites = ss, !.names = ns]
  <2>1. e \in ClassPolicy /\ e.sites = ss /\ e.names = ns
    BY <1>1 DEF ClassPolicy
  <2> HIDE DEF e
  <2>2. e \in GoodPolicy
    BY <1>2, <2>1 DEF GoodPolicy
  <2> QED BY <2>2 DEF e
<1>3. CASE Contains(d.sites, site)
  <2> DEFINE i == CHOOSE j \in DOMAIN d.sites : d.sites[j] = site
             ss == RemoveAt(d.sites, i)
             ns == RemoveAt(d.names, i)
  <2>1. \E j \in DOMAIN d.sites : d.sites[j] = site
    BY <1>1, <1>3 DEF Contains
  <2>2. i \in DOMAIN d.sites
    BY <2>1
  <2>3. i \in 1 .. Len(d.sites) /\ i \in 1 .. Len(d.names)
    BY <1>1, <2>2
  <2> HIDE DEF i
  <2>4. ss \in Seq(Site) /\ Len(ss) = Len(d.sites) - 1
    BY <1>1, <2>3, Removed
  <2>5. ns \in Seq(Range(SiteNamed)) /\ Len(ns) = Len(d.names) - 1
    BY <1>1, <2>3, Removed
  <2>6. ToggledSite(d, site) = [d EXCEPT !.sites = ss, !.names = ns]
    BY <1>3 DEF ToggledSite, i
  <2> HIDE DEF ss, ns
  <2> QED BY <1>1, <1>2, <2>4, <2>5, <2>6
<1>4. CASE ~Contains(d.sites, site)
  <2> DEFINE ss == Append(d.sites, site)
             ns == Append(d.names, SiteNamed[site])
  <2>1. SiteNamed[site] \in Range(SiteNamed)
    BY DEF Range, Site
  <2>2. ss \in Seq(Site) /\ Len(ss) = Len(d.sites) + 1
    BY <1>1, AppendProperties
  <2>3. ns \in Seq(Range(SiteNamed)) /\ Len(ns) = Len(d.names) + 1
    BY <1>1, <2>1, AppendProperties
  <2>4. ToggledSite(d, site) = [d EXCEPT !.sites = ss, !.names = ns]
    BY <1>4 DEF ToggledSite
  <2> HIDE DEF ss, ns
  <2> QED BY <1>1, <1>2, <2>2, <2>3, <2>4
<1> QED BY <1>3, <1>4

LEMMA WizardFilled ==
  ASSUME RendererInv, NameAndEntities \/ PickTarget \/ ScopeFields \/ PickSchedule,
         UNCHANGED labelVars
  PROVE  RendererInv'
<1>1. clicks' \in Nat /\ UNCHANGED <<cp, main, runs, mount, calls, throttled, did>>
  <2>1. \A draft : Drafted(draft) => UNCHANGED <<cp, runs, main, did, calls>>
    BY DEF Drafted
  <2>2. UNCHANGED <<cp, runs, main, did, calls>>
    BY <2>1 DEF NameAndEntities, PickTarget, ScopeFields, PickSchedule
  <2>3. clicks' = clicks + 1 /\ UNCHANGED <<mount, throttled>>
    BY DEF NameAndEntities, PickTarget, ScopeFields, PickSchedule, InWizard, OnClassify, Click
  <2> QED BY <2>2, <2>3, ClassifyFacts
<1>2. \E d \in GoodPolicy : wiz' = [wiz EXCEPT !.draft = d]
  <2>1. wiz.draft \in GoodPolicy
    BY ClassifyFacts
  <2>2. CASE NameAndEntities
    BY <2>1, <2>2, DraftOK DEF NameAndEntities, Drafted
  <2>3. CASE PickTarget
    BY <2>1, <2>3, DraftOK DEF PickTarget, Drafted
  <2>4. CASE ScopeFields
    BY <2>1, <2>4, DraftOK, ToggledOK DEF ScopeFields, Drafted
  <2>5. CASE PickSchedule
    BY <2>1, <2>5, DraftOK DEF PickSchedule, Drafted
  <2> QED BY <2>2, <2>3, <2>4, <2>5
<1>3. wiz' \in WizardType
  BY <1>2, ClassifyFacts DEF WizardType
<1> QED BY <1>1, <1>3, ClassifyFacts, PageEdited

LEMMA WizardMoved ==
  ASSUME RendererInv, MoveInWizard, UNCHANGED labelVars
  PROVE  RendererInv'
<1>1. clicks' \in Nat /\ UNCHANGED <<cp, main, runs, mount, calls, throttled, did>>
  BY ClassifyFacts DEF MoveInWizard, OnClassify, Click
<1>2. wiz' \in WizardType
  <2>1. wiz.step \in 1 .. 4
    BY ClassifyFacts DEF WizardType
  <2>2. CASE wiz.step < 4 /\ wiz' = [wiz EXCEPT !.step = wiz.step + 1]
    <3>1. wiz.step + 1 \in 1 .. 4
      BY <2>1, <2>2
    <3> QED BY <2>2, <3>1, ClassifyFacts DEF WizardType
  <2>3. CASE wiz.step > 1 /\ wiz' = [wiz EXCEPT !.step = wiz.step - 1]
    <3>1. wiz.step - 1 \in 1 .. 4
      BY <2>1, <2>3
    <3> QED BY <2>3, <3>1, ClassifyFacts DEF WizardType
  <2>4. CASE wiz' = NoWizard
    BY <2>4, NoWizardOK
  <2> QED BY <2>2, <2>3, <2>4 DEF MoveInWizard
<1> QED BY <1>1, <1>2, ClassifyFacts, PageEdited

LEMMA WizardSaved ==
  ASSUME RendererInv, SaveWizard, UNCHANGED labelVars
  PROVE  RendererInv'
<1>1. clicks' \in Nat /\ UNCHANGED <<runs, mount, calls, throttled, did>> /\ wiz' = NoWizard
  BY ClassifyFacts DEF SaveWizard, InWizard, OnClassify, Click
<1> DEFINE ps == IF PolicyOf(wiz.draft.id) # {}
                   THEN Changed(cp.policies, wiz.draft)
                   ELSE Append(cp.policies, wiz.draft)
<1>2. ps \in Seq(GoodPolicy)
  BY ClassifyFacts, ChangedOK, AppendProperties
<1>3. Saves(cp, ps)
  BY DEF SaveWizard
<1> HIDE DEF ps
<1>4. /\ cp' \in ClassType /\ main' \in MainType /\ cp'.running = cp.running
      /\ main'.job = main.job /\ main'.started = main.started
  BY <1>2, <1>3, ClassifyFacts, SavesOK
<1> QED BY <1>1, <1>4, NoWizardOK, PageEdited

LEMMA ClassifyClicked ==
  ASSUME RendererInv, ClassifyClicks, UNCHANGED labelVars
  PROVE  RendererInv'
BY RunsClicked, PolicyToggled, PolicyDeleted, WizardOpened, WizardFilled, WizardMoved,
   WizardSaved DEF ClassifyClicks

LEMMA PoliciesLoaded ==
  ASSUME RendererInv, LoadPolicies, UNCHANGED labelVars
  PROVE  RendererInv'
<1>1. clicks' \in Nat /\ UNCHANGED <<wiz, main, runs, mount, calls, throttled, did>>
  BY ClassifyFacts DEF LoadPolicies, Kept
<1>2. cp' = [cp EXCEPT !.loading = FALSE, !.policies = main.saved]
  BY DEF LoadPolicies
<1>3. cp' \in ClassType /\ cp'.running = cp.running
  BY <1>2, ClassifyFacts DEF ClassType
<1> QED BY <1>1, <1>3, ClassifyFacts, PageEdited

-----------------------------------------------------------------------------
(* Runs.                                                                   *)

LEMMA RunChanged ==
  ASSUME NEW rs, NEW n, NEW m, RunsOK(rs, n, m), NEW k \in DOMAIN rs, NEW r, RunOK(r),
         r.at = rs[k].at, r.policy = rs[k].policy, NEW rs2, rs2 = [rs EXCEPT ![k] = r]
  PROVE  /\ RunsOK(rs2, n, m) /\ DOMAIN rs2 = DOMAIN rs
         /\ rs2[k] = r
         /\ \A l \in DOMAIN rs : l # k => rs2[l] = rs[l]
         /\ \A running : OneRun(rs, running, m) => OneRun(rs2, running, m)
<1>1. /\ DOMAIN rs2 = DOMAIN rs
      /\ \A l \in DOMAIN rs : rs2[l] = IF l = k THEN r ELSE rs[l]
  OBVIOUS
<1>2. RunsOK(rs2, n, m)
  BY <1>1 DEF RunsOK
<1>3. \A l \in DOMAIN rs : rs2[l].at = rs[l].at /\ rs2[l].policy = rs[l].policy
  BY <1>1
<1>4. ASSUME NEW running, OneRun(rs, running, m) PROVE OneRun(rs2, running, m)
  BY <1>1, <1>3, <1>4 DEF OneRun
<1> QED BY <1>1, <1>2, <1>4

LEMMA RunGone ==
  ASSUME NEW rs, NEW n, NEW m, RunsOK(rs, n, m), NEW k \in DOMAIN rs,
         NEW rs2, rs2 = Restrict(rs, DOMAIN rs \ {k})
  PROVE  /\ RunsOK(rs2, n, m)
         /\ \A l : l \in DOMAIN rs2 <=> l \in DOMAIN rs /\ l # k
         /\ \A l \in DOMAIN rs2 : rs2[l] = rs[l]
         /\ \A running : OneRun(rs, running, m) =>
              OneRun(rs2, running, m) /\ (rs[k].at = m => \A l \in DOMAIN rs2 : rs2[l].at # m)
<1>1. /\ \A l : l \in DOMAIN rs2 <=> l \in DOMAIN rs /\ l # k
      /\ \A l \in DOMAIN rs2 : rs2[l] = rs[l]
  BY DEF Restrict
<1>2. RunsOK(rs2, n, m)
  BY <1>1 DEF RunsOK
<1>3. ASSUME NEW running, OneRun(rs, running, m)
      PROVE  OneRun(rs2, running, m) /\ (rs[k].at = m => \A l \in DOMAIN rs2 : rs2[l].at # m)
  BY <1>1, <1>3 DEF OneRun
<1> QED BY <1>1, <1>2, <1>3

\* The summary goes to policies and leaves them policies.
LEMMA SummedOK ==
  ASSUME NEW r, RunOK(r)
  PROVE  Summed(r) \in Seq(GoodPolicy)
<1> DEFINE s == r.base
           n == Len(s)
           x == IF r.dry THEN "dry" ELSE "live"
           t == [i \in 1 .. n |->
                   IF s[i].id = r.policy.id THEN [s[i] EXCEPT !.summary = x] ELSE s[i]]
<1>1. s \in Seq(GoodPolicy)
  BY DEF RunOK, RunType
<1>2. n \in Nat /\ DOMAIN s = 1 .. n /\ \A i \in 1 .. n : s[i] \in GoodPolicy
  BY <1>1, ElementOfSeq
<1>3. Summed(r) = t
  BY <1>2 DEF Summed
<1>4. x \in {"dry", "live"}
  OBVIOUS
<1> HIDE DEF n, x
<1>5. \A p \in GoodPolicy : [p EXCEPT !.summary = x] \in GoodPolicy
  BY <1>4 DEF GoodPolicy, ClassPolicy
<1>6. t \in [1 .. n -> GoodPolicy]
  BY <1>2, <1>5
<1> HIDE DEF t
<1>7. t \in Seq(GoodPolicy)
  BY ONLY <1>2, <1>6
<1> QED BY <1>3, <1>7

\* The scan of the first site that is left.
LEMMA ScanAsked ==
  ASSUME NEW cs, Queue(cs), OneScan(cs), NEW list, NEW w, NEW rs,
         \A d \in Range(cs) : Wanted(d, list, w) /\ OfARun(d, rs),
         NEW k \in DOMAIN rs, NEW r, r = rs[k], RunOK(r), r.left # <<>>, r.pc = "scanning",
         \A d \in Range(cs) : d.for.op = "scan" => d.for.run # k,
         NEW q, q = AskScan(cs, k, r)
  PROVE  /\ Queue(q) /\ OneScan(q)
         /\ \A d \in Range(q) : Wanted(d, list, w) /\ OfARun(d, rs)
         /\ DetailOK(cs, w) => DetailOK(q, w)
<1> DEFINE site == r.left[1]
           what == [policy |-> r.policy, dry |-> r.dry, site |-> site]
           for == [op |-> "scan", run |-> k]
           params == ScanParams(r.policy, r.dry, site)
           c == Sent("Invoke-SLAutoLabelScan", params, what, for, r.at)
<1>1. q = Append(cs, c)
  BY DEF AskScan, Call, Sent
<1>2. site \in Range(r.policy.sites) \cup {None}
  <2>1. r.left \in Seq(Site \cup {None})
    BY DEF RunOK, RunType
  <2>2. 1 \in 1 .. Len(r.left)
    BY <2>1, EmptySeq
  <2> QED BY <2>2 DEF RunOK
<1>3. r.policy \in GoodPolicy /\ r.dry \in BOOLEAN
  BY DEF RunOK, RunType
<1> HIDE DEF site
<1>4. what.policy = r.policy /\ what.dry = r.dry /\ what.site = site
      /\ for.op = "scan" /\ for.run = k
  OBVIOUS
<1> HIDE DEF params, what, for
<1>5. /\ c.cmdlet = "Invoke-SLAutoLabelScan" /\ c.params = params /\ c.what = what
      /\ c.for = for /\ (Says1(c) => Sensible(c))
  <2>1. \E a : c = Sent("Invoke-SLAutoLabelScan", params, what, for, a)
    OBVIOUS
  <2> HIDE DEF c
  <2> QED BY <2>1, CallIs
<1> HIDE DEF c
<1>6. ForScan(c)
  BY <1>2, <1>3, <1>4, <1>5 DEF ForScan, params
<1>7. Sensible(c) /\ c.for.op = "scan" /\ c.for.run = k
  BY <1>4, <1>5, <1>6 DEF Says1
<1>8. Queue(q) /\ OneScan(q) /\ Range(q) = Range(cs) \cup {c}
  BY <1>1, <1>7, QueueAppended
<1>9. Wanted(c, list, w) /\ OfARun(c, rs)
  BY <1>7 DEF Wanted, OfARun
<1>10. DetailOK(cs, w) => DetailOK(q, w)
  BY <1>1, <1>7, DetailElse DEF Asks
<1> QED BY <1>8, <1>9, <1>10

LEMMA RunFacts ==
  ASSUME RendererInv, NEW k \in DOMAIN runs
  PROVE  /\ RunOK(runs[k]) /\ runs[k] \in RunType /\ k \in Nat
         /\ main.job = k => runs[k].pc = "waiting"
         /\ \A c \in Range(calls) :
              c.for.op = "scan" => /\ c.for.run \in DOMAIN runs
                                   /\ runs[c.for.run].pc = "scanning"
<1>1. RunOK(runs[k]) /\ k \in Nat
  BY ClassifyFacts DEF RunsOK
<1>2. main.job = k => runs[k].pc = "waiting"
  <2>1. k # None
    BY <1>1, ClassifyAssumption
  <2> QED BY <2>1, ClassifyFacts DEF JobOK
<1>3. \A c \in Range(calls) : c.for.op = "scan" =>
        c.for.run \in DOMAIN runs /\ runs[c.for.run].pc = "scanning"
  BY Facts DEF OfARun
<1> QED BY <1>1, <1>2, <1>3 DEF RunOK

\* A run that is refused scans its first site.
LEMMA RunScans ==
  ASSUME RendererInv, NEW k \in DOMAIN runs, runs[k].pc = "starting",
         NEW thrown \in BOOLEAN, Scanning(k, thrown), UNCHANGED labelVars, UNCHANGED <<cp, wiz, main, did, mount, clicks, throttled>>
  PROVE  RendererInv'
<1> DEFINE old == runs[k]
           left == IF old.policy.sites = <<>> THEN <<None>> ELSE old.policy.sites
           r == [old EXCEPT !.pc = "scanning", !.frees = thrown, !.left = left]
<1>1. runs' = [runs EXCEPT ![k] = r] /\ calls' = AskScan(calls, k, r)
  BY DEF Scanning
<1>2. old \in RunType /\ old.policy \in GoodPolicy /\ old.policy.sites \in Seq(Site)
  BY RunFacts DEF RunType, GoodPolicy, ClassPolicy
<1>3. /\ left \in Seq(Site \cup {None}) /\ left # <<>>
      /\ \A i \in 1 .. Len(left) : left[i] \in Range(old.policy.sites) \cup {None}
  <2>1. CASE old.policy.sites = <<>>
    <3>1. left = <<None>>
      BY <2>1
    <3> HIDE DEF left
    <3>2. <<None>> \in Seq(Site \cup {None}) /\ Len(<<None>>) = 1 /\ <<None>>[1] = None
      OBVIOUS
    <3>3. \A i \in 1 .. 1 : i = 1
      OBVIOUS
    <3>4. left \in Seq(Site \cup {None}) /\ Len(left) = 1 /\ left[1] = None
      BY <3>1, <3>2
    <3>5. <<None>> # <<>>
      OBVIOUS
    <3>6. left # <<>>
      BY ONLY <3>1, <3>5
    <3> QED BY <3>3, <3>4, <3>6
  <2>2. CASE old.policy.sites # <<>>
    <3>1. left = old.policy.sites
      BY <2>2
    <3> HIDE DEF left
    <3> DEFINE ss == old.policy.sites
    <3>2. ss \in Seq(Site \cup {None}) /\ DOMAIN ss = 1 .. Len(ss)
      BY <1>2, SeqMonotonic, LenProperties
    <3>3. \A i \in 1 .. Len(ss) : ss[i] \in Range(ss)
      BY <3>2 DEF Range
    <3> QED BY <2>2, <3>1, <3>2, <3>3
  <2> QED BY <2>1, <2>2
<1> HIDE DEF left
<1>4. /\ r \in RunType /\ r.pc = "scanning" /\ r.left = left /\ r.policy = old.policy
      /\ r.at = old.at /\ r.sent = old.sent /\ r.dry = old.dry
  BY <1>2, <1>3 DEF RunType
<1> HIDE DEF r
<1>5. RunOK(r)
  BY <1>3, <1>4, RunFacts DEF RunOK
<1>6. /\ RunsOK(runs', main.started, mount) /\ DOMAIN runs' = DOMAIN runs
      /\ runs'[k] = r
      /\ \A l \in DOMAIN runs : l # k => runs'[l] = runs[l]
      /\ OneRun(runs', cp.running, mount)
  BY <1>1, <1>4, <1>5, ClassifyFacts, RunChanged
<1>7. JobOK(main.job, runs')
  BY <1>6, RunFacts, ClassifyFacts DEF JobOK
<1>8. ClassifyInv'
  BY <1>6, <1>7, ClassifyFacts DEF ClassifyInv
<1>9. \A d \in Range(calls) :
        /\ Wanted(d, lt.list, ws) /\ OfARun(d, runs')
        /\ d.for.op = "scan" => d.for.run # k
  <2> SUFFICES ASSUME NEW d \in Range(calls)
               PROVE  /\ Wanted(d, lt.list, ws) /\ OfARun(d, runs')
                      /\ d.for.op = "scan" => d.for.run # k
    OBVIOUS
  <2>1. Wanted(d, lt.list, ws) /\ OfARun(d, runs)
    BY Facts
  <2>2. d.for.op = "scan" => d.for.run # k
    BY <2>1 DEF OfARun
  <2> QED BY <1>6, <2>1, <2>2 DEF OfARun
<1>10. /\ Queue(calls') /\ OneScan(calls')
       /\ \A d \in Range(calls') : Wanted(d, lt.list, ws) /\ OfARun(d, runs')
       /\ DetailOK(calls, ws) => DetailOK(calls', ws)
  <2>1. k \in DOMAIN runs' /\ r = runs'[k] /\ r.left # <<>>
    BY <1>3, <1>4, <1>6
  <2> QED BY <1>1, <1>4, <1>5, <1>9, <2>1, Facts, ScanAsked
<1>11. CallsInv' /\ DetailInv'
  BY <1>10, Facts DEF CallsInv, DetailInv, labelVars
<1>12. LabelInv' /\ RunsDoAsAsked'
  BY DEF RendererInv, LabelInv, RunsDoAsAsked, labelVars
<1> QED BY <1>8, <1>11, <1>12 DEF RendererInv

LEMMA JobTaken ==
  ASSUME RendererInv, NEW k \in DOMAIN runs, JobStartAnswered(k), UNCHANGED labelVars
  PROVE  RendererInv'
<1>1. runs[k].pc = "starting" /\ UNCHANGED <<wiz, mount, clicks, throttled>>
  BY DEF JobStartAnswered
<1>2. CASE \E thrown \in BOOLEAN : FallBack(k, thrown) /\ UNCHANGED <<main, did>>
  <2>1. PICK thrown \in BOOLEAN : Scanning(k, thrown) /\ UNCHANGED <<cp, main, did>>
    BY <1>2 DEF FallBack
  <2> QED BY <1>1, <2>1, RunScans
<1>3. CASE /\ main.job = None
           /\ main' = [main EXCEPT !.job = k]
           /\ runs' = [runs EXCEPT ![k].pc = "waiting"]
           /\ did' = did \cup {JobDoes(runs[k])}
           /\ UNCHANGED <<calls, cp>>
  <2> DEFINE old == runs[k]
             r == [old EXCEPT !.pc = "waiting"]
             d == JobDoes(old)
  <2>1. RunOK(old) /\ old \in RunType /\ k \in Nat
    BY RunFacts
  <2>2. runs' = [runs EXCEPT ![k] = r] /\ did' = did \cup {d}
    BY <1>3
  <2>3. r \in RunType /\ r.pc = "waiting" /\ r.left = old.left /\ r.policy = old.policy
        /\ r.at = old.at /\ r.sent = old.sent /\ r.dry = old.dry
    BY <2>1 DEF RunType
  <2>4. /\ d.asked => d.dry
        /\ d.policy.sites # <<>> => d.on \subseteq Range(d.policy.sites)
        /\ d.label = d.policy.label
        /\ d.entities = d.policy.entities /\ d.as # "scan"
    <3> DEFINE c == old.sent
    <3>1. /\ "dry_run" \in DOMAIN c /\ c.dry_run = old.dry
          /\ c.site_ids = old.policy.sites /\ c.target_label_id = old.policy.label
          /\ c.entity_types = old.policy.entities
      BY <2>1, ConfigIs DEF RunOK, RunType
    <3>2. /\ d.policy = old.policy /\ d.asked = old.dry /\ d.as = "job"
          /\ d.dry = ("dry_run" \in DOMAIN c /\ c.dry_run)
          /\ d.on = IF c.site_ids = <<>> THEN Site ELSE Range(c.site_ids)
          /\ d.label = c.target_label_id /\ d.entities = c.entity_types
      BY DEF JobDoes
    <3> HIDE DEF c, d
    <3> QED BY <3>1, <3>2
  <2> HIDE DEF r, d
  <2>5. RunOK(r)
    BY <2>1, <2>3 DEF RunOK
  <2>6. /\ RunsOK(runs', main.started, mount) /\ DOMAIN runs' = DOMAIN runs
        /\ runs'[k] = r
        /\ \A l \in DOMAIN runs : l # k => runs'[l] = runs[l]
        /\ OneRun(runs', cp.running, mount)
    BY <2>2, <2>3, <2>5, ClassifyFacts, RunChanged
  <2>7. main' \in MainType /\ main'.job = k /\ main'.started = main.started
    BY <1>3, <2>1, ClassifyFacts DEF MainType
  <2>8. JobOK(main'.job, runs')
    BY <2>3, <2>6, <2>7 DEF JobOK
  <2>9. ClassifyInv'
    BY <1>1, <1>3, <2>6, <2>7, <2>8, ClassifyFacts DEF ClassifyInv
  <2>10. LabelInv' /\ CallsInv' /\ DetailInv'
    BY <1>1, <1>3, <2>6, CallsStay
  <2>11. RunsDoAsAsked'
    BY <2>2, <2>4 DEF RendererInv, RunsDoAsAsked
  <2> QED BY <2>9, <2>10, <2>11 DEF RendererInv
<1>4. FallBack(k, FALSE) \/ FallBack(k, TRUE) => \E thrown \in BOOLEAN : FallBack(k, thrown)
  OBVIOUS
<1> QED BY <1>2, <1>3, <1>4 DEF JobStartAnswered

LEMMA JobCompleted ==
  ASSUME RendererInv, JobCompletes, UNCHANGED labelVars
  PROVE  RendererInv'
<1> DEFINE k == main.job
           r == runs[k]
<1>1. k # None /\ UNCHANGED <<wiz, did, calls, mount, clicks, throttled>>
  BY DEF JobCompletes, Kept
<1>2. k \in DOMAIN runs /\ r.pc = "waiting" /\ RunOK(r)
  BY <1>1, ClassifyFacts DEF JobOK, RunsOK
<1>3. r.at = mount =>
        /\ RunsOK(runs', main.started, mount)
        /\ \A l : l \in DOMAIN runs' <=> l \in DOMAIN runs /\ l # k
        /\ \A l \in DOMAIN runs' : runs'[l] = runs[l]
        /\ \A l \in DOMAIN runs' : runs'[l].at # mount
  <2> SUFFICES ASSUME r.at = mount
               PROVE  /\ RunsOK(runs', main.started, mount)
                      /\ \A l : l \in DOMAIN runs' <=> l \in DOMAIN runs /\ l # k
                      /\ \A l \in DOMAIN runs' : runs'[l] = runs[l]
                      /\ \A l \in DOMAIN runs' : runs'[l].at # mount
    OBVIOUS
  <2>1. runs' = Restrict(runs, DOMAIN runs \ {k})
    BY DEF JobCompletes
  <2> QED BY <1>2, <2>1, ClassifyFacts, RunGone
<1>4. LabelInv' /\ CallsInv' /\ DetailInv'
  <2>1. r.at # mount => UNCHANGED runs
    BY DEF JobCompletes
  <2> QED BY <1>1, <1>2, <1>3, <2>1, CallsStay
<1>5. ClassifyInv'
  <2>1. CASE r.at = mount
    <3> DEFINE ps == Summed(r)
    <3>1. ps \in Seq(GoodPolicy)
      BY <1>2, SummedOK
    <3>2. /\ cp' = [cp EXCEPT !.policies = ps, !.running = None]
          /\ main' = [main EXCEPT !.saved = ps, !.job = None]
      BY <2>1 DEF JobCompletes
    <3> HIDE DEF ps
    <3>3. cp' \in ClassType
      BY <3>1, <3>2, ClassifyFacts DEF ClassType
    <3>4. main' \in MainType /\ main'.job = None /\ main'.started = main.started
      BY <3>1, <3>2, ClassifyFacts DEF MainType
    <3>5. JobOK(main'.job, runs')
      BY <3>4 DEF JobOK
    <3>6. OneRun(runs', cp'.running, mount)
      BY <1>3, <2>1 DEF OneRun
    <3>7. RunsOK(runs', main'.started, mount)
      BY <1>3, <2>1, <3>4
    <3>8. wiz' \in WizardType /\ mount' = mount /\ clicks' = clicks
          /\ mount \in Nat /\ clicks \in Nat
      BY <1>1, ClassifyFacts
    <3> QED BY <3>3, <3>4, <3>5, <3>6, <3>7, <3>8 DEF ClassifyInv
  <2>2. CASE r.at # mount
    <3>1. main' = [main EXCEPT !.job = None] /\ UNCHANGED <<cp, runs>>
      BY <2>2 DEF JobCompletes
    <3>2. main' \in MainType /\ main'.job = None /\ main'.started = main.started
      BY <3>1, ClassifyFacts DEF MainType
    <3>3. JobOK(main'.job, runs')
      BY <3>2 DEF JobOK
    <3> QED BY <1>1, <3>1, <3>2, <3>3, ClassifyFacts DEF ClassifyInv
  <2> QED BY <2>1, <2>2
<1>6. RunsDoAsAsked'
  BY <1>1 DEF RendererInv, RunsDoAsAsked
<1> QED BY <1>4, <1>5, <1>6 DEF RendererInv

\* The summary of a run is saved where the page is still the one that began it.
LEMMA ScanTaken ==
  ASSUME RendererInv, TakeScan, UNCHANGED labelVars
  PROVE  RendererInv'
<1> DEFINE h == Head(calls)
           k == h.for.run
           old == runs[k]
           r == [old EXCEPT !.left = Tail(old.left)]
<1>1. Answered("scan") /\ UNCHANGED <<wiz, did, mount, clicks, throttled>>
  BY DEF TakeScan, Kept
<1>2. /\ h.for.op = "scan" /\ OfARun(h, runs) /\ calls # <<>>
      /\ Queue(Took) /\ OneScan(Took) /\ Range(Took) \subseteq Range(calls)
      /\ \A c \in Range(Took) : Wanted(c, lt.list, ws) /\ OfARun(c, runs)
      /\ throttled = 0 => DetailOK(Took, ws)
  BY <1>1, AnsweredIs DEF Asks
<1>3. \A d \in Range(Took) : d.for.op = "scan" => d.for.run # k
  BY <1>2, Facts, QueueTaken DEF Took
<1>4. k \in DOMAIN runs /\ old.pc = "scanning"
  BY <1>2 DEF OfARun
<1> HIDE DEF h, k
<1>5. RunOK(old) /\ old \in RunType /\ main.job # k
  BY <1>4, RunFacts
<1>6. /\ Tail(old.left) \in Seq(Site \cup {None})
      /\ \A i \in 1 .. Len(Tail(old.left)) :
           Tail(old.left)[i] \in Range(old.policy.sites) \cup {None}
  <2> DEFINE s == old.left
             R == Range(old.policy.sites) \cup {None}
  <2>1. s \in Seq(Site \cup {None}) /\ s # <<>> /\ \A i \in 1 .. Len(s) : s[i] \in R
    BY <1>4, <1>5 DEF RunOK, RunType
  <2> HIDE DEF s, R
  <2>2. /\ Tail(s) \in Seq(Site \cup {None}) /\ Len(Tail(s)) = Len(s) - 1
        /\ Len(s) \in Nat /\ \A i \in 1 .. Len(s) - 1 : Tail(s)[i] = s[i + 1]
    BY ONLY <2>1, HeadTailProperties, LenProperties
  <2>3. \A i \in 1 .. Len(Tail(s)) : Tail(s)[i] \in R
    BY <2>1, <2>2
  <2> QED BY <2>2, <2>3 DEF s, R
<1>7. r.left = Tail(old.left) /\ r.policy = old.policy /\ r.at = old.at /\ r.pc = "scanning"
      /\ r \in RunType /\ r.base = old.base /\ r.dry = old.dry /\ r.sent = old.sent
  BY <1>4, <1>5, <1>6 DEF RunType
<1>8. IF r.left # <<>>
        THEN /\ runs' = [runs EXCEPT ![k] = r]
             /\ calls' = AskScan(Took, k, r)
             /\ UNCHANGED <<cp, main>>
        ELSE /\ runs' = Restrict(runs, DOMAIN runs \ {k})
             /\ calls' = Took
             /\ IF r.at = mount
                  THEN Saves([cp EXCEPT !.running = IF r.frees THEN None ELSE @], Summed(r))
                  ELSE UNCHANGED <<cp, main>>
  BY DEF TakeScan, h, k
<1> HIDE DEF r
<1>9. LabelInv' /\ RunsDoAsAsked'
  BY <1>1 DEF RendererInv, LabelInv, RunsDoAsAsked, labelVars
<1>10. CASE r.left # <<>>
  <2>1. RunOK(r)
    BY <1>5, <1>6, <1>7, <1>10 DEF RunOK
  <2>2. /\ RunsOK(runs', main.started, mount) /\ DOMAIN runs' = DOMAIN runs
        /\ runs'[k] = r
        /\ \A l \in DOMAIN runs : l # k => runs'[l] = runs[l]
        /\ OneRun(runs', cp.running, mount)
    BY <1>4, <1>7, <1>8, <1>10, <2>1, ClassifyFacts, RunChanged
  <2>3. JobOK(main.job, runs')
    BY <1>5, <2>2, ClassifyFacts DEF JobOK
  <2>4. ClassifyInv'
    BY <1>1, <1>8, <1>10, <2>2, <2>3, ClassifyFacts DEF ClassifyInv
  <2>5. \A d \in Range(Took) : Wanted(d, lt.list, ws) /\ OfARun(d, runs')
    BY <1>2, <1>3, <2>2 DEF OfARun
  <2>6. k \in DOMAIN runs' /\ r = runs'[k] /\ r.pc = "scanning" /\ calls' = AskScan(Took, k, r)
    BY <1>4, <1>7, <1>8, <1>10, <2>2
  <2>7. /\ Queue(calls') /\ OneScan(calls')
        /\ \A d \in Range(calls') : Wanted(d, lt.list, ws) /\ OfARun(d, runs')
        /\ DetailOK(Took, ws) => DetailOK(calls', ws)
    BY <1>2, <1>3, <1>10, <2>1, <2>5, <2>6, ScanAsked
  <2>8. CallsInv' /\ DetailInv'
    BY <1>1, <1>2, <2>7, Facts DEF CallsInv, DetailInv, labelVars
  <2> QED BY <1>9, <2>4, <2>8 DEF RendererInv
<1>11. CASE r.left = <<>>
  <2>1. /\ RunsOK(runs', main.started, mount)
        /\ \A l : l \in DOMAIN runs' <=> l \in DOMAIN runs /\ l # k
        /\ \A l \in DOMAIN runs' : runs'[l] = runs[l]
        /\ OneRun(runs', cp.running, mount)
        /\ r.at = mount => \A l \in DOMAIN runs' : runs'[l].at # mount
    <3>1. /\ runs' = Restrict(runs, DOMAIN runs \ {k}) /\ k \in DOMAIN runs
          /\ runs[k].at = r.at
          /\ RunsOK(runs, main.started, mount) /\ OneRun(runs, cp.running, mount)
      BY <1>4, <1>7, <1>8, <1>11, ClassifyFacts
    <3> QED BY ONLY <3>1, RunGone
  <2>2. /\ cp' \in ClassType /\ main' \in MainType /\ OneRun(runs', cp'.running, mount)
        /\ main'.job = main.job /\ main'.started = main.started
    <3>1. CASE r.at = mount
      <4> DEFINE ps == Summed(r)
      <4>1. ps = Summed(old)
        BY <1>7 DEF Summed
      <4>2. ps \in Seq(GoodPolicy)
        BY <1>5, <4>1, SummedOK
      <4> DEFINE running == IF r.frees THEN None ELSE cp.running
                 page1 == [cp EXCEPT !.running = running]
      <4>3. Saves(page1, ps)
        BY <1>8, <1>11, <3>1
      <4>4. page1 \in ClassType
        BY ClassifyFacts DEF ClassType
      <4> HIDE DEF ps, page1
      <4>5. /\ cp' \in ClassType /\ main' \in MainType
            /\ main'.job = main.job /\ main'.started = main.started
        BY <4>2, <4>3, <4>4, SavesOK
      <4>6. OneRun(runs', cp'.running, mount)
        BY <2>1, <3>1 DEF OneRun
      <4> QED BY <4>5, <4>6
    <3>2. CASE r.at # mount
      BY <1>8, <1>11, <2>1, <3>2, ClassifyFacts
    <3> QED BY <3>1, <3>2
  <2>3. JobOK(main'.job, runs')
    BY <1>5, <2>1, <2>2, ClassifyFacts DEF JobOK
  <2>4. ClassifyInv'
    BY <1>1, <2>1, <2>2, <2>3, ClassifyFacts DEF ClassifyInv
  <2>5. calls' = Took
    BY <1>8, <1>11
  <2>6. \A d \in Range(Took) : Wanted(d, lt.list, ws) /\ OfARun(d, runs')
    BY <1>2, <1>3, <2>1 DEF OfARun
  <2>7. CallsInv' /\ DetailInv'
    BY <1>1, <1>2, <2>5, <2>6, Facts DEF CallsInv, DetailInv, labelVars
  <2> QED BY <1>9, <2>4, <2>7 DEF RendererInv
<1> QED BY <1>10, <1>11

LEMMA ListsTaken ==
  ASSUME RendererInv, TakeLists, UNCHANGED labelVars
  PROVE  RendererInv'
<1>1. PICK op \in {"wizardLabels", "wizardSites"} : Answered(op)
  BY DEF TakeLists
<1>2. /\ calls' = Took /\ UNCHANGED <<cp, runs, main, did, mount, clicks, throttled>>
      /\ UNCHANGED <<lt, ws, store>>
  BY DEF TakeLists, Kept, labelVars
<1>3. throttled = 0 => DetailOK(Took, ws)
  BY <1>1, AnsweredIs DEF Asks
<1>4. CallsInv' /\ DetailInv'
  BY <1>1, <1>2, <1>3, PageTook
<1>5. wiz' \in WizardType
  <2>1. wiz' \in { wiz, [wiz EXCEPT !.labels = TRUE], [wiz EXCEPT !.sites = TRUE] }
    BY DEF TakeLists
  <2> QED BY <2>1, ClassifyFacts DEF WizardType
<1>6. ClassifyInv'
  BY <1>2, <1>5, ClassifyFacts, OnlyThePage
<1>7. LabelInv' /\ RunsDoAsAsked'
  BY <1>2 DEF RendererInv, LabelInv, RunsDoAsAsked
<1> QED BY <1>4, <1>6, <1>7 DEF RendererInv

LEMMA ClassifyRan ==
  ASSUME RendererInv, ClassifyRuns, UNCHANGED labelVars
  PROVE  RendererInv'
BY PoliciesLoaded, JobTaken, JobCompleted, Scanned, ScanTaken, ListsAnswered, ListsTaken
   DEF ClassifyRuns

-----------------------------------------------------------------------------
(* The page that is mounted.                                               *)

\* The list of a Labels page that has just been mounted.
LEMMA NewListOK ==
  ASSUME NEW n \in Nat
  PROVE  /\ NewList("label", n) \in ListType /\ NewList("label", n).n = n
         /\ NewList("label", n).section = "label"
         /\ PageOK([list |-> NewList("label", n), tabs |-> <<>>, active |-> NoTab, forms |-> 0])
         /\ TabsOK(<<>>, NoTab)
<1> DEFINE l == NewList("label", n)
           p == [list |-> l, tabs |-> <<>>, active |-> NoTab, forms |-> 0]
<1>1. l \in ListType /\ l.n = n /\ l.section = "label" /\ l.items = {}
  BY DEF NewList, ListType, Kind
<1> HIDE DEF l
<1>2. p \in PageType /\ p.list = l
  BY <1>1 DEF PageType
<1> HIDE DEF p
<1>3. PageOK(p)
  BY <1>1, <1>2 DEF PageOK
<1>4. TabsOK(<<>>, NoTab)
  BY DEF TabsOK, IsInjective
<1> QED BY <1>1, <1>3, <1>4 DEF l, p

LEMMA Left ==
  ASSUME RendererInv, Leave
  PROVE  RendererInv'
<1> DEFINE n == lt.list.n + 1
           list == NewList("label", n)
           m == mount + 1
           c == [FetchList(list) EXCEPT !.at = mount']
<1>1. /\ mount' = m /\ clicks' = clicks + 1
      /\ lt' = [list |-> list, tabs |-> <<>>, active |-> NoTab, forms |-> 0]
      /\ ws' = Blank(ws.n + 1)
      /\ cp' = NewClassify(page' = "classify-label")
      /\ UNCHANGED <<store, wiz, runs, main, did, throttled>>
  BY DEF Leave, Click
<1>2. calls' = calls \/ calls' = Append(calls, c)
  <2>1. calls' = calls \o (IF page' = "labels" THEN <<c>> ELSE <<>>)
    BY DEF Leave
  <2>2. calls \in Seq(Range(calls))
    BY Facts DEF Queue
  <2> HIDE DEF c
  <2>3. calls \o <<>> = calls
    BY <2>2
  <2>4. calls \o <<c>> = Append(calls, c)
    BY <2>2
  <2> QED BY <2>1, <2>3, <2>4
<1>3. n \in Nat /\ n = lt.list.n + 1 /\ m \in Nat /\ m = mount + 1
  BY Facts, ClassifyFacts
<1> HIDE DEF n
<1>4. /\ list \in ListType /\ list.n = n /\ list.section = "label" /\ PageOK(lt')
      /\ TabsOK(<<>>, NoTab) /\ lt'.tabs = <<>> /\ lt'.active = NoTab /\ lt'.list = list
  BY <1>1, <1>3, NewListOK
<1>5. SpaceOK(ws') /\ InSpace(ws', NoTab) /\ ws'.n = ws.n + 1 /\ ws'.mode = "none"
  <2>1. ws.n + 1 \in Nat
    BY Facts
  <2> QED BY <1>1, <2>1, BlankOK
<1> HIDE DEF list, m
<1>6. LabelInv'
  BY <1>1, <1>4, <1>5, Facts DEF LabelInv
<1>7. Sensible(c) /\ c.for.op = "list" /\ c.for.n = n /\ c.what = list
  <2>1. Sensible(c) /\ c.for = [op |-> "list", n |-> list.n] /\ c.what = list
    BY <1>4, FetchListIs
  <2> HIDE DEF c
  <2> QED BY <1>4, <2>1
<1> HIDE DEF c
<1>8. Wanted(c, list, ws')
  BY <1>3, <1>4, <1>7 DEF Wanted
<1>9. \A d \in Range(calls) : Wanted(d, list, ws') /\ OfARun(d, runs)
  <2> SUFFICES ASSUME NEW d \in Range(calls) PROVE Wanted(d, list, ws') /\ OfARun(d, runs)
    OBVIOUS
  <2>1. Sensible(d) /\ Wanted(d, lt.list, ws) /\ OfARun(d, runs)
    BY Facts DEF Queue
  <2> QED BY <1>3, <1>4, <1>5, <2>1, Facts, WantedOn
<1>10. /\ Queue(calls') /\ OneScan(calls')
       /\ \A d \in Range(calls') : Wanted(d, list, ws') /\ OfARun(d, runs)
  <2>1. CASE calls' = calls
    BY <1>9, <2>1, Facts
  <2>2. CASE calls' = Append(calls, c)
    BY <1>7, <1>8, <1>9, <2>2, Facts, OneMore
  <2> QED BY <1>2, <2>1, <2>2
<1>11. CallsInv'
  BY <1>1, <1>4, <1>10 DEF CallsInv
<1>12. DetailInv'
  <2>1. DetailOK(calls', ws')
    BY <1>5, DetailNone
  <2> QED BY <1>1, <2>1, Facts DEF DetailInv
<1>13. \A k \in DOMAIN runs : runs[k].at # m /\ runs[k].at <= m
  <2> SUFFICES ASSUME NEW k \in DOMAIN runs PROVE runs[k].at # m /\ runs[k].at <= m
    OBVIOUS
  <2>1. runs[k].at <= mount /\ runs[k].at \in Nat
    BY ClassifyFacts DEF RunsOK, RunOK, RunType
  <2> QED BY <1>3, <2>1, ClassifyFacts
<1>14. RunsOK(runs, main.started, m) /\ OneRun(runs, cp'.running, m)
  BY <1>13, ClassifyFacts DEF RunsOK, OneRun
<1>15. cp' \in ClassType
  BY <1>1, EmptySeq DEF NewClassify, ClassType
<1>16. ClassifyInv'
  BY <1>1, <1>3, <1>14, <1>15, ClassifyFacts DEF ClassifyInv
<1>17. RunsDoAsAsked'
  BY <1>1 DEF RendererInv, RunsDoAsAsked
<1> QED BY <1>6, <1>11, <1>12, <1>16, <1>17 DEF RendererInv

LEMMA RendererStarts == Init => RendererInv
<1> SUFFICES ASSUME Init PROVE RendererInv
  OBVIOUS
<1> DEFINE list == NewList("label", 0)
           c == FetchList(list)
<1>1. /\ mount = 0 /\ clicks = 0 /\ throttled = 0
      /\ lt = [list |-> list, tabs |-> <<>>, active |-> NoTab, forms |-> 0]
      /\ ws = Blank(0)
      /\ cp = NewClassify(page = "classify-label") /\ wiz = NoWizard
      /\ runs = <<>> /\ did = {}
  BY DEF Init, SessionInit, LabelsInit, ClassifyInit
<1>2. calls = <<>> \/ calls = Append(<<>>, c)
  <2>1. calls = IF page = "labels" THEN <<c>> ELSE <<>>
    BY DEF Init, Mounted
  <2> HIDE DEF c
  <2>2. <<c>> = Append(<<>>, c)
    OBVIOUS
  <2> QED BY <2>1, <2>2
<1>3. /\ list \in ListType /\ list.n = 0 /\ list.section = "label" /\ PageOK(lt)
      /\ TabsOK(<<>>, NoTab) /\ lt.tabs = <<>> /\ lt.active = NoTab /\ lt.list = list
  BY <1>1, NewListOK
<1>4. SpaceOK(ws) /\ InSpace(ws, NoTab) /\ ws.n = 0 /\ ws.mode = "none"
  BY <1>1, BlankOK
<1> HIDE DEF list
<1>5. StoreOK(store)
  <2> DEFINE old(p) == [NoPolicy EXCEPT !.name = p, !.comment = p, !.labels = Publishes[p]]
  <2>1. store = [k \in PolicyKind |-> [p \in PolicyName |-> old(p)]]
    BY DEF Init, LabelsInit
  <2>2. \A p \in PolicyName : old(p) \in Policy /\ old(p).name = p
    <3> TAKE p \in PolicyName
    <3>1. /\ NoPolicy.mode \in Mode /\ NoPolicy.places \in SUBSET Location
          /\ Publishes[p] \in Texted /\ p \in Texted /\ p \in Name
      BY LabelTabsAssumption DEF NoPolicy, Mode, Texted, Name
    <3>2. NoPolicy \in Form /\ p \in Name \cup {""}
      BY <3>1, NoPolicyOK
    <3>3. old(p) \in Form /\ old(p).name = p
      BY ONLY <3>1, <3>2 DEF Form
    <3> HIDE DEF old
    <3> QED BY <3>1, <3>3 DEF Policy, Form
  <2> HIDE DEF old
  <2>3. \A k \in PolicyKind : store[k] = [p \in PolicyName |-> old(p)]
    BY <2>1
  <2>4. DOMAIN store = PolicyKind
    BY <2>1
  <2> QED BY <2>2, <2>3, <2>4 DEF StoreOK, Name
<1>6. LabelInv
  BY <1>3, <1>4, <1>5 DEF LabelInv
<1>7. Sensible(c) /\ c.for.op = "list" /\ c.for.n = 0 /\ c.what = list
  <2>1. Sensible(c) /\ c.for = [op |-> "list", n |-> list.n] /\ c.what = list
    BY <1>3, FetchListIs
  <2> HIDE DEF c
  <2> QED BY <1>3, <2>1
<1> HIDE DEF c
<1>8. Wanted(c, lt.list, ws)
  BY <1>3, <1>7 DEF Wanted
<1>9. Queue(<<>>) /\ OneScan(<<>>) /\ Range(<<>>) = {}
  BY EmptySeq DEF Queue, OneScan, Range
<1>10. CallsInv
  <2>1. CASE calls = <<>>
    BY <1>9, <2>1 DEF CallsInv
  <2>2. CASE calls = Append(<<>>, c)
    <3>1. \A d \in Range(<<>>) : Wanted(d, lt.list, ws) /\ OfARun(d, runs)
      BY <1>9
    <3> QED BY <1>7, <1>8, <1>9, <2>2, <3>1, OneMore DEF CallsInv
  <2> QED BY <1>2, <2>1, <2>2
<1>11. DetailInv
  BY <1>1, <1>4, DetailNone DEF DetailInv
<1>12. DOMAIN runs = {}
  BY <1>1, EmptySeq
<1>13. main \in MainType /\ main.job = None
  <2>1. PICK first \in FirstSaved :
          main = [saved |-> first, job |-> None, ids |-> Len(first), started |-> 0]
    BY DEF Init, ClassifyInit
  <2>2. first \in Seq(GoodPolicy)
    BY ClassifyAssumption DEF GoodPolicy
  <2>3. Len(first) \in Nat
    BY <2>2
  <2> QED BY <2>1, <2>2, <2>3 DEF MainType
<1>14. cp \in ClassType
  BY <1>1, EmptySeq DEF NewClassify, ClassType
<1>15. /\ RunsOK(runs, main.started, mount) /\ JobOK(main.job, runs)
       /\ OneRun(runs, cp.running, mount)
  BY <1>12, <1>13 DEF RunsOK, JobOK, OneRun
<1>16. ClassifyInv
  BY <1>1, <1>13, <1>14, <1>15, NoWizardOK DEF ClassifyInv
<1>17. RunsDoAsAsked
  BY <1>1 DEF RunsDoAsAsked
<1> QED BY <1>6, <1>10, <1>11, <1>16, <1>17 DEF RendererInv

-----------------------------------------------------------------------------
(* The theorems.                                                           *)

LEMMA RendererSteps == RendererInv /\ [Next]_vars => RendererInv'
<1> SUFFICES ASSUME RendererInv, [Next]_vars PROVE RendererInv'
  OBVIOUS
<1>1. CASE LabelsClicks /\ UNCHANGED classifyVars
  BY <1>1, LabelsClicked
<1>2. CASE ClassifyClicks /\ UNCHANGED labelVars
  BY <1>2, ClassifyClicked
<1>3. CASE Leave
  BY <1>3, Left
<1>4. CASE (RefuseCall \/ FailCall) /\ UNCHANGED <<labelVars, classifyVars>>
  BY <1>4, RefusedOrFailed
<1>5. CASE ThrottleCall /\ UNCHANGED <<labelVars, classifyVars>>
  BY <1>5, Throttled
<1>6. CASE LabelsRuns /\ UNCHANGED classifyVars
  BY <1>6, LabelsRan
<1>7. CASE ClassifyRuns /\ UNCHANGED labelVars
  BY <1>7, ClassifyRan
<1>8. CASE UNCHANGED vars
  BY <1>8 DEF vars, session, labelVars, classifyVars, RendererInv, LabelInv, ClassifyInv,
              CallsInv, DetailInv, RunsDoAsAsked
<1> QED BY <1>1, <1>2, <1>3, <1>4, <1>5, <1>6, <1>7, <1>8 DEF Next, Clicks, Bridge, Runs

\* What the pages, the commands in flight and the runs are, whatever the user
\* clicks and leaves behind: a command makes sense, its answer is wanted by the
\* list, the component or the run that asked for it, or by nobody.
THEOREM SpecRendererInv == Spec => []RendererInv
<1>1. Init => RendererInv
  BY RendererStarts
<1>2. RendererInv /\ [Next]_vars => RendererInv'
  BY RendererSteps
<1> QED BY <1>1, <1>2, PTL DEF Spec

-----------------------------------------------------------------------------
(* What a dialog has named.                                                *)

OnlyScans(q) == \A c \in Range(q) : c.for.op = "scan"
RemovalsOK(q) ==
  \A c \in Range(q) :
    (c.for.op = "delete" /\ c.what.settled) => c.what.named = c.what.identity

\* Under a dialog that has opened when nothing was awaited nothing is awaited but
\* scans, so that it shows what it has named until it is answered.
SettledInv ==
  /\ ws.asking => page = "labels"
  /\ (ws.asking /\ ws.settled /\ ~ws.deleting) =>
       ws.named = ws.shown.name /\ OnlyScans(calls)
  /\ RemovalsOK(calls)

\* No more is settled than was, and no dialog opens.
NoDialog(w, w2) ==
  w2.asking => w.asking /\ w2.settled = w.settled /\ w2.deleting = w.deleting

LEMMA SettledSame ==
  ASSUME NEW q, NEW q2, SameAsked(q, q2)
  PROVE  /\ RemovalsOK(q) => RemovalsOK(q2)
         /\ OnlyScans(q) => OnlyScans(q2)
<1>1. \A i \in DOMAIN q2 : /\ q2[i].for = q[i].for /\ q2[i].what = q[i].what
                           /\ q[i] \in Range(q)
  BY DEF SameAsked, Range
<1>2. \A c \in Range(q2) : \E d \in Range(q) : c.for = d.for /\ c.what = d.what
  BY <1>1 DEF Range
<1> QED BY <1>2 DEF RemovalsOK, OnlyScans

LEMMA SettledMore ==
  ASSUME NEW q, q \in Seq(Range(q)), NEW c, c.for.op # "delete", NEW q2, q2 = Append(q, c)
  PROVE  /\ RemovalsOK(q) => RemovalsOK(q2)
         /\ c.for.op = "scan" /\ OnlyScans(q) => OnlyScans(q2)
<1>1. Range(q2) = Range(q) \cup {c}
  BY Appended
<1> QED BY <1>1 DEF RemovalsOK, OnlyScans

LEMMA SettledLess ==
  ASSUME NEW q, NEW q2, Range(q2) \subseteq Range(q)
  PROVE  /\ RemovalsOK(q) => RemovalsOK(q2)
         /\ OnlyScans(q) => OnlyScans(q2)
BY DEF RemovalsOK, OnlyScans

LEMMA SettledTurn ==
  ASSUME NEW w \in SpaceType, ws' \in SpaceType, w.kind = "none" => lt.active = NoTab,
         NEW tabs, NEW tab, NEW forms, NEW cs, cs \in Seq(Range(cs)), RemovalsOK(cs), Turn(w, tabs, tab, forms, cs)
  PROVE  RemovalsOK(calls') /\ NoDialog(w, ws')
<1>1. ws' = Shown(w, lt.active, tab)
  BY DEF Turn
<1>2. NoDialog(w, ws')
  <2>1. CASE tab = lt.active
    BY <1>1, <2>1 DEF Shown, NoDialog
  <2>2. CASE tab # lt.active /\ w.kind = tab.kind /\ w.mode = tab.mode
    <3>1. tab # NoTab
      <4>1. NoTab.kind = "none"
        BY DEF NoTab
      <4> QED BY <2>2, <4>1
    <3>2. ws' = [w EXCEPT !.item = tab.item, !.loading = @ \/ tab.mode = "detail",
                          !.error = @ /\ tab.mode # "detail"]
      BY <1>1, <2>2, <3>1 DEF Shown
    <3>3. ws'.asking = w.asking /\ ws'.settled = w.settled /\ ws'.deleting = w.deleting
      BY <3>2 DEF SpaceType
    <3> QED BY <3>3 DEF NoDialog
  <2>3. CASE ~(tab = lt.active) /\ ~(tab # lt.active /\ w.kind = tab.kind /\ w.mode = tab.mode)
    <3>1. ws' = Blank(w.n + 1) \/ ws' = Fresh(w.n + 1, tab)
      BY <1>1, <2>3 DEF Shown
    <3>2. ws'.asking = FALSE
      <4>1. Blank(w.n + 1).asking = FALSE
        BY DEF Blank, Fresh
      <4>2. Fresh(w.n + 1, tab).asking = FALSE
        BY DEF Fresh
      <4> QED BY <3>1, <4>1, <4>2
    <3> QED BY <3>2 DEF NoDialog
  <2> QED BY <2>1, <2>2, <2>3
<1>3. Fetch(ws').for.op # "delete"
  BY DEF Fetch, Call, SpaceType
<1>4. calls' = cs \/ calls' = Append(cs, Fetch(ws'))
  BY DEF Turn
<1> QED BY <1>2, <1>3, <1>4, SettledMore

\* Where no dialog opens, and something is taken that is no scan's.
LEMMA SettledStep ==
  ASSUME SettledInv, page' = page, NoDialog(ws, ws'), ws.asking => ~OnlyScans(calls),
         RemovalsOK(calls')
  PROVE  SettledInv'
BY DEF SettledInv, NoDialog

\* Where the component in the workspace stays as it is.
LEMMA SettledStay ==
  ASSUME SettledInv, page' = page, ws' = ws, RemovalsOK(calls'),
         OnlyScans(calls) => OnlyScans(calls')
  PROVE  SettledInv'
BY DEF SettledInv

LEMMA SettledClicks ==
  ASSUME RendererInv, RendererInv', SettledInv, LabelsClicks
  PROVE  SettledInv'
<1>1. /\ ws \in SpaceType /\ ws' \in SpaceType /\ calls \in Seq(Range(calls))
      /\ RemovalsOK(calls) /\ UNCHANGED page
  <2>1. ws \in SpaceType /\ ws' \in SpaceType /\ calls \in Seq(Range(calls))
    BY Facts DEF RendererInv, LabelInv, SpaceOK, Queue
  <2> QED BY <2>1 DEF SettledInv, LabelsClicks, PickSection, RefreshList, OpenFromList, OpenNew,
                      PickTab, ShutTab, FollowLink, TypeInForm, SaveForm, CancelForm,
                      AskToDelete, AnswerDialog, OnLabels
<1>2. ASSUME ~ws.asking, NoDialog(ws, ws'), RemovalsOK(calls')
      PROVE  SettledInv'
  BY <1>1, <1>2, SettledStep
<1>3. CASE PickSection \/ RefreshList
  <2>1. PICK list : calls' = Append(calls, FetchList(list))
    BY <1>3 DEF PickSection, RefreshList
  <2>2. FetchList(list).for.op # "delete"
    BY DEF FetchList, Call
  <2>3. ~ws.asking /\ ws' = ws
    BY <1>3 DEF PickSection, RefreshList, OnLabels
  <2> QED BY <1>1, <1>2, <2>1, <2>2, <2>3, SettledMore DEF NoDialog
<1>4. CASE OpenFromList \/ OpenNew \/ PickTab \/ ShutTab \/ FollowLink \/ CancelForm
  <2>1. ~ws.asking /\ \E tabs, tab, forms : Turn(ws, tabs, tab, forms, calls)
    <3>1. \A tab : OpenTab(tab) => \E tabs, forms : Turn(ws, tabs, tab, forms, calls)
      BY DEF OpenTab
    <3>2. \A tab : CloseTab(ws, tab, calls)
                     => \E tabs, next, forms : Turn(ws, tabs, next, forms, calls)
      BY DEF CloseTab
    <3> QED BY <1>4, <3>1, <3>2
            DEF OpenFromList, OpenNew, PickTab, ShutTab, FollowLink, CancelForm, OnLabels
  <2>2. ws.kind = "none" => lt.active = NoTab
    BY Facts, InSpaceIs
  <2>3. RemovalsOK(calls') /\ NoDialog(ws, ws')
    BY <1>1, <2>1, <2>2, SettledTurn
  <2> QED BY <1>2, <2>1, <2>3
<1>5. CASE TypeInForm
  <2>1. ~ws.asking /\ calls' = calls /\ \E f : ws' = [ws EXCEPT !.form = f]
    BY <1>5 DEF TypeInForm, OnLabels
  <2> QED BY <1>1, <1>2, <2>1 DEF NoDialog, SpaceType
<1>6. CASE SaveForm
  <2>1. /\ ~ws.asking
        /\ \E a, b : ws' = [ws EXCEPT !.saving = a, !.error = b]
        /\ calls' = calls \/ \E c : c.for.op = "save" /\ calls' = Append(calls, c)
    <3>1. CASE ws' = [ws EXCEPT !.error = TRUE] /\ UNCHANGED calls
      <4>1. ws' = [ws EXCEPT !.saving = ws.saving, !.error = TRUE]
        BY <1>1, <3>1 DEF SpaceType
      <4> QED BY <1>6, <3>1, <4>1 DEF SaveForm, OnLabels
    <3>2. CASE ~(ws' = [ws EXCEPT !.error = TRUE] /\ UNCHANGED calls)
      BY <1>6, <3>2 DEF SaveForm, OnLabels, Call
    <3> QED BY <3>1, <3>2
  <2>2. ~ws'.asking
    BY <1>1, <2>1 DEF SpaceType
  <2>3. RemovalsOK(calls')
    BY <1>1, <2>1, SettledMore
  <2> QED BY <1>2, <2>1, <2>2, <2>3 DEF NoDialog
<1>7. CASE AskToDelete
  <2> DEFINE none == calls = <<>>
  <2>1. /\ page = "labels" /\ calls' = calls
        /\ ws' = [ws EXCEPT !.asking = TRUE, !.named = ws.shown.name, !.settled = none]
    BY <1>7 DEF AskToDelete, OnLabels
  <2> HIDE DEF none
  <2>2. ws'.named = ws.shown.name /\ ws'.shown = ws.shown /\ ws'.settled = none
    BY <1>1, <2>1 DEF SpaceType
  <2>3. none => OnlyScans(calls)
    BY EmptySeq DEF none, OnlyScans, Range
  <2> QED BY <1>1, <2>1, <2>2, <2>3 DEF SettledInv
<1>8. CASE AnswerDialog
  <2>1. CASE ws' = [ws EXCEPT !.asking = FALSE] /\ UNCHANGED calls
    <3>1. ~ws'.asking
      BY <1>1, <2>1 DEF SpaceType
    <3> QED BY <1>1, <2>1, <3>1 DEF SettledInv
  <2>2. CASE /\ ws' = [ws EXCEPT !.deleting = TRUE, !.error = FALSE]
             /\ calls' = Append(calls, RemoveCall(ws))
    <3> DEFINE c == RemoveCall(ws)
    <3>1. /\ page = "labels" /\ ws.asking /\ ~ws.deleting
      BY <1>8 DEF AnswerDialog
    <3>2. ws'.deleting
      BY <1>1, <2>2 DEF SpaceType
    <3>3. /\ c.what.identity = ws.shown.name /\ c.what.named = ws.named
          /\ c.what.settled = ws.settled
      BY DEF RemoveCall, Call
    <3> HIDE DEF c
    <3>4. c.what.settled => c.what.named = c.what.identity
      BY <3>1, <3>3 DEF SettledInv
    <3>5. Range(calls') = Range(calls) \cup {c}
      BY <1>1, <2>2, Appended DEF c
    <3>6. RemovalsOK(calls')
      BY <1>1, <3>4, <3>5 DEF RemovalsOK
    <3> QED BY <1>1, <3>1, <3>2, <3>6 DEF SettledInv
  <2> QED BY <1>8, <2>1, <2>2 DEF AnswerDialog
<1> QED BY <1>3, <1>4, <1>5, <1>6, <1>7, <1>8 DEF LabelsClicks

\* What PowerShell answers goes to the same questions.
LEMMA SettledAnswer ==
  ASSUME RendererInv, SettledInv, Waiting # {}, NEW st, NEW val, Answer(st, val),
         UNCHANGED <<page, ws>>
  PROVE  SettledInv'
<1> DEFINE i == Next1
           e == [calls[i] EXCEPT !.st = st, !.val = val]
<1>1. i \in DOMAIN calls /\ Sensible(calls[i])
  BY Facts, TheOneThatRuns
<1>2. calls' = [calls EXCEPT ![i] = e]
  BY <1>1 DEF Answer
<1>3. e.for = calls[i].for /\ e.what = calls[i].what
  <2> DEFINE d == calls[i]
  <2>1. d = [cmdlet |-> d.cmdlet, params |-> d.params, what |-> d.what, for |-> d.for,
             at |-> d.at, st |-> d.st, val |-> d.val]
    BY <1>1 DEF Sensible
  <2>2. e = [d EXCEPT !.st = st, !.val = val]
    OBVIOUS
  <2> HIDE DEF d
  <2>3. e.for = d.for /\ e.what = d.what
    BY ONLY <2>1, <2>2
  <2> QED BY <2>3 DEF d
<1> HIDE DEF i, e
<1>4. SameAsked(calls, calls')
  BY <1>1, <1>2, <1>3 DEF SameAsked
<1> QED BY <1>4, SettledSame, SettledStay DEF SettledInv

LEMMA SettledLabels ==
  ASSUME RendererInv, RendererInv', SettledInv, LabelsRuns
  PROVE  SettledInv'
<1>1. /\ ws \in SpaceType /\ ws' \in SpaceType /\ RemovalsOK(calls)
      /\ ws.kind = "none" => lt.active = NoTab
  BY Facts, InSpaceIs DEF RendererInv, LabelInv, SpaceOK, SettledInv
<1>2. CASE RunGet \/ RunSave \/ RunRemove
  <2>1. /\ Waiting # {} /\ (\E st, val : Answer(st, val)) /\ UNCHANGED <<page, ws>>
    BY <1>2 DEF RunGet, RunSave, RunRemove, Running, Kept, labelVars
  <2> QED BY <2>1, SettledAnswer
<1>3. ASSUME NEW op, Answered(op), op # "scan", page' = page, NoDialog(ws, ws'), RemovalsOK(calls')
      PROVE  SettledInv'
  <2>1. Head(calls) \in Range(calls) /\ Head(calls).for.op # "scan"
    BY <1>3, AnsweredIs
  <2> QED BY <1>3, <2>1, SettledStep DEF OnlyScans
<1>4. ASSUME NEW op, Answered(op)
      PROVE  Took \in Seq(Range(Took)) /\ RemovalsOK(Took)
  BY <1>1, <1>4, AnsweredIs, SettledLess DEF Queue
<1>5. CASE TakeList
  BY <1>3, <1>4, <1>5 DEF TakeList, Kept, NoDialog
<1>6. CASE TakeLabel
  <2>1. PICK c : calls' = Append(Took, c) /\ c.for.op = "policies"
    BY <1>6 DEF TakeLabel, Call
  <2>2. RemovalsOK(calls')
    BY <1>4, <1>6, <2>1, SettledMore DEF TakeLabel
  <2>3. NoDialog(ws, ws')
    BY <1>1, <1>6 DEF TakeLabel, NoDialog, SpaceType
  <2> QED BY <1>3, <1>6, <2>2, <2>3 DEF TakeLabel, Kept
<1>7. CASE TakePolicies
  <2>1. NoDialog(ws, ws')
    BY <1>1, <1>7 DEF TakePolicies, NoDialog, SpaceType
  <2> QED BY <1>3, <1>4, <1>7, <2>1 DEF TakePolicies, Kept
<1>8. CASE TakeDetail
  <2>1. NoDialog(ws, ws')
    BY <1>1, <1>8 DEF TakeDetail, NoDialog, SpaceType
  <2> QED BY <1>3, <1>4, <1>8, <2>1 DEF TakeDetail, Kept
<1>9. CASE TakeEdit
  <2>1. NoDialog(ws, ws')
    BY <1>1, <1>9 DEF TakeEdit, NoDialog, SpaceType
  <2> QED BY <1>3, <1>4, <1>9, <2>1 DEF TakeEdit, Kept
<1>10. CASE TakeSave
  <2> DEFINE w == IF Mine THEN [ws EXCEPT !.saving = FALSE, !.error = ~Succeeded] ELSE ws
  <2>1. /\ w \in SpaceType /\ w.kind = ws.kind /\ NoDialog(ws, w)
    BY <1>1 DEF SpaceType, NoDialog
  <2>2. CASE Succeeded /\ ~Stale
    <3>1. \E tabs, tab, forms : Turn(w, tabs, tab, forms, Took)
      BY <1>10, <2>2 DEF TakeSave, Saved
    <3> HIDE DEF w
    <3>2. RemovalsOK(calls') /\ NoDialog(w, ws')
      BY <1>1, <1>4, <1>10, <2>1, <3>1, SettledTurn DEF TakeSave
    <3>3. NoDialog(ws, ws')
      BY <2>1, <3>2 DEF NoDialog
    <3> QED BY <1>3, <1>10, <3>2, <3>3 DEF TakeSave, Kept
  <2>3. CASE ~(Succeeded /\ ~Stale)
    <3>1. ws' = w /\ calls' = Took
      BY <1>10, <2>3 DEF TakeSave
    <3> HIDE DEF w
    <3> QED BY <1>3, <1>4, <1>10, <2>1, <3>1 DEF TakeSave, Kept
  <2> QED BY <2>2, <2>3
<1>11. CASE TakeDelete
  <2> DEFINE w == IF Mine THEN [ws EXCEPT !.deleting = FALSE, !.asking = FALSE,
                                          !.error = ~Succeeded] ELSE ws
  <2> DEFINE error == ~Succeeded
  <2>1. /\ w \in SpaceType /\ w.kind = ws.kind /\ NoDialog(ws, w)
    <3>1. w = ws \/ w = [ws EXCEPT !.deleting = FALSE, !.asking = FALSE, !.error = error]
      OBVIOUS
    <3>2. error \in BOOLEAN
      OBVIOUS
    <3> HIDE DEF w, error
    <3>3. w.kind = ws.kind /\ w \in SpaceType /\ (w = ws \/ w.asking = FALSE)
      BY <1>1, <3>1, <3>2 DEF SpaceType
    <3> QED BY <3>3 DEF NoDialog
  <2>2. CASE Succeeded /\ ~Stale
    <3>1. \E tabs, tab, forms : Turn(w, tabs, tab, forms, Took)
      BY <1>11, <2>2 DEF TakeDelete, CloseTab
    <3> HIDE DEF w
    <3>2. RemovalsOK(calls') /\ NoDialog(w, ws')
      BY <1>1, <1>4, <1>11, <2>1, <3>1, SettledTurn DEF TakeDelete
    <3>3. NoDialog(ws, ws')
      BY <2>1, <3>2 DEF NoDialog
    <3> QED BY <1>3, <1>11, <3>2, <3>3 DEF TakeDelete, Kept
  <2>3. CASE ~(Succeeded /\ ~Stale)
    <3>1. ws' = w /\ calls' = Took
      BY <1>11, <2>3 DEF TakeDelete
    <3> HIDE DEF w
    <3> QED BY <1>3, <1>4, <1>11, <2>1, <3>1 DEF TakeDelete, Kept
  <2> QED BY <2>2, <2>3
<1> QED BY <1>2, <1>5, <1>6, <1>7, <1>8, <1>9, <1>10, <1>11 DEF LabelsRuns

\* No dialog of the Labels page is open on another page.
LEMMA SettledElsewhere ==
  ASSUME RendererInv, SettledInv, ClassifyClicks, UNCHANGED labelVars
  PROVE  SettledInv'
<1>1. page' = page /\ ws' = ws /\ ~ws.asking
  <2>1. page = "classify-label" /\ page' = page /\ ws' = ws
    BY DEF ClassifyClicks, ClickRun, AnswerRunDialog, ScheduleTick, ToggleDryRun, TogglePolicy,
           DeletePolicy, OpenWizard, NameAndEntities, PickTarget, ScopeFields, PickSchedule,
           MoveInWizard, SaveWizard, InWizard, OnClassify, labelVars
  <2> QED BY <2>1 DEF SettledInv
<1>2. RemovalsOK(calls) /\ calls \in Seq(Range(calls))
  BY Facts DEF Queue, SettledInv
<1>3. CASE OpenWizard
  <2>1. \E a, b : /\ calls' = calls \o <<a, b>>
                  /\ a.for.op = "wizardLabels" /\ b.for.op = "wizardSites"
    <3> DEFINE a == Call("Get-SLLabel", <<>>, <<>>, [op |-> "wizardLabels", n |-> clicks])
               b == Call("Get-SLSiteList", <<>>, <<>>, [op |-> "wizardSites", n |-> clicks])
    <3>1. a.for.op = "wizardLabels" /\ b.for.op = "wizardSites"
      BY DEF Call
    <3>2. calls' = calls \o <<a, b>>
      BY <1>3 DEF OpenWizard
    <3> HIDE DEF a, b
    <3> QED BY <3>1, <3>2
  <2> PICK a, b : /\ calls' = calls \o <<a, b>>
                 /\ a.for.op = "wizardLabels" /\ b.for.op = "wizardSites"
    BY <2>1
  <2> DEFINE U == Range(calls) \cup {a, b}
  <2>2. calls \in Seq(U) /\ a \in U /\ b \in U
    BY <1>2, SeqMonotonic
  <2> HIDE DEF U
  <2>3. calls \o <<a, b>> = Append(Append(calls, a), b)
    BY ONLY <2>2
  <2>4. RemovalsOK(Append(calls, a)) /\ Append(calls, a) \in Seq(Range(Append(calls, a)))
    BY <1>2, <2>1, SettledMore, Appended
  <2>5. RemovalsOK(calls')
    BY <2>1, <2>3, <2>4, SettledMore
  <2> QED BY <1>1, <2>5 DEF SettledInv
<1>4. CASE ~OpenWizard
  <2>1. calls' = calls
    BY <1>4 DEF ClassifyClicks, ClickRun, AnswerRunDialog, ScheduleTick, ToggleDryRun,
                TogglePolicy, DeletePolicy, NameAndEntities, PickTarget, ScopeFields,
                PickSchedule, MoveInWizard, SaveWizard, Drafted
  <2> QED BY <1>1, <1>2, <2>1 DEF SettledInv
<1> QED BY <1>3, <1>4

LEMMA SettledRuns ==
  ASSUME RendererInv, SettledInv, ClassifyRuns, UNCHANGED labelVars
  PROVE  SettledInv'
<1>1. page' = page /\ ws' = ws
  BY DEF ClassifyRuns, LoadPolicies, JobStartAnswered, JobCompletes, RunScan, TakeScan, RunLists,
         TakeLists, Kept, labelVars
<1>2. RemovalsOK(calls) /\ calls \in Seq(Range(calls))
  BY Facts DEF Queue, SettledInv
<1>3. CASE UNCHANGED calls
  BY <1>1, <1>2, <1>3, SettledStay
<1>4. CASE RunScan \/ RunLists
  <2>1. Waiting # {} /\ \E st, val : Answer(st, val)
    BY <1>4 DEF RunScan, RunLists, Running
  <2> QED BY <1>1, <2>1, SettledAnswer
<1>5. ASSUME NEW k, JobStartAnswered(k), ~UNCHANGED calls
      PROVE  SettledInv'
  <2>1. \E q, r : calls' = AskScan(calls, k, r)
    BY <1>5 DEF JobStartAnswered, FallBack, Scanning
  <2>2. PICK c : calls' = Append(calls, c) /\ c.for.op = "scan"
    BY <2>1 DEF AskScan, Call
  <2> QED BY <1>1, <1>2, <2>2, SettledMore, SettledStay
<1>6. CASE TakeScan
  <2>1. /\ Took \in Seq(Range(Took)) /\ Range(Took) \subseteq Range(calls)
    BY <1>6, AnsweredIs DEF TakeScan, Queue
  <2>2. /\ RemovalsOK(Took) /\ (OnlyScans(calls) => OnlyScans(Took))
    BY <1>2, <2>1, SettledLess
  <2>3. calls' = Took \/ \E k, r : calls' = AskScan(Took, k, r)
    BY <1>6 DEF TakeScan
  <2>4. calls' = Took \/ \E c : calls' = Append(Took, c) /\ c.for.op = "scan"
    <3> SUFFICES ASSUME NEW k, NEW r, calls' = AskScan(Took, k, r)
                 PROVE  \E c : calls' = Append(Took, c) /\ c.for.op = "scan"
      BY <2>3
    <3> DEFINE c == [Call("Invoke-SLAutoLabelScan", ScanParams(r.policy, r.dry, r.left[1]),
                          [policy |-> r.policy, dry |-> r.dry, site |-> r.left[1]],
                          [op |-> "scan", run |-> k]) EXCEPT !.at = r.at]
    <3>1. calls' = Append(Took, c)
      BY DEF AskScan
    <3>2. c.for.op = "scan"
      BY DEF Call
    <3> HIDE DEF c
    <3> QED BY <3>1, <3>2
  <2>5. RemovalsOK(calls') /\ (OnlyScans(calls) => OnlyScans(calls'))
    BY <2>1, <2>2, <2>4, SettledMore
  <2> QED BY <1>1, <2>5, SettledStay
<1>7. CASE TakeLists
  <2>1. PICK op : Answered(op) /\ op # "scan" /\ calls' = Took
    BY <1>7 DEF TakeLists
  <2>2. Range(Took) \subseteq Range(calls)
    BY <2>1, AnsweredIs
  <2> QED BY <1>1, <1>2, <2>1, <2>2, SettledLess, SettledStay
<1> QED BY <1>3, <1>4, <1>5, <1>6, <1>7 DEF ClassifyRuns, LoadPolicies, JobCompletes

LEMMA SettledSteps == RendererInv /\ SettledInv /\ [Next]_vars => SettledInv'
<1> SUFFICES ASSUME RendererInv, SettledInv, [Next]_vars PROVE SettledInv'
  OBVIOUS
<1>1. RendererInv'
  BY RendererSteps
<1>2. CASE LabelsClicks
  BY <1>1, <1>2, SettledClicks
<1>3. CASE ClassifyClicks /\ UNCHANGED labelVars
  BY <1>3, SettledElsewhere
<1>4. CASE Leave
  <2>1. ws'.asking = FALSE
    BY <1>4 DEF Leave, Blank, Fresh
  <2>2. calls \in Seq(Range(calls)) /\ RemovalsOK(calls)
    BY Facts DEF Queue, SettledInv
  <2>3. calls' = calls \/ \E c : calls' = Append(calls, c) /\ c.for.op = "list"
    <3>1. CASE page' = "labels"
      <4> DEFINE c == [FetchList(NewList("label", lt.list.n + 1)) EXCEPT !.at = mount']
      <4>1. calls' = calls \o <<c>>
        BY <1>4, <3>1 DEF Leave
      <4>2. c.for.op = "list"
        BY DEF FetchList, NewList, Call
      <4> DEFINE U == Range(calls) \cup {c}
      <4> HIDE DEF c
      <4>3. calls \in Seq(U) /\ c \in U
        BY <2>2, SeqMonotonic
      <4> HIDE DEF U
      <4>4. calls \o <<c>> = Append(calls, c)
        BY ONLY <4>3
      <4> QED BY <4>1, <4>2, <4>4
    <3>2. CASE page' # "labels"
      <4>1. calls' = calls \o <<>>
        BY <1>4, <3>2 DEF Leave
      <4> QED BY <2>2, <4>1
    <3> QED BY <3>1, <3>2
  <2>4. RemovalsOK(calls')
    BY <2>2, <2>3, SettledMore
  <2> QED BY <2>1, <2>4 DEF SettledInv
<1>5. CASE (RefuseCall \/ FailCall) /\ UNCHANGED <<labelVars, classifyVars>>
  <2>1. Waiting # {} /\ Answer("failed", <<>>) /\ UNCHANGED <<page, ws>>
    BY <1>5 DEF RefuseCall, FailCall, labelVars
  <2> QED BY <2>1, SettledAnswer
<1>6. CASE ThrottleCall /\ UNCHANGED <<labelVars, classifyVars>>
  <2>1. Queue(calls) /\ OneScan(calls) /\ Next1 \in DOMAIN calls /\ UNCHANGED <<page, ws>>
    BY <1>6, Facts, TheOneThatRuns DEF ThrottleCall, labelVars
  <2>2. Range(calls') \subseteq Range(calls)
    BY <1>6, <2>1, QueueRotated DEF ThrottleCall
  <2> QED BY <2>1, <2>2, SettledLess, SettledStay DEF SettledInv
<1>7. CASE LabelsRuns
  BY <1>1, <1>7, SettledLabels
<1>8. CASE ClassifyRuns /\ UNCHANGED labelVars
  BY <1>8, SettledRuns
<1>9. CASE UNCHANGED vars
  BY <1>9 DEF vars, session, labelVars, SettledInv
<1> QED BY <1>2, <1>3, <1>4, <1>5, <1>6, <1>7, <1>8, <1>9 DEF Next, Clicks, Bridge, Runs

\* Every command that the two pages send names a cmdlet of the registry, none
\* but the parameters it has there, and gives all that are required, none of
\* them empty: buildCommand throws at anything else (command-registry.ts), and
\* the renderer is checked against it nowhere.
THEOREM SpecCallsKeepTheContract == Spec => []CallsKeepTheContract
<1>1. RendererInv => CallsKeepTheContract
  <2> SUFFICES ASSUME RendererInv, NEW i \in DOMAIN calls
               PROVE  KeepsContract(calls[i].cmdlet, calls[i].params)
    BY DEF CallsKeepTheContract
  <2>1. Sensible(calls[i])
    BY Facts DEF Queue, Range
  <2> QED BY <2>1, SensibleKeeps
<1> QED BY <1>1, SpecRendererInv, PTL

\* What the registry marks guiConfirm is sent by the dialogs of the two forms
\* only, and where nothing was awaited when the dialog opened it is for the
\* policy that the dialog named then: no tab that comes to the front under it,
\* no answer and no scan puts another in its place (PolicyEditor.tsx,
\* AutoLabelEditor.tsx, ConfirmDialog.tsx).
THEOREM SpecAsksBeforeItRemoves == Spec => []AsksBeforeItRemoves
<1>1. Init => SettledInv
  <2> SUFFICES ASSUME Init PROVE SettledInv
    OBVIOUS
  <2>1. ws.asking = FALSE
    BY DEF Init, LabelsInit, Blank, Fresh
  <2>2. \A c \in Range(calls) : c.for.op = "list"
    <3>1. FetchList(NewList("label", 0)).for.op = "list"
      BY DEF FetchList, NewList, Call
    <3>2. calls = <<>> \/ calls = <<FetchList(NewList("label", 0))>>
      BY DEF Init, Mounted
    <3> QED BY <3>1, <3>2, EmptySeq DEF Range
  <2> QED BY <2>1, <2>2 DEF SettledInv, RemovalsOK
<1>2. RendererInv /\ SettledInv /\ [Next]_vars => SettledInv'
  BY SettledSteps
<1>3. RendererInv /\ SettledInv => AsksBeforeItRemoves
  <2> SUFFICES ASSUME RendererInv, SettledInv, NEW i \in DOMAIN calls
               PROVE  Registry[calls[i].cmdlet].guiConfirm =>
                        /\ calls[i].for.op = "delete"
                        /\ calls[i].what.settled =>
                             calls[i].what.named = calls[i].what.identity
    BY DEF AsksBeforeItRemoves
  <2>1. Sensible(calls[i]) /\ calls[i] \in Range(calls)
    BY Facts DEF Queue, Range
  <2> QED BY <2>1, SensibleKeeps DEF SettledInv, RemovalsOK
<1> QED BY <1>1, <1>2, <1>3, SpecRendererInv, PTL DEF Spec

\* The tabs of the Labels page are each there once, the active one is among
\* them and is what the workspace holds, through closing, saving and deleting
\* and answers to tabs that have gone (LabelsPage.tsx).
THEOREM SpecTabsAreSound == Spec => []TabsAreSound
<1>1. RendererInv => TabsAreSound
  BY Facts DEF TabsAreSound, TabsOK, InSpace
<1> QED BY <1>1, SpecRendererInv, PTL

\* When the last question has been answered, a detail shows the label or the
\* policy its tab is named after: LabelDetail.tsx and PolicyDetail.tsx take any
\* answer that comes while they are mounted, and only the order of the queue
\* makes the last one the right one.
THEOREM SpecDetailsShowTheirTab == Spec => []DetailsShowTheirTab
<1>1. RendererInv => DetailsShowTheirTab
  <2> SUFFICES ASSUME RendererInv, calls = <<>>, throttled = 0, Loaded
               PROVE  ws.shown.name = ws.item
    BY DEF DetailsShowTheirTab
  <2>1. ws.mode = "detail" /\ ~ws.loading /\ ~ws.error /\ ws.shown # NoPolicy
    BY DEF Loaded
  <2>2. DetailOK(calls, ws)
    BY Facts
  <2>3. Pending(calls, ws.n) = {}
    BY EmptySeq DEF Pending
  <2> QED BY <2>1, <2>2, <2>3 DEF DetailOK
<1> QED BY <1>1, SpecRendererInv, PTL

\* A run of a classification policy, by the job or by scans, labels nothing
\* where a dry run was asked for, no site but those of its policy, and with its
\* label; a job labels what the policy detects, and scans keep to the extensions
\* and spare what is labelled where the policy says so.  The job is told neither
\* (ClassifyLabelPage.tsx, JobsKeepToTheScope).
THEOREM SpecRunsDoAsAsked == Spec => []RunsDoAsAsked
<1>1. RendererInv => RunsDoAsAsked
  BY DEF RendererInv
<1> QED BY <1>1, SpecRendererInv, PTL

\* One mount of the page has one run at a time, and it is the one the page says
\* is running: by hand, by a dialog that the schedule has overtaken, or on
\* schedule (runPolicy in ClassifyLabelPage.tsx).
THEOREM SpecOneRunAtATime == Spec => []OneRunAtATime
<1>1. RendererInv => OneRunAtATime
  BY ClassifyFacts DEF OneRun, OneRunAtATime
<1> QED BY <1>1, SpecRendererInv, PTL
=============================================================================
