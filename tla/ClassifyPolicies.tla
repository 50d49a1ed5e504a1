--------------------------- MODULE ClassifyPolicies ---------------------------
(***************************************************************************)
(* The Classify & Label page of the desktop renderer: classification       *)
(* policies kept in the encrypted preferences, the wizard that edits them, *)
(* and their runs, by hand or on schedule, as a job of the main process or *)
(* else as one scan per site (ClassifyLabelPage.tsx, PolicyWizard.tsx,     *)
(* lib/classification-policy.ts).                                          *)
(*                                                                         *)
(* The preferences are read when the page is mounted, before the user's    *)
(* first click.                                                            *)
(***************************************************************************)
EXTENDS RendererSession

CONSTANTS
  Entities,     \* the entity types a policy may detect
  SiteNamed,    \* external: the display name of each SharePoint site
  FirstSaved,   \* the policies the preferences hold at first
  MaxPolicies,  \* bound: policies on the page
  None


VARIABLES
  cp,     \* the page's state
  wiz,    \* PolicyWizard
  runs,   \* the calls of runPolicy that have not returned, by their number
  main,   \* the main process: the policies in the preferences, the active job
  did     \* what has been labelled, or would have been: a history

classifyVars == <<cp, wiz, runs, main, did>>

Site == DOMAIN SiteNamed
Frequency == { "none", "daily", "weekly", "monthly" }
ClassPolicy ==
  [id : Nat, named : BOOLEAN, entities : SUBSET Entities, label : LabelId \cup {None},
   sites : Seq(Site), names : Seq(Range(SiteNamed)), extensions : BOOLEAN,
   skip : BOOLEAN, schedule : Frequency, enabled : BOOLEAN,
   summary : {None, "dry", "live"}]

\* A saved policy has a name for each of its sites.
ASSUME ClassifyAssumption ==
  /\ FirstSaved \subseteq Seq({ p \in ClassPolicy : Len(p.names) = Len(p.sites) })
  /\ None \notin Nat
  /\ MaxPolicies \in Nat \ {0}

createBlankPolicy(id) ==
  [id |-> id, named |-> FALSE, entities |-> {}, label |-> None, sites |-> <<>>,
   names |-> <<>>, extensions |-> FALSE, skip |-> TRUE, schedule |-> "none",
   enabled |-> TRUE, summary |-> None]

NoWizard == [open |-> FALSE, n |-> 0, step |-> 1, draft |-> createBlankPolicy(0),
             labels |-> FALSE, sites |-> FALSE]
NewClassify(mounted) ==
  [loading |-> mounted, policies |-> <<>>, running |-> None, dry |-> TRUE,
   confirm |-> None, delete |-> None]

ClassifyInit ==
  /\ cp = NewClassify(page = "classify-label")
  /\ wiz = NoWizard
  /\ runs = <<>> /\ did = {}
  /\ \E first \in FirstSaved :
       main = [saved |-> first, job |-> None, ids |-> Len(first), started |-> 0]

Policies == Range(cp.policies)
PolicyOf(id) == { p \in Policies : p.id = id }

LoadPolicies ==
  /\ page = "classify-label" /\ cp.loading
  /\ cp' = [cp EXCEPT !.loading = FALSE, !.policies = main.saved]
  /\ UNCHANGED <<wiz, runs, main, did, calls>> /\ Kept

\* savePolicies: shown, and written over what the preferences hold.
Saves(page1, policies) ==
  /\ cp' = [page1 EXCEPT !.policies = policies]
  /\ main' = [main EXCEPT !.saved = policies]

\* p in the place of the policy with its id.
Changed(policies, p) ==
  [i \in DOMAIN policies |-> IF policies[i].id = p.id THEN p ELSE policies[i]]

-----------------------------------------------------------------------------
(* Runs.                                                                   *)

\* What the wizard or a dialog covers cannot be clicked; the schedule goes on.
OnClassify(kind) == page = "classify-label" /\ ~cp.loading /\ Click(kind) /\ UNCHANGED <<page, mount>>
Uncovered == ~wiz.open /\ cp.confirm = None /\ cp.delete = None

\* What job:start is told of the policy: neither its extensions nor whether to
\* skip what is labelled.
JobConfigSansDry(policy, dry) ==
  [use_policies |-> TRUE, site_ids |-> policy.sites, target_label_id |-> policy.label,
   entity_types |-> policy.entities]
JobConfig(policy, dry) ==
  [use_policies |-> TRUE, dry_run |-> dry, site_ids |-> policy.sites,
   target_label_id |-> policy.label, entity_types |-> policy.entities]

\* runPolicy, up to its first await: it works with the policies of now.
Started(id, dry) ==
  /\ cp' = [cp EXCEPT !.running = id, !.confirm = None]
  /\ main' = [main EXCEPT !.started = @ + 1]
  /\ runs' = [k \in {main.started + 1} |->
       LET policy == CHOOSE p \in PolicyOf(id) : TRUE
       IN  [pc |-> "starting", at |-> mount, dry |-> dry, base |-> cp.policies,
            policy |-> policy, left |-> <<>>, sent |-> JobConfig(policy, dry),
            frees |-> FALSE]] ++ runs
RunPolicy(id, dry) ==
  IF PolicyOf(id) = {} \/ cp.running # None
    THEN UNCHANGED <<cp, runs, main>> ELSE Started(id, dry)

ClickRun ==
  /\ OnClassify("run") /\ Uncovered /\ cp.running = None
  /\ \E p \in Policies :
       IF cp.dry THEN RunPolicy(p.id, TRUE)
                 ELSE cp' = [cp EXCEPT !.confirm = p.id] /\ UNCHANGED <<runs, main>>
  /\ UNCHANGED <<wiz, did, calls>>

\* A scheduled run may have begun behind the dialog.
AnswerRunDialog ==
  /\ OnClassify("run") /\ cp.confirm # None
  /\ \/ RunPolicy(cp.confirm, FALSE)
     \/ cp' = [cp EXCEPT !.confirm = None] /\ UNCHANGED <<runs, main>>
  /\ UNCHANGED <<wiz, did, calls>>

\* The minute's check finds a policy due.
ScheduleTick ==
  /\ OnClassify("schedule") /\ cp.running = None
  /\ \E p \in Policies : /\ p.enabled /\ p.schedule # "none"
                         /\ RunPolicy(p.id, FALSE)
  /\ UNCHANGED <<wiz, did, calls>>

ToggleDryRun ==
  /\ OnClassify("run") /\ Uncovered /\ cp.policies # <<>>
  /\ cp' = [cp EXCEPT !.dry = ~@]
  /\ UNCHANGED <<wiz, runs, main, did, calls>>

\* One scan per site, or one that names no site at all.
ScopeParams(policy, dry, site) ==
  [LabelId |-> "guid", Recursive |-> "yes"]
  ++ (IF site # None THEN [SiteId |-> "text"] ELSE <<>>)
  ++ (IF policy.extensions THEN [Extensions |-> "list"] ELSE <<>>)
  ++ (IF policy.skip THEN [SkipAlreadyLabeled |-> "yes"] ELSE <<>>)
ScanParams(policy, dry, site) ==
  ScopeParams(policy, dry, site) ++ (IF dry THEN [DryRun |-> "yes"] ELSE <<>>)

AskScan(cs, k, r) ==
  Append(cs, [Call("Invoke-SLAutoLabelScan", ScanParams(r.policy, r.dry, r.left[1]),
                   [policy |-> r.policy, dry |-> r.dry, site |-> r.left[1]],
                   [op |-> "scan", run |-> k])
              EXCEPT !.at = r.at])

\* runPolicyViaPowerShell: the scans take the place of the job.  After it the
\* page is ready for the next run only where job:start has thrown.
Scanning(k, thrown) ==
  LET r == [runs[k] EXCEPT !.pc = "scanning", !.frees = thrown,
                           !.left = IF runs[k].policy.sites = <<>> THEN <<None>>
                                    ELSE runs[k].policy.sites]
  IN  runs' = [runs EXCEPT ![k] = r] /\ calls' = AskScan(calls, k, r)
FallBackUnawaited(k, thrown) ==
  /\ Scanning(k, thrown)
  /\ cp' = [cp EXCEPT !.running = IF runs[k].at = mount THEN None ELSE @]
FallBack(k, thrown) == Scanning(k, thrown) /\ UNCHANGED cp

\* What a job of LocalJobRunner does with what it is told.
JobDoes(r) ==
  [as |-> "job", policy |-> r.policy, asked |-> r.dry,
   dry |-> "dry_run" \in DOMAIN r.sent /\ r.sent.dry_run,
   on |-> IF r.sent.site_ids = <<>> THEN Site ELSE Range(r.sent.site_ids),
   label |-> r.sent.target_label_id, entities |-> r.sent.entity_types,
   extensions |-> "extensions" \in DOMAIN r.sent,
   skip |-> "skip_already_labeled" \in DOMAIN r.sent]

\* job:start is answered, refused while another job is active; or the call of it
\* throws.
JobStartAnswered(k) ==
  /\ runs[k].pc = "starting"
  /\ \/ /\ main.job # None /\ FallBack(k, FALSE)
        /\ UNCHANGED <<main, did, faults>>
     \/ /\ faults < sitting.faults /\ faults' = faults + 1
        /\ FallBack(k, TRUE)
        /\ UNCHANGED <<main, did>>
     \/ /\ main.job = None
        /\ main' = [main EXCEPT !.job = k]
        /\ runs' = [runs EXCEPT ![k].pc = "waiting"]
        /\ did' = did \cup {JobDoes(runs[k])}
        /\ UNCHANGED <<calls, cp, faults>>
  /\ UNCHANGED <<wiz, page, mount, sitting, clicks, throttled>>

\* The summary goes to the policies there were when the run began.
Summed(r) ==
  [i \in DOMAIN r.base |->
     IF r.base[i].id = r.policy.id
       THEN [r.base[i] EXCEPT !.summary = IF r.dry THEN "dry" ELSE "live"]
       ELSE r.base[i]]

\* job:completed.  Where the page that began the run is gone the promise is never
\* resolved, and the run waits for ever.
JobCompletesUnheard ==
  /\ main.job # None
  /\ main' = [main EXCEPT !.job = None]
  /\ UNCHANGED <<cp, runs, wiz, did, calls>> /\ Kept
JobCompletes ==
  /\ main.job # None
  /\ LET r == runs[main.job]
     IN  IF r.at = mount
           THEN /\ cp' = [cp EXCEPT !.policies = Summed(r), !.running = None]
                /\ main' = [main EXCEPT !.saved = Summed(r), !.job = None]
                /\ runs' = Restrict(runs, DOMAIN runs \ {main.job})
           ELSE main' = [main EXCEPT !.job = None] /\ UNCHANGED <<cp, runs>>
  /\ UNCHANGED <<wiz, did, calls>> /\ Kept

\* External: a scan needs a site or a drive, and looks for nothing in the files.
RunScan ==
  /\ Running("Invoke-SLAutoLabelScan")
  /\ LET what == calls[Next1].what
     IN  IF Says("SiteId")
           THEN /\ Answer("ok", <<>>)
                /\ did' = did \cup { [as |-> "scan", policy |-> what.policy,
                     asked |-> what.dry, dry |-> Says("DryRun"), on |-> {what.site},
                     label |-> what.policy.label, entities |-> {},
                     extensions |-> Says("Extensions"),
                     skip |-> Says("SkipAlreadyLabeled")] }
           ELSE Answer("failed", <<>>) /\ UNCHANGED did
  /\ UNCHANGED <<cp, wiz, runs, main>> /\ Kept

\* The next site, whoever looks at the page; after the last one the summary is
\* saved, and the page goes on saying that the policy is running, unless
\* job:start had thrown.
TakeScan ==
  /\ Answered("scan")
  /\ LET k == Head(calls).for.run
         r == [runs[k] EXCEPT !.left = Tail(@)]
     IN  IF r.left # <<>>
           THEN /\ runs' = [runs EXCEPT ![k] = r]
                /\ calls' = AskScan(Took, k, r)
                /\ UNCHANGED <<cp, main>>
           ELSE /\ runs' = Restrict(runs, DOMAIN runs \ {k})
                /\ calls' = Took
                /\ IF r.at = mount
                     THEN Saves([cp EXCEPT !.running = IF r.frees THEN None ELSE @],
                                Summed(r))
                     ELSE UNCHANGED <<cp, main>>
  /\ UNCHANGED <<wiz, did>> /\ Kept

-----------------------------------------------------------------------------
(* The list and the wizard.                                                *)

TogglePolicy ==
  /\ OnClassify("edit") /\ Uncovered
  /\ \E p \in Policies :
       Saves(cp, Changed(cp.policies, [p EXCEPT !.enabled = ~@]))
  /\ UNCHANGED <<wiz, runs, did, calls>>

DeletePolicy ==
  /\ OnClassify("edit")
  /\ \/ /\ Uncovered
        /\ \E p \in Policies : cp' = [cp EXCEPT !.delete = p.id]
        /\ UNCHANGED main
     \/ /\ cp.delete # None
        /\ Saves([cp EXCEPT !.delete = None],
                 Filtered(cp.policies, LAMBDA p : p.id # cp.delete))
     \/ /\ cp.delete # None
        /\ cp' = [cp EXCEPT !.delete = None]
        /\ UNCHANGED main
  /\ UNCHANGED <<wiz, runs, did, calls>>

\* The wizard asks for the labels and the sites to choose from.
OpenWizard ==
  /\ OnClassify("wizard") /\ Uncovered
  /\ \E draft \in Policies \cup {createBlankPolicy(main.ids + 1)} :
       /\ draft \in Policies \/ Len(cp.policies) < MaxPolicies
       /\ wiz' = [NoWizard EXCEPT !.open = TRUE, !.n = clicks, !.draft = draft]
       /\ main' = [main EXCEPT !.ids = IF draft \in Policies THEN @ ELSE @ + 1]
  /\ calls' = calls \o << Call("Get-SLLabel", <<>>, <<>>, [op |-> "wizardLabels", n |-> clicks]),
                          Call("Get-SLSiteList", <<>>, <<>>, [op |-> "wizardSites", n |-> clicks]) >>
  /\ UNCHANGED <<cp, runs, did>>

RunLists ==
  /\ \E cmdlet \in {"Get-SLLabel", "Get-SLSiteList"} : Running(cmdlet)
  /\ calls[Next1].for.op \in {"wizardLabels", "wizardSites"}
  /\ Answer("ok", <<>>)
  /\ UNCHANGED classifyVars /\ Kept

TakeLists ==
  /\ Answered("wizardLabels") \/ Answered("wizardSites")
  /\ calls' = Took
  /\ wiz' = IF ~Succeeded \/ ~wiz.open \/ Head(calls).for.n # wiz.n THEN wiz
            ELSE IF Head(calls).for.op = "wizardLabels" THEN [wiz EXCEPT !.labels = TRUE]
            ELSE [wiz EXCEPT !.sites = TRUE]
  /\ UNCHANGED <<cp, runs, main, did>> /\ Kept

InWizard(step) == OnClassify("wizard") /\ wiz.open /\ wiz.step = step
Drafted(draft) ==
  /\ wiz' = [wiz EXCEPT !.draft = draft]
  /\ UNCHANGED <<cp, runs, main, did, calls>>

NameAndEntities ==
  /\ InWizard(1)
  /\ LET d == wiz.draft
     IN  \/ \E b \in BOOLEAN \ {d.named} : Drafted([d EXCEPT !.named = b])
         \/ \E e \in Entities : Drafted([d EXCEPT !.entities = SymDiff(@, {e})])

PickTarget ==
  /\ InWizard(2) /\ wiz.labels
  /\ \E l \in LabelId \ {wiz.draft.label} : Drafted([wiz.draft EXCEPT !.label = l])

\* The names go with the ids, position by position.
ToggledSite(d, site) ==
  IF Contains(d.sites, site)
    THEN LET i == CHOOSE j \in DOMAIN d.sites : d.sites[j] = site
         IN  [d EXCEPT !.sites = RemoveAt(@, i), !.names = RemoveAt(@, i)]
    ELSE [d EXCEPT !.sites = Append(@, site), !.names = Append(@, SiteNamed[site])]

ScopeFields ==
  /\ InWizard(3)
  /\ LET d == wiz.draft
     IN  \/ wiz.sites /\ \E site \in Site : Drafted(ToggledSite(d, site))
         \/ Drafted([d EXCEPT !.extensions = ~@])
         \/ Drafted([d EXCEPT !.skip = ~@])

PickSchedule ==
  /\ InWizard(4)
  /\ \E freq \in Frequency \ {wiz.draft.schedule} : Drafted([wiz.draft EXCEPT !.schedule = freq])

CanProceed(w) ==
  /\ w.step = 1 => w.draft.named /\ w.draft.entities # {}
  /\ w.step = 2 => w.draft.label # None

MoveInWizard ==
  /\ OnClassify("wizard") /\ wiz.open
  /\ \/ wiz.step < 4 /\ CanProceed(wiz) /\ wiz' = [wiz EXCEPT !.step = @ + 1]
     \/ wiz.step > 1 /\ wiz' = [wiz EXCEPT !.step = @ - 1]
     \/ wiz' = NoWizard
  /\ UNCHANGED <<cp, runs, main, did, calls>>

\* handleSavePolicy: in the place of the policy with its id, or after the others.
SaveWizard ==
  /\ InWizard(4)
  /\ wiz.draft.named /\ wiz.draft.entities # {} /\ wiz.draft.label # None
  /\ Saves(cp, IF PolicyOf(wiz.draft.id) # {}
                 THEN Changed(cp.policies, wiz.draft)
                 ELSE Append(cp.policies, wiz.draft))
  /\ wiz' = NoWizard
  /\ UNCHANGED <<runs, did, calls>>

ClassifyClicks ==
  \/ ClickRun \/ AnswerRunDialog \/ ScheduleTick \/ ToggleDryRun
  \/ TogglePolicy \/ DeletePolicy
  \/ OpenWizard \/ NameAndEntities \/ PickTarget \/ ScopeFields \/ PickSchedule
  \/ MoveInWizard \/ SaveWizard

ClassifyRuns ==
  \/ LoadPolicies \/ \E k \in DOMAIN runs : JobStartAnswered(k)
  \/ JobCompletes \/ RunScan \/ TakeScan \/ RunLists \/ TakeLists

-----------------------------------------------------------------------------
(* Properties.                                                             *)

ClassifyTypeOK ==
  /\ Policies \cup Range(main.saved) \cup {wiz.draft} \subseteq ClassPolicy
  /\ cp.running \in Nat \cup {None} /\ main.job \in DOMAIN runs \cup {None}
  /\ wiz.step \in 1 .. 4
  /\ \A k \in DOMAIN runs : runs[k].pc \in {"starting", "waiting", "scanning"}

\* Whether a job or scans do it, a run labels nothing unless it was meant to,
\* no site but those of its policy, if it has any, and with its label.  A job
\* labels what the policy detects; a scan keeps to the extensions of the policy
\* and spares what is labelled already where the policy says so.
RunsDoAsAsked ==
  \A d \in did :
    /\ d.asked => d.dry
    /\ d.policy.sites # <<>> => d.on \subseteq Range(d.policy.sites)
    /\ d.label = d.policy.label
    /\ d.as = "job" => d.entities = d.policy.entities
    /\ d.as = "scan" /\ d.policy.extensions => d.extensions
    /\ d.as = "scan" /\ d.policy.skip => d.skip

\* Not true of the code: "Skip files that already have any sensitivity label"
\* (PolicyWizard.tsx) and the extensions bind the scans only.
JobsKeepToTheScope ==
  \A d \in did : (d.policy.extensions => d.extensions) /\ (d.policy.skip => d.skip)

\* Not true of the code: the scans that take the place of a job label every file
\* of the sites, whatever is in it.
ScansDetectFirst == \A d \in did : d.entities = d.policy.entities

\* The page runs one policy at a time, by hand, by a dialog that was left open,
\* or on schedule: the one it says is running.
OneRunAtATime ==
  \A k \in DOMAIN runs : runs[k].at = mount =>
    /\ cp.running = runs[k].policy.id
    /\ \A l \in DOMAIN runs : runs[l].at = mount => l = k

\* "Delete ...? This cannot be undone." (ClassifyLabelPage.tsx): a policy that is
\* gone does not come back.
DeletedStaysDeleted ==
  [][\A p \in Range(cp'.policies) :
       (page' = page /\ mount' = mount /\ ~cp.loading)
         => p.id \in { q.id : q \in Policies } \cup {wiz.draft.id}]_cp
=============================================================================
