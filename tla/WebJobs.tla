------------------------------- MODULE WebJobs --------------------------------
(***************************************************************************)
(* The Jobs page of the web client (pages/JobsPage.tsx): the list of the   *)
(* selected tenant's jobs a page at a time, the buttons of each row, the   *)
(* dialog that creates a job and the panel with a job's results.           *)
(***************************************************************************)
EXTENDS WebSession, JobStates

CONSTANTS
  Site,       \* the tenant's SharePoint sites, as search results
  PageSize,   \* rows of a page of jobs
  MaxJobs,    \* bound: jobs the server ever holds; it fails to add more
  FirstJobs   \* the server's jobs at the start: a set of sequences of jobs

VARIABLES
  jobs,     \* the server's jobs, oldest first: [tenant, status, config, asked]
  jp,       \* the page
  form,     \* CreateJobDialog, or Closed
  panel     \* JobDetailPanel, or Closed

jobsVars == <<jobs, jp, form, panel>>

Closed == [open |-> FALSE]

Once == "once"   \* no schedule: schedule_cron is null

\* A job's settings are those the dialog showed; a schedule whose expression
\* was emptied is none.
Agrees(config, asked) ==
  /\ config.use_policies <=> asked.labels = "by policy"
  /\ config.target_label_id <=> asked.labels = "one label"
  /\ config.site_ids = asked.sites /\ config.dry_run = asked.dryRun
  /\ config.schedule_cron = IF asked.cron = "" THEN Once ELSE asked.cron

ASSUME FirstJobsAssumption ==
  \A js \in FirstJobs :
    /\ js \in Seq(Range(js))
    /\ \A j \in 1 .. Len(js) :
         /\ DOMAIN js[j] = {"tenant", "status", "config", "asked"}
         /\ Agrees(js[j].config, js[j].asked)

-----------------------------------------------------------------------------
(* The server: app/routers/jobs.py.                                        *)

CopyFrom == { "completed", "failed", "rolled_back" }

\* A page of a tenant's jobs, newest first, and how many there are.
ListJobs(t, p) ==
  LET ids == SelectSeq([i \in 1 .. Len(jobs) |-> Len(jobs) + 1 - i],
                       LAMBDA j : jobs[j].tenant = t)
      first == (p - 1) * PageSize + 1
      last == IF p * PageSize < Len(ids) THEN p * PageSize ELSE Len(ids)
  IN  [items |-> [i \in 1 .. (IF last < first THEN 0 ELSE last - first + 1) |->
                    [id |-> ids[first + i - 1],
                     status |-> jobs[ids[first + i - 1]].status]],
       total |-> Len(ids)]

ServeJobs(s) ==
  /\ \/ Asked(s, "jobs")
     \/ Asked(s, "reload")
  /\ IF Allowed("Viewer")
       THEN Reply(s, ListJobs(net[s].arg.tenant, net[s].arg.page))
       ELSE Refuse(s)
  /\ UNCHANGED <<user, page, tenant, consent, visits, clicks, faults, jobsVars>>

\* The job is looked up among the tenant's.
JobOf(t, j) == j \in 1 .. Len(jobs) /\ jobs[j].tenant = t

\* copy makes a new job of an ended one.
ServeAction(s) ==
  LET a == net[s].arg
      found == JobOf(a.tenant, a.job)
      status == jobs[a.job].status
  IN
  /\ Asked(s, "act")
  /\ \/ /\ Allowed("Operator") /\ found
        /\ \/ /\ a.action \in UserActions /\ status \in TransitionFrom[a.action]
              /\ \E to \in TransitionTo[a.action] :
                   jobs' = [jobs EXCEPT ![a.job].status = to]
           \/ /\ a.action = "copy" /\ status \in CopyFrom /\ Len(jobs) < MaxJobs
              /\ jobs' = Append(jobs, [jobs[a.job] EXCEPT !.status = "pending"])
        /\ Reply(s, <<>>)
     \/ /\ \/ ~Allowed("Operator") \/ ~found
           \/ a.action \in UserActions /\ status \notin TransitionFrom[a.action]
           \/ a.action = "copy" /\ (status \notin CopyFrom \/ Len(jobs) = MaxJobs)
        /\ Refuse(s)
        /\ UNCHANGED jobs
  /\ UNCHANGED <<user, page, tenant, consent, visits, clicks, faults, jp, form, panel>>

\* _validate_cron: null, or five fields and not every few minutes.
ValidCron(c) == c # "malformed"

ServeCreate(s) ==
  /\ Asked(s, "create")
  /\ IF /\ Allowed("Operator") /\ Len(jobs) < MaxJobs
        /\ ValidCron(net[s].arg.config.schedule_cron)
       THEN /\ jobs' = Append(jobs, [tenant |-> net[s].arg.tenant,
                                     status |-> "pending",
                                     config |-> net[s].arg.config,
                                     asked |-> net[s].arg.asked])
            /\ Reply(s, <<>>)
       ELSE Refuse(s) /\ UNCHANGED jobs
  /\ UNCHANGED <<user, page, tenant, consent, visits, clicks, faults, jp, form, panel>>

\* The worker moves a job along the diagram.
WorkerMoves ==
  /\ page = "jobs" /\ "worker" \in visits.does
  /\ \E j \in 1 .. Len(jobs), e \in WorkerEdges :
       /\ jobs[j].status = e[1]
       /\ jobs' = [jobs EXCEPT ![j].status = e[2]]
  /\ UNCHANGED <<session, jp, form, panel>>

\* Labels, sites and results are told apart by what was asked for.
ServeLookup(s) ==
  /\ Asked(s, "labels") \/ Asked(s, "sites") \/ Asked(s, "results")
  /\ IF Allowed("Viewer") THEN Reply(s, net[s].arg) ELSE Refuse(s)
  /\ UNCHANGED <<user, page, tenant, consent, visits, clicks, faults, jobsVars>>

-----------------------------------------------------------------------------
(* The list.                                                               *)

\* The buttons a row offers, by the status it shows.
JOB_ACTIONS ==
  [ pending |-> {"start"}, enumerating |-> {"pause", "cancel"},
    running |-> {"pause", "cancel"}, paused |-> {"resume", "cancel"},
    completed |-> {"rollback", "copy"}, failed |-> {"copy"},
    rolled_back |-> {"copy"}, rolling_back |-> {} ]

TotalPages == (jp.total + PageSize - 1) \div PageSize

NewPage == [rows |-> <<>>, rowsOf |-> NoTenant, total |-> 0, page |-> 1,
            loading |-> FALSE, acting |-> 0]

\* loadJobs as its callers close over it: tenant and page of their render.
Loading(n, op, t, p) ==
  /\ Free(n) > 0
  /\ net' = Sent(n, op, [tenant |-> t, page |-> p])

\* The effect runs loadJobs again whenever the tenant or the page changes.
Reloaded(n, t, p, state) ==
  IF t = NoTenant
    THEN net' = n /\ jp' = [state EXCEPT !.page = p]
    ELSE /\ Loading(n, "jobs", t, p)
         /\ jp' = [state EXCEPT !.page = p, !.loading = TRUE]

TakeTenants(s) ==
  /\ page = "jobs" /\ Answered(s, "tenants")
  /\ tenant' = ChosenBy(s)
  /\ IF tenant' # tenant
       THEN Reloaded(Done(net, s), tenant', jp.page, jp)
       ELSE net' = Done(net, s) /\ UNCHANGED jp
  /\ UNCHANGED <<user, page, consent, visits, clicks, faults, jobs, form, panel>>

\* Nothing ties an answer to the tenant and the page that are selected now.
\* The reload that follows an action gives the buttons of its row back.
TakeJobs(s) ==
  /\ Answered(s, "jobs") \/ Answered(s, "reload")
  /\ LET a == net[s].val
         filled == IF Succeeded(s)
                     THEN [jp EXCEPT !.rows = a.items, !.total = a.total,
                                     !.rowsOf = net[s].arg.tenant]
                     ELSE jp
     IN  jp' = [filled EXCEPT
                  !.loading = FALSE,
                  !.acting = IF net[s].op = "reload" THEN 0 ELSE @]
  /\ net' = Done(net, s)
  /\ UNCHANGED <<user, page, tenant, consent, visits, clicks, faults, jobs, form, panel>>

NoDialog == form = Closed /\ panel = Closed
TableShown == page = "jobs" /\ NoDialog /\ ~jp.loading

\* The page number stays when the tenant changes.
SelectTenant ==
  /\ page = "jobs" /\ NoDialog /\ Click("browse")
  /\ \E t \in Selectable \ {tenant} :
       tenant' = t /\ Reloaded(net, t, jp.page, jp)
  /\ UNCHANGED <<user, page, consent, faults, jobs, form, panel>>

TurnPage ==
  /\ TableShown /\ TotalPages > 1 /\ Click("browse")
  /\ \E p \in { jp.page - 1, jp.page + 1 } :
       /\ p < jp.page => jp.page > 1
       /\ p > jp.page => jp.page < TotalPages
       /\ Reloaded(net, tenant, p, jp)
  /\ UNCHANGED <<user, page, tenant, consent, faults, jobs, form, panel>>

\* A row's button: `acting` holds one row, so a second row's click frees the
\* buttons of the first.
DoAction ==
  /\ TableShown /\ tenant # NoTenant /\ Click("act")
  /\ \E i \in 1 .. Len(jp.rows) :
       \E action \in JOB_ACTIONS[jp.rows[i].status] :
         /\ jp.acting # jp.rows[i].id
         /\ Free(net) > 0
         /\ jp' = [jp EXCEPT !.acting = jp.rows[i].id]
         /\ net' = Sent(net, "act", [tenant |-> tenant, page |-> jp.page,
                                     job |-> jp.rows[i].id, action |-> action])
  /\ UNCHANGED <<user, page, tenant, consent, faults, jobs, form, panel>>

TakeAction(s) ==
  /\ Answered(s, "act")
  /\ IF Succeeded(s)
       THEN /\ Loading(Done(net, s), "reload", net[s].arg.tenant, net[s].arg.page)
            /\ jp' = [jp EXCEPT !.loading = TRUE]
       ELSE /\ net' = Done(net, s)
            /\ jp' = [jp EXCEPT !.acting = 0]
  /\ UNCHANGED <<user, page, tenant, consent, visits, clicks, faults, jobs, form, panel>>

-----------------------------------------------------------------------------
(* The dialog that creates a job.                                          *)

NewForm == [open |-> TRUE, named |-> FALSE, mode |-> "policy", label |-> FALSE,
            dryRun |-> FALSE, scope |-> "all", sites |-> {}, search |-> "",
            options |-> {}, timer |-> FALSE, scheduled |-> FALSE,
            preset |-> "weekly", cron |-> "weekly"]

OpenForm ==
  /\ page = "jobs" /\ NoDialog /\ tenant # NoTenant /\ HasRole("Operator") /\ Click("form")
  /\ Free(net) > 0
  /\ form' = NewForm
  /\ net' = Sent(net, "labels", [tenant |-> tenant])
  /\ UNCHANGED <<user, page, tenant, consent, faults, jobs, jp, panel>>

\* The answers of a dialog that is gone are nobody's.
CloseForm ==
  /\ form.open /\ Click("form")
  /\ form' = Closed
  /\ net' = Aborted(net, {"labels", "sites"})
  /\ UNCHANGED <<user, page, tenant, consent, faults, jobs, jp, panel>>

\* Every change of the scope or of the search term starts the timer anew; a
\* call already sent is not taken back.
SiteSearch(f) == [f EXCEPT !.timer = f.scope = "sites"]

PickMode == \E m \in {"policy", "static"} \ {form.mode} :
  form' = [form EXCEPT !.mode = m]
\* The label stays chosen, unseen, when the mode changes back.
PickLabel ==
  /\ form.mode = "static"
  /\ form' = [form EXCEPT !.label = ~@]
PickScope == \E c \in {"all", "sites"} \ {form.scope} :
  form' = SiteSearch([form EXCEPT !.scope = c])
TypeSearch ==
  /\ form.scope = "sites"
  /\ \E q \in {"", "hr"} \ {form.search} :
       form' = SiteSearch([form EXCEPT !.search = q])
ToggleSite ==
  /\ form.scope = "sites" /\ InFlight("sites") = {}
  /\ \E x \in form.options :
       form' = [form EXCEPT !.sites = IF x \in @ THEN @ \ {x} ELSE @ \cup {x}]
\* The expression of each preset; "custom" has none and keeps the one there is.
CRON_PRESETS == [weekly |-> "weekly", monthly |-> "monthly", custom |-> ""]
PickSchedule ==
  \/ form' = [form EXCEPT !.scheduled = ~@]
  \/ /\ form.scheduled
     /\ \E p \in DOMAIN CRON_PRESETS \ {form.preset} :
          form' = [form EXCEPT !.preset = p,
                               !.cron = IF CRON_PRESETS[p] = "" THEN @ ELSE CRON_PRESETS[p]]
  \/ /\ form.scheduled /\ form.preset = "custom"
     /\ \E c \in {"", "typed", "malformed"} \ {form.cron} :
          form' = [form EXCEPT !.cron = c]
EditForm ==
  /\ form.open /\ Click("form")
  /\ \/ form' = [form EXCEPT !.named = ~@]
     \/ PickMode \/ PickLabel \/ PickScope \/ TypeSearch \/ ToggleSite
     \/ form' = [form EXCEPT !.dryRun = ~@]
     \/ PickSchedule
  /\ UNCHANGED <<user, page, tenant, net, consent, faults, jobs, jp, panel>>

\* The 300 ms are over.
SearchSites ==
  /\ form.open /\ form.timer /\ Free(net) > 0
  /\ form' = [form EXCEPT !.timer = FALSE]
  /\ net' = Sent(net, "sites", [tenant |-> tenant, search |-> form.search])
  /\ UNCHANGED <<user, page, tenant, consent, visits, clicks, faults, jobs, jp, panel>>

TakeLookup(s) ==
  /\ Answered(s, "labels") \/ Answered(s, "sites")
  /\ form' = IF net[s].op = "labels"
               THEN form
               ELSE [form EXCEPT !.options = IF Succeeded(s) THEN Site ELSE {}]
  /\ net' = Done(net, s)
  /\ UNCHANGED <<user, page, tenant, consent, visits, clicks, faults, jobs, jp, panel>>

\* What the dialog shows when its button is clicked.
Shown(f) ==
  [ labels |-> IF f.mode = "policy" THEN "by policy" ELSE "one label",
    sites |-> IF f.scope = "sites" THEN f.sites ELSE {},
    dryRun |-> f.dryRun,
    cron |-> IF f.scheduled THEN f.cron ELSE Once ]

\* Mutant: the label that was picked before the mode was changed.
ConfigKeepsLabel(f) ==
  [ use_policies |-> f.mode = "policy",
    target_label_id |-> f.label,
    dry_run |-> f.dryRun,
    site_ids |-> IF f.scope = "sites" /\ f.sites # {} THEN f.sites ELSE {},
    schedule_cron |-> IF f.scheduled /\ f.cron # "" THEN f.cron ELSE Once ]

\* handleSubmit and createJob: what the job's row will say.  No site_ids is
\* every site, and an empty expression is null.
Config(f) ==
  [ use_policies |-> f.mode = "policy",
    target_label_id |-> f.mode = "static" /\ f.label,
    dry_run |-> f.dryRun,
    site_ids |-> IF f.scope = "sites" /\ f.sites # {} THEN f.sites ELSE {},
    schedule_cron |-> IF f.scheduled /\ f.cron # "" THEN f.cron ELSE Once ]

Submittable(f) == f.named /\ ~(f.mode = "static" /\ ~f.label)

\* Nothing keeps a second click from sending the job again.
SubmitForm ==
  /\ form.open /\ Submittable(form) /\ Click("form")
  /\ Free(net) > 0
  /\ net' = Sent(net, "create", [tenant |-> tenant, page |-> jp.page,
                                 config |-> Config(form), asked |-> Shown(form)])
  /\ UNCHANGED <<user, page, tenant, consent, faults, jobs, jp, form, panel>>

\* The dialog that is closed is the one that is open now.
TakeCreated(s) ==
  /\ page = "jobs" /\ Answered(s, "create")
  /\ IF Succeeded(s)
       THEN /\ form' = Closed
            /\ Loading(Aborted(Done(net, s), {"labels", "sites"}), "jobs",
                       net[s].arg.tenant, net[s].arg.page)
            /\ jp' = [jp EXCEPT !.loading = TRUE]
       ELSE /\ net' = Done(net, s) /\ UNCHANGED <<jp, form>>
  /\ UNCHANGED <<user, page, tenant, consent, visits, clicks, faults, jobs, panel>>

-----------------------------------------------------------------------------
(* The panel with a job's results.                                         *)

\* What is shown was asked for with a filter and a page number.
OpenPanel ==
  /\ TableShown /\ Click("panel")
  /\ \E i \in 1 .. Len(jp.rows) :
       panel' = [open |-> TRUE, job |-> jp.rows[i], results |-> FALSE,
                 filter |-> "all", page |-> 1, pages |-> 0, loading |-> FALSE]
  /\ UNCHANGED <<user, page, tenant, net, consent, faults, jobs, jp, form>>

ClosePanel ==
  /\ panel.open /\ Click("panel")
  /\ panel' = Closed
  /\ net' = Aborted(net, {"results"})
  /\ UNCHANGED <<user, page, tenant, consent, faults, jobs, jp, form>>

\* loadResults runs again when the results are shown and with every change of
\* the filter or of the page number, which a new filter sets back to one.
PanelLoads(p) ==
  IF p.results
    THEN /\ Free(net) > 0
         /\ panel' = [p EXCEPT !.loading = TRUE]
         /\ net' = Sent(net, "results", [job |-> p.job.id, filter |-> p.filter,
                                         page |-> p.page])
    ELSE panel' = p /\ UNCHANGED net

HasResults(row) == row.status \in {"running", "paused", "completed", "failed"}
ResultPages(filter) == IF filter = "all" THEN 2 ELSE 1

BrowseResults ==
  /\ panel.open /\ HasResults(panel.job) /\ Click("panel")
  /\ \/ PanelLoads([panel EXCEPT !.results = ~@])
     \/ /\ panel.results
        /\ \E f \in {"all", "failed"} \ {panel.filter} :
             PanelLoads([panel EXCEPT !.filter = f, !.page = 1])
     \/ /\ panel.results /\ panel.pages > 1
        /\ \E p \in { panel.page - 1, panel.page + 1 } :
             /\ p \in 1 .. panel.pages
             /\ PanelLoads([panel EXCEPT !.page = p])
  /\ UNCHANGED <<user, page, tenant, consent, faults, jobs, jp, form>>

TakeResults(s) ==
  /\ Answered(s, "results")
  /\ panel' = [panel EXCEPT
       !.loading = FALSE,
       !.pages = IF Succeeded(s) THEN ResultPages(net[s].val.filter) ELSE @]
  /\ net' = Done(net, s)
  /\ UNCHANGED <<user, page, tenant, consent, visits, clicks, faults, jobs, jp, form>>

-----------------------------------------------------------------------------
JobsInit ==
  /\ jobs \in FirstJobs
  /\ jp = NewPage /\ form = Closed /\ panel = Closed

JobsClicks ==
  \/ SelectTenant \/ TurnPage \/ DoAction
  \/ OpenForm \/ CloseForm \/ EditForm \/ SubmitForm
  \/ OpenPanel \/ ClosePanel \/ BrowseResults

JobsServes(s) == ServeJobs(s) \/ ServeAction(s) \/ ServeCreate(s) \/ ServeLookup(s)

JobsTakes(s) ==
  \/ TakeTenants(s) \/ TakeJobs(s) \/ TakeAction(s) \/ TakeLookup(s)
  \/ TakeCreated(s) \/ TakeResults(s)

\* Steps of the page and of the server that nobody has to ask for.
JobsRuns == SearchSites \/ \E s \in Slot : JobsServes(s) \/ JobsTakes(s)

JobsTypeOK ==
  /\ \A j \in 1 .. Len(jobs) : jobs[j].tenant \in Tenants /\ jobs[j].status \in Statuses
  /\ jp.page >= 1 /\ jp.acting \in 0 .. MaxJobs /\ jp.loading \in BOOLEAN
  /\ form.open /\ panel.open => FALSE

\* A job covers the sites, applies the labels, is a trial run and recurs as
\* the dialog said when it was submitted, also after fields were filled in
\* that the dialog no longer shows.  (handleSubmit, createJob and the button's
\* condition; no site ticked is every site, and a schedule whose expression
\* was emptied is none.)
JobsAreAsShown ==
  \A j \in 1 .. Len(jobs) : Agrees(jobs[j].config, jobs[j].asked)

\* Not true of the code: with the schedule switched on and its expression
\* emptied, the job runs once and nobody is told.  (createJob)
ScheduledJobsRecur ==
  \A j \in 1 .. Len(jobs) :
    jobs[j].asked.cron # Once => jobs[j].config.schedule_cron # Once

\* Not true of the code: the rows of the former tenant stay when a load fails,
\* come back when an answer was overtaken, and are loaded again by an action
\* begun before the tenant was changed.  (loadJobs and doAction)
RowsAreOfTheTenant ==
  page = "jobs" /\ ~jp.loading /\ jp.rows # <<>> => jp.rowsOf = tenant

\* Not true of the code: the page number stays when the tenant changes, and
\* behind the last page the table says "No jobs found".  (loadJobs)
NoRowsMeansNoJobs ==
  page = "jobs" /\ ~jp.loading /\ jp.rowsOf = tenant /\ jp.rows = <<>> => jp.total = 0

JobsIdle == ~jp.loading /\ jp.acting = 0 /\ (panel.open => ~panel.loading)
=============================================================================
