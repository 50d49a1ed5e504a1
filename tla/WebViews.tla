------------------------------ MODULE WebViews -------------------------------
(***************************************************************************)
(* The pages that only read: the dashboard, the reports and their charts,  *)
(* the labels, the audit log, and the explorer, which asks for drives that *)
(* the API has no route for and never gets further.                        *)
(*                                                                         *)
(* They differ in what ties an answer to what is selected: the dashboard,  *)
(* the reports and the list of labels abort the call they replace, a       *)
(* refresh of the labels and the audit log do not.                         *)
(***************************************************************************)
EXTENDS WebSession, Functions, SequencesExt

CONSTANTS
  Reports,   \* what the reporting queries may return, by tab: sets of rows
  LogLength  \* the events in the audit log, by type ("" for all of them)

VARIABLE view  \* the state of the page that is mounted
viewVars == view

\* What the controls of a page select: a tab and a range of days, a filter, or
\* a type of event and a page.
Sel(tab, n) == [tab |-> tab, n |-> n]
FirstSel ==
  [ p \in Pages |->
      CASE p = "reports" -> Sel("overview", 30)
        [] p = "labels" -> Sel("all", 0)
        [] p = "audit" -> Sel("", 1)
        [] OTHER -> Sel("none", 0) ]

\* `rows` came from tenant `of` for the selection `ofSel`; `total` counts the
\* events that match.
NewView(p) ==
  [sel |-> FirstSel[p], rows |-> <<>>, of |-> NoTenant, ofSel |-> FirstSel[p],
   overview |-> NoTenant, total |-> 0, loading |-> p = "audit"]

\* The audit log is the MSP's, not a tenant's: it is read as soon as it is mounted.
MountView(n, p) ==
  CASE p = "audit" -> Sent(n, "audit", FirstSel[p])
    [] p = "settings" -> n
    [] OTHER -> Sent(n, "tenants", <<>>)

-----------------------------------------------------------------------------
(* The server's side.                                                      *)

ReportTab == { "overview", "summary", "detections", "labels", "throughput" }
Days == { 7, 30, 90, 365 }
EventType == DOMAIN LogLength
AuditPageSize == 50

\* The rows of a report count things.
ASSUME ReportsAssumption ==
  \A tab \in ReportTab \ {"overview"} : \A rows \in Reports[tab] :
    rows \in Seq(Range(rows)) /\ \A i \in 1 .. Len(rows) : rows[i].n \in Nat

\* Throughput is refused for more than 90 days; a viewer may read the rest.
ServeReport(s) ==
  /\ Asked(s, "report")
  /\ LET sel == net[s].arg.sel IN
     IF Allowed("Viewer") /\ (sel.tab = "throughput" => sel.n <= 90)
       THEN \E rows \in Reports[sel.tab] : Reply(s, rows)
       ELSE Refuse(s)

ServeStats(s) ==
  /\ Asked(s, "stats") \/ Asked(s, "home") \/ Asked(s, "labelList")
  /\ IF Allowed("Viewer") THEN Reply(s, <<>>) ELSE Refuse(s)

ServeAudit(s) ==
  /\ Asked(s, "audit")
  /\ LET sel == net[s].arg IN
     IF Allowed("Viewer") THEN Reply(s, [total |-> LogLength[sel.tab]]) ELSE Refuse(s)

\* No router of the API has /tenants/{id}/drives.
ServeDrives(s) == Asked(s, "drives") /\ Refuse(s)

ViewsServe(s) ==
  /\ ServeReport(s) \/ ServeStats(s) \/ ServeAudit(s) \/ ServeDrives(s)
  /\ UNCHANGED <<user, page, tenant, consent, visits, clicks, faults, view>>

-----------------------------------------------------------------------------
(* The effects: what a page asks for when the tenant or a control changes. *)

TabData == {"report"}

\* Mutant: the call for the tab before is not aborted.
LoadTabBeside(n, v, t) ==
  IF t = NoTenant \/ v.sel.tab = "overview" \/ Free(n) = 0
    THEN [net |-> n, view |-> v]
    ELSE [net |-> Sent(n, "report", [tenant |-> t, sel |-> v.sel]),
          view |-> [v EXCEPT !.loading = TRUE]]

\* The data of a report's tab: the effect's clean-up aborts the call before it.
\* On the overview nothing is asked for, and `loading` stays as it was.
LoadTab(n, v, t) ==
  IF t = NoTenant \/ v.sel.tab = "overview"
    THEN [net |-> Aborted(n, TabData), view |-> v]
    ELSE [net |-> Sent(Aborted(n, TabData), "report", [tenant |-> t, sel |-> v.sel]),
          view |-> [v EXCEPT !.loading = TRUE]]

\* The overview is asked for when the tenant changes, whatever the tab.
LoadReports(n, v, t) ==
  LoadTab(Sent(Aborted(n, {"stats"}), "stats", [tenant |-> t]), v, t)

\* Two calls, joined; each turns its failure into an empty answer.
LoadDashboard(n, v, t) ==
  [net |-> Sent(Aborted(n, {"home"}), "home", [tenant |-> t]),
   view |-> [v EXCEPT !.loading = TRUE]]

\* A refresh, whose arg says so, is not the effect's and is never aborted.
LabelCalls(n, t, sel, fresh) ==
  Sent(n, "labelList", [tenant |-> t, sel |-> sel, fresh |-> fresh])
WithoutLabelCall(n) ==
  [s \in Slot |-> IF n[s].op = "labelList" /\ ~n[s].arg.fresh THEN Idle ELSE n[s]]
LoadLabels(n, v, t) ==
  [net |-> LabelCalls(WithoutLabelCall(n), t, v.sel, FALSE),
   view |-> [v EXCEPT !.loading = TRUE]]

LoadDrives(n, v, t) ==
  [net |-> Sent(Aborted(n, {"drives"}), "drives", [tenant |-> t]), view |-> v]

\* What the mounted page asks for when tenant t is selected.
Loads(n, v, t) ==
  CASE page = "reports" -> LoadReports(n, v, t)
    [] page = "dashboard" -> LoadDashboard(n, v, t)
    [] page = "labels" -> LoadLabels(n, v, t)
    [] page = "explorer" -> LoadDrives(n, v, t)
    [] OTHER -> [net |-> n, view |-> v]

TenantViews == { "dashboard", "reports", "labels", "explorer" }
Goes(loads) == net' = loads.net /\ view' = loads.view

\* Bound: there are slots for what a load will send once it has aborted.
Room ==
  Free(WithoutLabelCall(Aborted(net, {"report", "stats", "home", "drives"})))
    >= IF page = "reports" THEN 2 ELSE 1

ViewsTakeTenants(s) ==
  /\ page \in TenantViews /\ Answered(s, "tenants")
  /\ tenant' = ChosenBy(s)
  /\ Goes(IF tenant' # tenant THEN Loads(Done(net, s), view, tenant')
                              ELSE [net |-> Done(net, s), view |-> view])
  /\ UNCHANGED <<user, page, consent, visits, clicks, faults>>

ViewsSelectTenant ==
  /\ page \in TenantViews /\ Room /\ Click("browse")
  /\ \E t \in Selectable \ {tenant} : tenant' = t /\ Goes(Loads(net, view, t))
  /\ UNCHANGED <<user, page, consent, faults>>

-----------------------------------------------------------------------------
(* The controls and the answers.                                           *)

Reselect(sel) ==
  LET v == [view EXCEPT !.sel = sel] IN
  IF tenant = NoTenant THEN Goes([net |-> net, view |-> v])
  ELSE CASE page = "reports" -> Goes(LoadTab(net, v, tenant))
         [] page = "labels" -> Goes(LoadLabels(net, v, tenant))

\* The days can be chosen on every tab but the overview.
PickTab ==
  /\ page = "reports" /\ Room /\ Click("browse")
  /\ \/ \E t \in ReportTab \ {view.sel.tab} : Reselect(Sel(t, view.sel.n))
     \/ /\ view.sel.tab # "overview"
        /\ \E d \in Days \ {view.sel.n} : Reselect(Sel(view.sel.tab, d))
  /\ UNCHANGED <<user, page, tenant, consent, faults>>

TakeReport(s) ==
  /\ Answered(s, "report")
  /\ view' = [view EXCEPT
                !.rows = IF Succeeded(s) THEN net[s].val ELSE <<>>,
                !.of = net[s].arg.tenant, !.ofSel = net[s].arg.sel,
                !.loading = FALSE]
  /\ net' = Done(net, s)
  /\ UNCHANGED <<user, page, tenant, consent, visits, clicks, faults>>

TakeStats(s) ==
  /\ Answered(s, "stats")
  /\ view' = [view EXCEPT !.overview = IF Succeeded(s) THEN net[s].arg.tenant ELSE NoTenant]
  /\ net' = Done(net, s)
  /\ UNCHANGED <<user, page, tenant, consent, visits, clicks, faults>>

TakeHome(s) ==
  /\ Answered(s, "home")
  /\ view' = [view EXCEPT !.of = IF Succeeded(s) THEN net[s].arg.tenant ELSE NoTenant,
                          !.loading = FALSE]
  /\ net' = Done(net, s)
  /\ UNCHANGED <<user, page, tenant, consent, visits, clicks, faults>>

TakeDrives(s) ==
  /\ Answered(s, "drives")
  /\ net' = Done(net, s)
  /\ UNCHANGED <<user, page, tenant, consent, visits, clicks, faults, view>>

FilterLabels ==
  /\ page = "labels" /\ Room /\ Click("browse")
  /\ \E f \in {"all", "appliable"} \ {view.sel.tab} : Reselect(Sel(f, 0))
  /\ UNCHANGED <<user, page, tenant, consent, faults>>

\* A refresh asks for every label, whatever the filter.
Refresh ==
  /\ page = "labels" /\ tenant # NoTenant /\ Free(net) > 0 /\ Click("browse")
  /\ net' = LabelCalls(net, tenant, Sel("all", 0), TRUE)
  /\ view' = [view EXCEPT !.loading = TRUE]
  /\ UNCHANGED <<user, page, tenant, consent, faults>>

\* A refresh that fails leaves the table as it is.
TakeLabelList(s) ==
  LET a == net[s].arg IN
  /\ Answered(s, "labelList")
  /\ view' = [view EXCEPT
                !.of = IF Succeeded(s) THEN a.tenant ELSE IF a.fresh THEN @ ELSE NoTenant,
                !.ofSel = IF Succeeded(s) \/ ~a.fresh THEN a.sel ELSE @,
                !.loading = FALSE]
  /\ net' = Done(net, s)
  /\ UNCHANGED <<user, page, tenant, consent, visits, clicks, faults>>

\* A filter goes back to the first page; every change loads, and no load is
\* aborted.
LoadEvents(sel) ==
  /\ Free(net) > 0
  /\ net' = Sent(net, "audit", sel)
  /\ view' = [view EXCEPT !.sel = sel, !.loading = TRUE]

FilterEvents ==
  /\ page = "audit" /\ Click("browse")
  /\ \E e \in EventType \ {view.sel.tab} : LoadEvents(Sel(e, 1))
  /\ UNCHANGED <<user, page, tenant, consent, faults>>

PageShown == page = "audit" /\ ~view.loading /\ view.total > AuditPageSize

TurnEvents ==
  /\ PageShown /\ Click("browse")
  /\ \/ view.sel.n > 1 /\ LoadEvents(Sel(view.sel.tab, view.sel.n - 1))
     \/ /\ view.sel.n * AuditPageSize < view.total
        /\ LoadEvents(Sel(view.sel.tab, view.sel.n + 1))
  /\ UNCHANGED <<user, page, tenant, consent, faults>>

\* A failed load empties the table and keeps the total.
TakeEvents(s) ==
  /\ Answered(s, "audit")
  /\ view' = [view EXCEPT !.total = IF Succeeded(s) THEN net[s].val.total ELSE @,
                          !.ofSel = net[s].arg,
                          !.loading = FALSE]
  /\ net' = Done(net, s)
  /\ UNCHANGED <<user, page, tenant, consent, visits, clicks, faults>>

-----------------------------------------------------------------------------
(* The charts.  A row is [day, kind, n]; days are shown without their year, *)
(* and a job that has not completed has none.                              *)

NoDay == 0
formatDate(day) == IF day = NoDay THEN NoDay ELSE 1 + (day % 365)

Keys(rows) == { <<formatDate(rows[i].day), rows[i].kind>> : i \in 1 .. Len(rows) }
InBar(rows, k) ==
  FoldLeft(LAMBDA bar, r : IF <<formatDate(r.day), r.kind>> = k THEN Append(bar, r) ELSE bar,
           <<>>, rows)
Counted(rows) == FoldLeft(LAMBDA sum, r : sum + r.n, 0, rows)

\* Mutant: a bar shows the last of its rows.
SummaryOfLastRow(rows) == [ k \in Keys(rows) |-> Last(InBar(rows, k)).n ]

\* A bar of the job summary adds up the rows of its day and status, an area of
\* the detections shows the last row of its day and entity.
JobSummaryChart(rows) == [ k \in Keys(rows) |-> Counted(InBar(rows, k)) ]
DetectionsChart(rows) == [ k \in Keys(rows) |-> Last(InBar(rows, k)).n ]
LabelDistributionChart(rows) == [ i \in 1 .. Len(rows) |-> rows[i].n ]
ThroughputChart(rows) == [ i \in 1 .. Len(rows) |-> rows[Len(rows) + 1 - i].n ]

ChartPanel(tab, rows) ==
  CASE tab = "summary" -> JobSummaryChart(rows)
    [] tab = "detections" -> DetectionsChart(rows)
    [] tab = "labels" -> LabelDistributionChart(rows)
    [] tab = "throughput" -> ThroughputChart(rows)

Drawn(chart) == FoldFunction(LAMBDA n, sum : n + sum, 0, chart)

\* What the reports page renders below its tabs.
ChartShown ==
  page = "reports" /\ view.sel.tab # "overview" /\ ~view.loading /\ view.rows # <<>>

-----------------------------------------------------------------------------
ViewsInit == view = NewView(page)

ViewsClicks ==
  ViewsSelectTenant \/ PickTab \/ FilterLabels \/ Refresh \/ FilterEvents \/ TurnEvents

ViewsTake(s) ==
  \/ ViewsTakeTenants(s) \/ TakeReport(s) \/ TakeStats(s) \/ TakeHome(s)
  \/ TakeDrives(s) \/ TakeLabelList(s) \/ TakeEvents(s)

ViewsTypeOK ==
  /\ view.sel.tab \in ReportTab \cup EventType \cup {"all", "appliable", "none"}
  /\ {view.of, view.overview} \subseteq Tenants \cup {NoTenant}
  /\ view.loading \in BOOLEAN

\* What the reports show, once they do not say that they load, is what the
\* tenant, the tab and the days ask for, however fast these are changed and in
\* whatever order the answers arrive; the dashboard's is the tenant's.
\* (the effects of ReportsPage and DashboardPage and their clean-ups)
ViewsShowWhatIsSelected ==
  /\ ChartShown => view.of = tenant /\ view.ofSel = view.sel
  /\ page = "dashboard" /\ ~view.loading => view.of \in {tenant, NoTenant}

\* Every job, label and batch a report counts is drawn once, also when two days
\* a year apart, or the days of jobs that have not completed, share a mark on
\* the axis; a chart of detections draws no more than there are. (the pivots of
\* ReportsPage)
ChartsAddUp ==
  ChartShown =>
    LET drawn == Drawn(ChartPanel(view.sel.tab, view.rows))
        counted == Counted(view.rows)
    IN  IF view.sel.tab = "detections" THEN drawn <= counted ELSE drawn = counted
=============================================================================
