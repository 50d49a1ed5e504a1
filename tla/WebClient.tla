------------------------------ MODULE WebClient ------------------------------
(***************************************************************************)
(* The web client as one program: a session whose router mounts one page   *)
(* at a time (App.tsx), over the server's tables.                          *)
(***************************************************************************)
EXTENDS WebAutoLabel, WebViews, WebSecurity

mainVars == <<jobsVars, policiesVars, autoLabelVars>>
otherVars == <<viewVars, securityVars>>
pageVars == <<mainVars, otherVars>>
vars == <<session, pageVars>>

\* What a page asks for when it is mounted.
Mounts(n, p) == IF p = "security" THEN MountSecurity(n) ELSE MountView(n, p)

\* Tenants come and go on the Security page; on the others they are connected.
Init ==
  /\ SessionInit
  /\ consent \in [Tenants -> IF page = "security" THEN {"absent", "active"} ELSE {"active"}]
  /\ JobsInit /\ PoliciesInit /\ AutoLabelInit /\ ViewsInit /\ SecurityInit
  /\ net = Mounts(IdleNet, page)

\* What a page has asked the server to change goes on when the page is left.
Writes == {"act", "create", "newPolicy", "patch", "delete", "upload", "remove",
           "connect", "disconnect"}

Leave ==
  /\ Click("leave")
  /\ \E p \in (visits.pages \cap Routes) \ {page} : page' = p
  /\ tenant' = NoTenant
  /\ Free(Left(net, Writes)) > 0
  /\ net' = Mounts(Left(net, Writes), page')
  /\ view' = NewView(page') /\ sec' = NewSecurity(page' = "security")
  /\ jp' = NewPage /\ form' = Closed /\ panel' = Closed
  /\ pp' = NewPolicyPage /\ dialog' = NoPolicyDialog
  /\ al' = NewAutoLabelPage
  /\ box' = NoBox
  /\ UNCHANGED <<user, consent, faults, jobs, policies, removed>>

Clicks ==
  \/ JobsClicks /\ UNCHANGED <<policiesVars, autoLabelVars, otherVars>>
  \/ PoliciesClicks /\ UNCHANGED <<jobsVars, autoLabelVars, otherVars>>
  \/ AutoLabelClicks /\ UNCHANGED otherVars
  \/ ViewsClicks /\ UNCHANGED <<mainVars, sec>>
  \/ SecurityClicks /\ UNCHANGED <<mainVars, view>>
  \/ Leave

Network == (LoseCall \/ TokenExpires) /\ UNCHANGED pageVars

Serves(s) ==
  \/ ServeTenants(s) /\ UNCHANGED pageVars
  \/ JobsServes(s) /\ UNCHANGED <<policiesVars, autoLabelVars, otherVars>>
  \/ (ServeOverview(s) \/ ServeSheets(s)) /\ UNCHANGED otherVars
  \/ ViewsServe(s) /\ UNCHANGED <<mainVars, sec>>
  \/ SecurityServes(s) /\ UNCHANGED <<jobsVars, autoLabelVars, view>>

Takes(s) ==
  \/ DropAnswer(s) /\ UNCHANGED pageVars
  \/ JobsTakes(s) /\ UNCHANGED <<policiesVars, autoLabelVars, otherVars>>
  \/ PoliciesRun(s) /\ UNCHANGED <<jobsVars, autoLabelVars, otherVars>>
  \/ AutoLabelTakes(s) /\ UNCHANGED otherVars
  \/ ViewsTake(s) /\ UNCHANGED <<mainVars, sec>>
  \/ SecurityTakes(s) /\ UNCHANGED <<mainVars, view>>

\* What the browser and the server do by themselves.
Runs ==
  \/ SearchSites /\ UNCHANGED <<policiesVars, autoLabelVars, otherVars>>
  \/ \E s \in Slot : Serves(s) \/ Takes(s)

Worker == WorkerMoves /\ UNCHANGED <<policiesVars, autoLabelVars, otherVars>>

Customer == ConsentCallback /\ UNCHANGED <<jobsVars, autoLabelVars, view>>

Next == Clicks \/ Network \/ Runs \/ Worker \/ Customer

Spec == Init /\ [][Next]_vars

\* Every call ends: the server answers it, or the browser gives up on it.
FairSpec == Spec /\ WF_vars(Runs)

TypeOK ==
  /\ SessionTypeOK /\ JobsTypeOK /\ PoliciesTypeOK /\ AutoLabelTypeOK
  /\ ViewsTypeOK /\ SecurityTypeOK

\* No page is left with a spinner, or with its buttons disabled, by calls that
\* fail, are refused, or are answered out of order.
SpinnersEnd ==
  []<>(/\ JobsIdle /\ ~pp.loading /\ ~al.loading /\ (box.kind # "none" => ~box.busy)
       /\ ~sec.loading /\ ~sec.connect.resolving
       /\ view.loading => page = "reports" /\ view.sel.tab = "overview")

\* An Operator who opens the jobs is shown those of a tenant: "Operator: run
\* jobs, apply labels - assigned tenants only" (core/rbac.py).  Every tenant
\* here is connected, and no call fails.
OperatorsReachATenant ==
  user.role = "Operator" /\ page = "jobs" /\ visits.faults = 0 ~> tenant # NoTenant
=============================================================================
