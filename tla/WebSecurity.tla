---------------------------- MODULE WebSecurity ------------------------------
(***************************************************************************)
(* SecurityPage.tsx: the connected tenants, the dialog that connects       *)
(* another, and the users' access grants; with the endpoints behind them   *)
(* (routers/tenants.py, onboard.py) on the server's table of tenants.      *)
(***************************************************************************)
EXTENDS WebJobs, WebPolicies

CONSTANT Person  \* the users who have signed in

VARIABLE sec     \* the page's state
securityVars == sec

Nobody == "nobody"

\* What is typed in the dialog: nothing useful, a tenant's id, or its domain.
Typed == [kind : {"id", "domain"}, of : Tenants] \cup {[kind |-> "other", of |-> NoTenant]}
Untyped == [kind |-> "other", of |-> NoTenant]

NoConnect == [open |-> FALSE, input |-> Untyped, resolved |-> NoTenant,
              resolving |-> FALSE]
NewConnect == [NoConnect EXCEPT !.open = TRUE]

NewSecurity(loading) ==
  [tab |-> "tenants", rows |-> [t \in Tenants |-> "absent"], loading |-> loading,
   expanded |-> Nobody, access |-> Nobody, connect |-> NoConnect]

MountSecurity(n) == Sent(n, "tenantList", <<>>)

-----------------------------------------------------------------------------
(* The server's side.                                                      *)

SecurityReads == { "tenantList", "users", "access", "resolve" }

\* Resolving a domain asks Microsoft, which may not know it.
ServeSecurityReads(s) ==
  /\ \E op \in SecurityReads : Asked(s, op)
  /\ IF Allowed("Admin")
       THEN Reply(s, IF net[s].op = "tenantList" THEN consent ELSE net[s].arg)
       ELSE Refuse(s)
  /\ UNCHANGED <<consent, policies>>

\* seed_builtin_policies: one for each type of the catalog, disabled.
Seeded(t) ==
  LET types == SetToSeq(Sit) IN
  [i \in 1 .. Len(types) |->
     [tenant |-> t, name |-> types[i], enabled |-> FALSE, builtin |-> TRUE,
      rules |-> SitRules(types[i]), gone |-> FALSE]]

\* A tenant is registered once.
ServeConnect(s) ==
  /\ Asked(s, "connect")
  /\ LET t == net[s].arg.of IN
     IF Allowed("Admin") /\ consent[t] = "absent"
       THEN /\ consent' = [consent EXCEPT ![t] = "pending"]
            /\ policies' = policies \o Seeded(t)
            /\ Reply(s, <<>>)
       ELSE Refuse(s) /\ UNCHANGED <<consent, policies>>

\* Deleting a tenant deletes its policies.  Its jobs would be kept, with no
\* tenant, which their table forbids: the transaction fails while it has any.
ServeDisconnect(s) ==
  /\ Asked(s, "disconnect")
  /\ LET t == net[s].arg.of IN
     IF /\ Allowed("Admin") /\ consent[t] # "absent"
        /\ \A j \in 1 .. Len(jobs) : jobs[j].tenant # t
       THEN /\ consent' = [consent EXCEPT ![t] = "absent"]
            /\ policies' = [p \in DOMAIN policies |->
                 IF policies[p].tenant = t THEN [policies[p] EXCEPT !.gone = TRUE]
                                           ELSE policies[p]]
            /\ Reply(s, <<>>)
       ELSE Refuse(s) /\ UNCHANGED <<consent, policies>>

\* The customer's administrator grants or denies the consent that is asked for.
ConsentCallback ==
  /\ page = "security"
  /\ \E t \in Tenants, answer \in {"active", "consent_denied"} :
       /\ consent[t] = "pending"
       /\ consent' = [consent EXCEPT ![t] = answer]
  /\ UNCHANGED <<user, page, tenant, net, visits, clicks, faults, policiesVars, sec>>

SecurityServes(s) ==
  /\ ServeSecurityReads(s) \/ ServeConnect(s) \/ ServeDisconnect(s)
  /\ UNCHANGED <<user, page, tenant, visits, clicks, faults, pp, dialog, sec>>

-----------------------------------------------------------------------------
(* The tabs.                                                               *)

\* Leaving a tab unmounts it: its reads are nobody's, its writes go on.
SwitchTab ==
  LET n == Aborted(net, SecurityReads) IN
  /\ page = "security" /\ ~sec.connect.open /\ Free(n) > 0 /\ Click("browse")
  /\ IF sec.tab = "tenants"
       THEN /\ sec' = [NewSecurity(TRUE) EXCEPT !.tab = "users"]
            /\ net' = Sent(n, "users", <<>>)
       ELSE /\ sec' = NewSecurity(TRUE)
            /\ net' = MountSecurity(n)
  /\ UNCHANGED <<user, page, tenant, consent, faults>>

OnTenants == page = "security" /\ sec.tab = "tenants"
TenantsShown == OnTenants /\ ~sec.loading

\* loadTenants: a failure keeps the rows.
TakeTenantList(s) ==
  /\ Answered(s, "tenantList")
  /\ sec' = [sec EXCEPT !.rows = IF Succeeded(s) THEN net[s].val ELSE @,
                        !.loading = FALSE]
  /\ net' = Done(net, s)

TakeUsers(s) ==
  /\ Answered(s, "users")
  /\ sec' = [sec EXCEPT !.loading = FALSE]
  /\ net' = Done(net, s)

\* Every row has its button, and nothing asks whether it is meant.
Disconnect ==
  /\ TenantsShown /\ ~sec.connect.open /\ Free(net) > 0 /\ Click("act")
  /\ \E t \in Tenants : sec.rows[t] # "absent" /\ net' = Sent(net, "disconnect", [of |-> t])
  /\ UNCHANGED <<user, page, tenant, consent, faults, sec>>

\* After a change the rows are loaded again, if their tab is still there; the
\* dialog closes when the tenant is connected.
TakeConnection(s) ==
  /\ Answered(s, "connect") \/ Answered(s, "disconnect")
  /\ IF Succeeded(s) /\ OnTenants
       THEN /\ net' = MountSecurity(IF net[s].op = "connect"
                                      THEN Aborted(Done(net, s), {"resolve"})
                                      ELSE Done(net, s))
            /\ sec' = [sec EXCEPT !.loading = TRUE,
                         !.connect = IF net[s].op = "connect" THEN NoConnect ELSE @]
       ELSE net' = Done(net, s) /\ UNCHANGED sec

\* The grants of one user at a time; those of the user before stay until they
\* arrive.
ToggleExpand ==
  /\ page = "security" /\ sec.tab = "users" /\ ~sec.loading /\ Click("browse")
  /\ \E u \in Person :
       IF sec.expanded = u
         THEN sec' = [sec EXCEPT !.expanded = Nobody] /\ UNCHANGED net
         ELSE /\ Free(net) > 0
              /\ sec' = [sec EXCEPT !.expanded = u]
              /\ net' = Sent(net, "access", [of |-> u])
  /\ UNCHANGED <<user, page, tenant, consent, faults>>

TakeAccess(s) ==
  /\ Answered(s, "access")
  /\ sec' = [sec EXCEPT !.access = IF Succeeded(s) THEN net[s].val.of ELSE Nobody]
  /\ net' = Done(net, s)

-----------------------------------------------------------------------------
(* The dialog that connects a tenant.                                      *)

Dialog == OnTenants /\ sec.connect.open
isUuid == sec.connect.input.kind = "id"
isDomain == sec.connect.input.kind = "domain"
effectiveId == IF isUuid THEN sec.connect.input.of ELSE sec.connect.resolved

OpenConnect ==
  /\ OnTenants /\ ~sec.connect.open /\ Click("form")
  /\ sec' = [sec EXCEPT !.connect = NewConnect]
  /\ UNCHANGED <<user, page, tenant, net, consent, faults>>

CloseConnect ==
  /\ Dialog /\ Click("form")
  /\ sec' = [sec EXCEPT !.connect = NoConnect]
  /\ net' = Aborted(net, {"resolve"})
  /\ UNCHANGED <<user, page, tenant, consent, faults>>

TypeTenant ==
  /\ Dialog /\ Click("form")
  /\ \E typed \in Typed \ {sec.connect.input} :
       sec' = [sec EXCEPT !.connect.input = typed, !.connect.resolved = NoTenant]
  /\ UNCHANGED <<user, page, tenant, net, consent, faults>>

\* The button is disabled while a lookup runs, the Enter key is not.
ResolveDomain ==
  /\ Dialog /\ isDomain /\ sec.connect.resolved = NoTenant /\ Free(net) > 0
  /\ Click("form")
  /\ sec' = [sec EXCEPT !.connect.resolving = TRUE]
  /\ net' = Sent(net, "resolve", [of |-> sec.connect.input.of])
  /\ UNCHANGED <<user, page, tenant, consent, faults>>

TakeResolved(s) ==
  /\ Answered(s, "resolve")
  /\ sec' = [sec EXCEPT !.connect.resolving = FALSE,
                        !.connect.resolved = IF Succeeded(s) THEN net[s].val.of ELSE @]
  /\ net' = Done(net, s)

\* Nothing keeps a second click from sending a second request.
SubmitConnect ==
  /\ Dialog /\ effectiveId # NoTenant /\ Free(net) > 0 /\ Click("form")
  /\ net' = Sent(net, "connect", [of |-> effectiveId])
  /\ UNCHANGED <<user, page, tenant, consent, faults, sec>>

-----------------------------------------------------------------------------
SecurityInit == sec = NewSecurity(page = "security")

SecurityClicks ==
  \/ SwitchTab \/ Disconnect \/ ToggleExpand \/ OpenConnect \/ CloseConnect
  \/ TypeTenant \/ ResolveDomain \/ SubmitConnect

SecurityTakes(s) ==
  /\ \/ TakeTenantList(s) \/ TakeUsers(s) \/ TakeConnection(s) \/ TakeAccess(s)
     \/ TakeResolved(s)
  /\ UNCHANGED <<user, page, tenant, consent, visits, clicks, faults>>

SecurityTypeOK ==
  /\ sec.rows \in [Tenants -> Consent] /\ sec.loading \in BOOLEAN
  /\ {sec.expanded, sec.access} \subseteq Person \cup {Nobody}
  /\ sec.connect.input \in Typed
  /\ sec.connect.resolved \in Tenants \cup {NoTenant}

\* An Admin who disconnects a tenant that is there gets it disconnected, with
\* its jobs: "Disconnect a customer tenant. Cascades to access grants and jobs."
DisconnectCascades ==
  [][ \A s \in Slot :
        /\ Asked(s, "disconnect") /\ net'[s].st \in {"ok", "failed"}
        /\ faults' = faults /\ Allowed("Admin") /\ consent[net[s].arg.of] # "absent"
        => consent'[net[s].arg.of] = "absent" ]_<<session, jobsVars, policiesVars, sec>>
=============================================================================
