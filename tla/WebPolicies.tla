----------------------------- MODULE WebPolicies -----------------------------
(***************************************************************************)
(* The Policies page of the web client (pages/PoliciesPage.tsx), with the  *)
(* catalog of sensitive information types (components/SitPicker.tsx) and   *)
(* the rule builder in its dialogs.                                        *)
(***************************************************************************)
EXTENDS WebSession, WebRules

CONSTANTS
  Sit,             \* the catalog: each type gives a policy its name and rules
  MaxPolicies,     \* bound: policies the server ever holds; it fails to add more
  FirstPolicies    \* the server's policies at the start: a set of sequences

VARIABLES
  policies,   \* the server's: [tenant, name, enabled, builtin, rules, gone]
  pp,         \* the page: [rows, loading, expanded]
  dialog      \* CreatePolicyDialog or EditPolicyDialog, or NoPolicyDialog

policiesVars == <<policies, pp, dialog>>

NoPolicyDialog == [kind |-> "none"]
IsSit(rules) == "patterns" \in DOMAIN rules
SitRules(sit) == [patterns |-> sit]

ASSUME FirstPoliciesAssumption ==
  /\ IsFiniteSet(Sit)
  /\ \A ps \in FirstPolicies :
       /\ ps \in Seq(Range(ps))
       /\ \A i \in 1 .. Len(ps) :
            /\ "rules" \in DOMAIN ps[i]
            /\ ps[i].rules \in [patterns : Sit] \cup CustomRules

-----------------------------------------------------------------------------
(* The server: app/routers/policies.py.                                    *)

Live(t) == { i \in 1 .. Len(policies) : policies[i].tenant = t /\ ~policies[i].gone }

ServePolicies(s) ==
  /\ Asked(s, "policies")
  /\ IF Allowed("Viewer")
       THEN Reply(s, [i \in Live(net[s].arg.tenant) |-> policies[i]])
       ELSE Refuse(s)
  /\ UNCHANGED <<user, page, tenant, consent, visits, clicks, faults, policiesVars>>

\* create_policy and from-sit; a body without is_enabled enables the policy.
ServeNewPolicy(s) ==
  LET a == net[s].arg IN
  /\ Asked(s, "newPolicy")
  /\ IF Allowed("Operator") /\ Len(policies) < MaxPolicies
       THEN /\ policies' = Append(policies,
                 [tenant |-> a.tenant, name |-> a.name, builtin |-> FALSE,
                  enabled |-> IF "enabled" \in DOMAIN a THEN a.enabled ELSE TRUE,
                  rules |-> a.rules, gone |-> FALSE])
            /\ Reply(s, <<>>)
       ELSE Refuse(s) /\ UNCHANGED policies
  /\ UNCHANGED <<user, page, tenant, consent, visits, clicks, faults, pp, dialog>>

\* update_policy: the fields of the body; a built-in policy takes is_enabled
\* alone.  delete_policy: not a built-in one.
ServeChange(s) ==
  LET a == net[s].arg
      found == a.id \in Live(a.tenant)
      p == policies[a.id]
  IN
  /\ Asked(s, "patch") \/ Asked(s, "delete")
  /\ IF Allowed("Operator") /\ found
          /\ (p.builtin => net[s].op = "patch" /\ DOMAIN a.body = {"enabled"})
       THEN /\ policies' = [policies EXCEPT ![a.id] =
                 IF net[s].op = "delete"
                   THEN [@ EXCEPT !.gone = TRUE]
                   ELSE [f \in DOMAIN @ |-> IF f \in DOMAIN a.body THEN a.body[f] ELSE @[f]]]
            /\ Reply(s, <<>>)
       ELSE Refuse(s) /\ UNCHANGED policies
  /\ UNCHANGED <<user, page, tenant, consent, visits, clicks, faults, pp, dialog>>

ServeCatalog(s) ==
  /\ Asked(s, "catalog") \/ Asked(s, "policyLabels")
  /\ IF Allowed("Viewer") THEN Reply(s, Sit) ELSE Refuse(s)
  /\ UNCHANGED <<user, page, tenant, consent, visits, clicks, faults, policiesVars>>

-----------------------------------------------------------------------------
(* The list.                                                               *)

NoRows == [i \in {} |-> 0]
NewPolicyPage == [rows |-> NoRows, loading |-> FALSE, expanded |-> 0]

\* loadPolicies, for the tenant its caller closes over.
LoadPolicies(n, t) ==
  /\ Free(n) > 0
  /\ net' = Sent(n, "policies", [tenant |-> t])
  /\ pp' = [pp EXCEPT !.loading = TRUE]

\* A tenant is selected: its labels, and its policies.
LoadTenant(n, t) ==
  /\ Free(n) > 1
  /\ LoadPolicies(Sent(n, "policyLabels", [tenant |-> t]), t)

PoliciesTakeTenants(s) ==
  /\ page = "policies" /\ Answered(s, "tenants")
  /\ tenant' = ChosenBy(s)
  /\ IF tenant' # tenant
       THEN LoadTenant(Done(net, s), tenant')
       ELSE net' = Done(net, s) /\ UNCHANGED pp
  /\ UNCHANGED <<user, page, consent, visits, clicks, faults, policies, dialog>>

PoliciesSelectTenant ==
  /\ page = "policies" /\ dialog = NoPolicyDialog /\ Click("browse")
  /\ \E t \in Selectable \ {tenant} : tenant' = t /\ LoadTenant(net, t)
  /\ UNCHANGED <<user, page, consent, faults, policies, dialog>>

\* A failed load empties the list.
TakePolicies(s) ==
  /\ Answered(s, "policies")
  /\ pp' = [pp EXCEPT !.loading = FALSE,
                      !.rows = IF Succeeded(s) THEN net[s].val ELSE NoRows]
  /\ net' = Done(net, s)
  /\ UNCHANGED <<user, page, tenant, consent, visits, clicks, faults, policies, dialog>>

PolicyRows == IF page = "policies" /\ dialog = NoPolicyDialog /\ ~pp.loading
                THEN DOMAIN pp.rows ELSE {}

\* A body is sent for a row as it is shown.
Change(op, i, body) ==
  /\ tenant # NoTenant /\ Free(net) > 0
  /\ net' = Sent(net, op, [tenant |-> tenant, id |-> i, body |-> body])

\* Everyone has this button; what is sent is the opposite of what is shown.
TogglePolicy ==
  /\ Click("act")
  /\ \E i \in PolicyRows : Change("patch", i, [enabled |-> ~pp.rows[i].enabled])
  /\ UNCHANGED <<user, page, tenant, consent, faults, policies, pp, dialog>>

DeletePolicy ==
  /\ HasRole("Operator") /\ Click("act")
  /\ \E i \in PolicyRows : ~pp.rows[i].builtin /\ Change("delete", i, <<>>)
  /\ UNCHANGED <<user, page, tenant, consent, faults, policies, pp, dialog>>

DuplicatePolicy ==
  /\ HasRole("Operator") /\ Click("act") /\ tenant # NoTenant /\ Free(net) > 0
  /\ \E i \in PolicyRows :
       net' = Sent(net, "newPolicy",
                   [tenant |-> tenant, name |-> pp.rows[i].name,
                    rules |-> pp.rows[i].rules, enabled |-> FALSE, copy |-> TRUE])
  /\ UNCHANGED <<user, page, tenant, consent, faults, policies, pp, dialog>>

\* A row's rules are shown in a viewer, or in a builder that is read-only.
ExpandRow ==
  /\ Click("browse")
  /\ \E i \in PolicyRows :
       pp' = [pp EXCEPT !.expanded = IF @ = i THEN 0 ELSE i]
  /\ UNCHANGED <<user, page, tenant, net, consent, faults, policies, dialog>>

\* Whatever was changed, the list is loaded again, and a save closes the
\* dialog that is open then.
TakeChange(s) ==
  /\ Answered(s, "patch") \/ Answered(s, "delete") \/ Answered(s, "newPolicy")
  /\ IF Succeeded(s)
       THEN /\ LoadPolicies(Done(net, s), net[s].arg.tenant)
            /\ dialog' = IF \/ net[s].op = "newPolicy" /\ ~net[s].arg.copy
                            \/ net[s].op = "patch" /\ "rules" \in DOMAIN net[s].arg.body
                           THEN NoPolicyDialog ELSE dialog
       ELSE net' = Done(net, s) /\ UNCHANGED <<pp, dialog>>
  /\ UNCHANGED <<user, page, tenant, consent, visits, clicks, faults, policies>>

-----------------------------------------------------------------------------
(* The dialogs.                                                            *)

NewDialog == [kind |-> "create", mode |-> "sit", sit |-> "", name |-> "", id |-> 0,
              label |-> FALSE, rules |-> DEFAULT_RULES, catalog |-> {}]

OpenCreate ==
  /\ page = "policies" /\ dialog = NoPolicyDialog /\ HasRole("Operator") /\ Click("form")
  /\ Free(net) > 0
  /\ dialog' = NewDialog
  /\ net' = Sent(net, "catalog", <<>>)
  /\ UNCHANGED <<user, page, tenant, consent, faults, policies, pp>>

TakeCatalog(s) ==
  /\ Answered(s, "catalog") \/ Answered(s, "policyLabels")
  /\ dialog' = IF net[s].op = "catalog" /\ dialog.kind = "create"
                 THEN [dialog EXCEPT !.catalog = IF Succeeded(s) THEN net[s].val ELSE {}]
                 ELSE dialog
  /\ net' = Done(net, s)
  /\ UNCHANGED <<user, page, tenant, consent, visits, clicks, faults, policies, pp>>

\* Only a policy that is not built in, and from the row as it is shown.
OpenEdit ==
  /\ HasRole("Operator") /\ Click("form")
  /\ \E i \in PolicyRows :
       /\ ~pp.rows[i].builtin
       /\ dialog' = [NewDialog EXCEPT !.kind = "edit", !.mode = "custom", !.id = i,
                        !.name = pp.rows[i].name, !.label = TRUE,
                        !.rules = pp.rows[i].rules]
  /\ UNCHANGED <<user, page, tenant, net, consent, faults, policies, pp>>

CloseDialog ==
  /\ dialog.kind # "none" /\ Click("form")
  /\ dialog' = NoPolicyDialog
  /\ net' = Aborted(net, {"catalog"})
  /\ UNCHANGED <<user, page, tenant, consent, faults, policies, pp>>

\* A name nobody has typed follows the type that is picked.
PickSit ==
  /\ dialog.kind = "create" /\ dialog.mode = "sit"
  /\ \E sit \in dialog.catalog :
       dialog' = [dialog EXCEPT !.sit = sit,
                    !.name = IF @ = "" \/ @ = dialog.sit THEN sit ELSE @]

\* The rest of the form of a type is there once one is picked.
FieldsShown == dialog.mode = "custom" \/ dialog.sit # ""

FillDialog ==
  /\ dialog.kind # "none" /\ Click("form")
  /\ \/ PickSit
     \/ /\ dialog.kind = "create"
        /\ dialog' = [dialog EXCEPT !.mode = IF @ = "sit" THEN "custom" ELSE "sit"]
     \/ /\ FieldsShown
        /\ \/ \E name \in {"", "typed"} \ {dialog.name} :
                dialog' = [dialog EXCEPT !.name = name]
           \/ dialog' = [dialog EXCEPT !.label = ~@]
     \/ /\ dialog.mode = "custom" /\ ~IsSit(dialog.rules)
        /\ \E r \in Built(dialog.rules, FALSE) : dialog' = [dialog EXCEPT !.rules = r]
  /\ UNCHANGED <<user, page, tenant, net, consent, faults, policies, pp>>

\* isValidSit, isValidCustom and isValid: the buttons' conditions.
SaveFromSit ==
  /\ dialog.kind = "create" /\ dialog.mode = "sit"
  /\ dialog.sit # "" /\ dialog.label /\ dialog.name # ""
  /\ net' = Sent(net, "newPolicy", [tenant |-> tenant, name |-> dialog.name,
                                    rules |-> SitRules(dialog.sit), copy |-> FALSE])

SaveCustom ==
  /\ dialog.kind = "create" /\ dialog.mode = "custom"
  /\ dialog.label /\ dialog.name # "" /\ dialog.rules.conditions # <<>>
  /\ net' = Sent(net, "newPolicy", [tenant |-> tenant, name |-> dialog.name,
                                    rules |-> dialog.rules, copy |-> FALSE])

\* Name, label, priority and rules, all of them, as the dialog has them.
SaveEdit ==
  /\ dialog.kind = "edit"
  /\ dialog.label /\ dialog.name # ""
  /\ ~IsSit(dialog.rules) => dialog.rules.conditions # <<>>
  /\ net' = Sent(net, "patch", [tenant |-> tenant, id |-> dialog.id,
                   body |-> [name |-> dialog.name, rules |-> dialog.rules]])

SaveDialog ==
  /\ Click("form") /\ tenant # NoTenant /\ Free(net) > 0
  /\ SaveFromSit \/ SaveCustom \/ SaveEdit
  /\ UNCHANGED <<user, page, tenant, consent, faults, policies, pp, dialog>>

-----------------------------------------------------------------------------
PoliciesInit ==
  /\ policies \in FirstPolicies
  /\ pp = NewPolicyPage /\ dialog = NoPolicyDialog

PoliciesClicks ==
  \/ PoliciesSelectTenant \/ TogglePolicy \/ DeletePolicy \/ DuplicatePolicy
  \/ ExpandRow \/ OpenCreate \/ OpenEdit \/ CloseDialog \/ FillDialog \/ SaveDialog

PoliciesRun(s) ==
  \/ ServePolicies(s) \/ ServeNewPolicy(s) \/ ServeChange(s) \/ ServeCatalog(s)
  \/ PoliciesTakeTenants(s) \/ TakePolicies(s) \/ TakeChange(s) \/ TakeCatalog(s)

PoliciesTypeOK ==
  /\ DOMAIN pp.rows \subseteq 1 .. Len(policies)
  /\ dialog.kind \in {"none", "create", "edit"}
  /\ dialog.kind # "none" /\ ~IsSit(dialog.rules) =>
       Len(dialog.rules.conditions) <= MaxConditions

\* A custom policy whose every entry has been filled in, whatever was added,
\* changed and removed on the way, labels no file in which nothing it names
\* is found: no count of zero, no condition that an empty list makes true, in
\* either mode.  (RuleBuilder's defaults and limits, the dialog's conditions
\* and _evaluate_legacy_policy.)
PoliciesNeedEvidence ==
  \A i \in 1 .. Len(policies) :
    ~IsSit(policies[i].rules) /\ Explicit(policies[i].rules) => ~Matches(policies[i].rules)
=============================================================================
