----------------------------- MODULE WebSession ------------------------------
(***************************************************************************)
(* What every page of the web client stands on: the signed-in user, the    *)
(* route, the page's own tenant selector (hooks/useTenants.ts, mounted     *)
(* anew by every page) and the API calls in flight (lib/api.ts).           *)
(*                                                                         *)
(* A call occupies a slot from the moment it is sent until its answer has  *)
(* been taken.  The server handles it in one step, the page takes the      *)
(* answer in another, so answers overtake each other and are stale when    *)
(* they are taken.                                                         *)
(***************************************************************************)
EXTENDS Naturals, Sequences, FiniteSets, SequencesExt

CONSTANTS
  TenantList,   \* the customer tenants of the MSP, in the order they are listed
  NoTenant,     \* nothing is selected yet
  Slots,        \* bound: API calls in flight at once
  Visits        \* bound: what one session may be: the pages it goes to, the
                \* kinds of things the user does there, how often, and how many
                \* calls fail: a set of [pages, does, clicks, faults]

ASSUME SessionAssumption ==
  /\ Slots \in Nat \ {0}
  /\ \A v \in Visits : v.clicks \in Nat /\ v.faults \in Nat
  /\ NoTenant \notin Range(TenantList)

VARIABLES
  user,     \* [role, token]: the role in the token's claims; whether a token is had
  page,     \* the route that is mounted
  tenant,   \* `selected` of the mounted page's useTenants
  net,      \* the calls in flight, by slot
  consent,  \* the server's customer_tenants: consent_status, or "absent"
  visits,   \* the session's bounds
  clicks, faults

session == <<user, page, tenant, net, consent, visits, clicks, faults>>

Tenants == Range(TenantList)
Consent == { "absent", "pending", "active", "consent_denied" }
Roles == { "Admin", "Operator", "Viewer" }
RoleLevel == [ Admin |-> 3, Operator |-> 2, Viewer |-> 1 ]
HasRole(minimum) == RoleLevel[user.role] >= RoleLevel[minimum]

Pages == { "dashboard", "auto-label", "jobs", "explorer", "labels",
           "policies", "reports", "audit", "security", "settings" }
\* The sidebar hides only Security, and only from those who are not Admins.
Routes == { p \in Pages : p = "security" => HasRole("Admin") }

-----------------------------------------------------------------------------
(* Calls.                                                                  *)

Slot == 1 .. Slots
Idle == [op |-> "none", arg |-> <<>>, st |-> "idle", val |-> <<>>, left |-> FALSE]
IdleNet == [s \in Slot |-> Idle]
Free(n) == Cardinality({ s \in Slot : n[s].st = "idle" })

\* n with one more call, in the first free slot; its token is asked for first.
Sent(n, op, arg) ==
  LET s == CHOOSE s \in Slot : /\ n[s].st = "idle"
                               /\ \A r \in Slot : r < s => n[r].st # "idle"
  IN  [n EXCEPT ![s] = [Idle EXCEPT !.op = op, !.arg = arg, !.st = "sent"]]

Done(n, s) == [n EXCEPT ![s] = Idle]
\* An AbortController gives the call up: no answer of it is taken.
Aborted(n, ops) == [s \in Slot |-> IF n[s].op \in ops THEN Idle ELSE n[s]]
InFlight(op) == { s \in Slot : net[s].op = op }
Asked(s, op) == net[s].st = "sent" /\ net[s].op = op
Answered(s, op) ==
  net[s].st \in {"ok", "failed"} /\ net[s].op = op /\ ~net[s].left
Succeeded(s) == net[s].st = "ok"

\* The page is left: what it wants to read is nobody's any more, what it wants
\* to change is changed all the same, and its answer is dropped.
Left(n, writes) ==
  [s \in Slot |-> IF n[s].st = "sent" /\ n[s].op \in writes
                    THEN [n[s] EXCEPT !.left = TRUE] ELSE Idle]
DropAnswer(s) ==
  /\ net[s].left /\ net[s].st \in {"ok", "failed"}
  /\ net' = Done(net, s)
  /\ UNCHANGED <<user, page, tenant, consent, visits, clicks, faults>>

\* The server's answer: a value, or the refusal of a role or a state.
Reply(s, val) == net' = [net EXCEPT ![s].st = "ok", ![s].val = val]
Refuse(s) == net' = [net EXCEPT ![s].st = "failed"]
\* require_role, then the rest of the endpoint.
Allowed(minimum) == user.token /\ HasRole(minimum)

Click(kind) ==
  /\ kind \in visits.does /\ clicks < visits.clicks
  /\ clicks' = clicks + 1
  /\ UNCHANGED visits

\* The network, or the server, loses a call before anything is done.
LoseCall ==
  /\ faults < visits.faults /\ faults' = faults + 1
  /\ \E s \in Slot : net[s].st = "sent" /\ Refuse(s)
  /\ UNCHANGED <<user, page, tenant, consent, visits, clicks>>

\* acquireTokenSilent fails: getToken starts a redirect to the login and gives
\* null, and the call goes out with no Authorization header.
TokenExpires ==
  /\ user.token /\ faults < visits.faults /\ faults' = faults + 1
  /\ user' = [user EXCEPT !.token = FALSE]
  /\ UNCHANGED <<page, tenant, net, consent, visits, clicks>>

-----------------------------------------------------------------------------
(* The tenant selector.                                                    *)

\* The first active tenant, else the first one, of a list (the tenants that
\* are connected, each with its consent status).
FirstOf(listed) ==
  LET connected == SelectSeq(TenantList, LAMBDA t : listed[t] # "absent")
      active == SelectSeq(connected, LAMBDA t : listed[t] = "active")
  IN  CASE active # <<>> -> active[1]
        [] active = <<>> /\ connected # <<>> -> connected[1]
        [] OTHER -> NoTenant

\* GET /security/tenants is for Admins.
ServeTenants(s) ==
  /\ Asked(s, "tenants")
  /\ IF Allowed("Admin") THEN Reply(s, consent) ELSE Refuse(s)
  /\ UNCHANGED <<user, page, tenant, consent, visits, clicks, faults>>

\* What the mounted page selects when its list of tenants arrives.
ChosenBy(s) ==
  IF Succeeded(s) /\ tenant = NoTenant
    THEN FirstOf(net[s].val)
    ELSE tenant

\* The options of the selector.  Who connects tenants is on the Security page,
\* so the list a page has loaded is still the server's.
Selectable == { t \in Tenants : consent[t] = "active" \/ t = tenant }

SessionInit ==
  /\ user \in [role : Roles, token : {TRUE}]
  /\ visits \in Visits
  /\ page \in visits.pages \cap Routes
  /\ tenant = NoTenant
  /\ clicks = 0 /\ faults = 0

SessionTypeOK ==
  /\ user \in [role : Roles, token : BOOLEAN]
  /\ page \in Pages
  /\ tenant \in Tenants \cup {NoTenant}
  /\ \A s \in Slot : net[s].st \in {"idle", "sent", "ok", "failed"}
  /\ consent \in [Tenants -> Consent]
  /\ visits \in Visits /\ clicks \in 0 .. visits.clicks /\ faults \in 0 .. visits.faults
=============================================================================
