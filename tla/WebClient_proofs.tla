--------------------------- MODULE WebClient_proofs ----------------------------
(***************************************************************************)
(* Proofs about WebClient, for any tenants, sites, catalog, spreadsheets   *)
(* and reports, any jobs and policies the server starts with, any visits   *)
(* and any number of calls in flight.                                      *)
(***************************************************************************)
EXTENDS WebClient, FiniteSetTheorems, SequenceTheorems, WellFoundedInduction, TLAPS

-----------------------------------------------------------------------------
(* The inductive invariant.                                                *)

\* Rules the builder or the catalog can have made.
IsRules(r) == r \in CustomRules \/ r = SitRules(r.patterns)

\* Rows that count things.
Tally(q) == q \in Seq(Range(q)) /\ \A i \in 1 .. Len(q) : q[i].n \in Nat

\* What the arguments, and the answer, of a call are whatever becomes of the page.
SoundCall(c) ==
  /\ DOMAIN c = {"op", "arg", "st", "val", "left"}
  /\ c.op = "create" => Agrees(c.arg.config, c.arg.asked)
  /\ c.op = "newPolicy" => IsRules(c.arg.rules)
  /\ c.op = "patch" /\ "rules" \in DOMAIN c.arg.body => IsRules(c.arg.body.rules)
  /\ c.op = "policies" /\ c.st = "ok" => \A i \in DOMAIN c.val : IsRules(c.val[i].rules)
  /\ c.op = "report" => /\ c.arg.sel.tab \in ReportTab \ {"overview"}
                        /\ c.st = "ok" => Tally(c.val)
  /\ c.op = "remove" =>
       (OneLineCells(Sheets[c.arg.sheet]) => c.arg.items = Listed(Sheets[c.arg.sheet]))

\* A call that reads is one of the page that is mounted, and asks for what is
\* selected where the clean-up of an effect promises it.
TimelyCall(c, pg, tn, sel) ==
  /\ c.op = "report" => /\ pg = "reports" /\ tn # NoTenant
                        /\ c.arg.tenant = tn /\ c.arg.sel = sel
  /\ c.op = "home" => pg = "dashboard" /\ c.arg.tenant = tn
  /\ c.op = "labelList" => pg = "labels"
  /\ c.op = "audit" => pg = "audit"

GoodCall(c, pg, tn, sel) == SoundCall(c) /\ TimelyCall(c, pg, tn, sel)
GoodNet(n, pg, tn, sel) ==
  /\ DOMAIN n = Slot
  /\ \A s \in Slot : GoodCall(n[s], pg, tn, sel)

Forms ==
  [open : {TRUE}, named : BOOLEAN, mode : {"policy", "static"}, label : BOOLEAN,
   dryRun : BOOLEAN, scope : {"all", "sites"}, sites : SUBSET Site,
   search : {"", "hr"}, options : SUBSET Site, timer : BOOLEAN, scheduled : BOOLEAN,
   preset : {"weekly", "monthly", "custom"},
   cron : {"", "weekly", "monthly", "typed", "malformed"}]

\* The server's jobs, and the dialog.
IsJob(j) ==
  /\ DOMAIN j = {"tenant", "status", "config", "asked"}
  /\ Agrees(j.config, j.asked)
JobsInv ==
  /\ jobs \in Seq(Range(jobs))
  /\ \A j \in 1 .. Len(jobs) : IsJob(jobs[j])
  /\ form = Closed \/ form \in Forms

\* The server's policies, the rows and the dialog hold rules of the builder.
IsPolicy(p) == "rules" \in DOMAIN p /\ IsRules(p.rules)
PoliciesInv ==
  /\ policies \in Seq(Range(policies))
  /\ \A i \in 1 .. Len(policies) : IsPolicy(policies[i])
  /\ DOMAIN pp = {"rows", "loading", "expanded"}
  /\ \A i \in DOMAIN pp.rows : IsRules(pp.rows[i].rules)
  /\ \/ dialog = NoPolicyDialog
     \/ DOMAIN dialog = DOMAIN NewDialog /\ IsRules(dialog.rules)

\* What is shown, once nothing loads, is what is selected.
ShownInv(v, pg, tn) ==
  /\ DOMAIN v = {"sel", "rows", "of", "ofSel", "overview", "total", "loading"}
  /\ pg = "reports" =>
       /\ v.sel.tab \in ReportTab /\ Tally(v.rows)
       /\ tn = NoTenant => v.rows = <<>>
       /\ tn # NoTenant /\ ~v.loading /\ v.sel.tab # "overview" =>
            v.of = tn /\ v.ofSel = v.sel
  /\ pg = "dashboard" /\ ~v.loading => v.of \in {tn, NoTenant}

NetInv == GoodNet(net, page, tenant, view.sel)
ViewInv == ShownInv(view, page, tenant)

WebInv == NetInv /\ JobsInv /\ PoliciesInv /\ ViewInv

\* The file chosen in the dialogs of Auto-Label is one the user has. It does not
\* depend on the rest.
BoxInv ==
  box.kind # "none" =>
    "file" \in DOMAIN box /\ box.file \in 0 .. Len(Sheets)

-----------------------------------------------------------------------------
(* The calls in flight.                                                    *)

NewCall(op, arg) == [op |-> op, arg |-> arg, st |-> "sent", val |-> <<>>, left |-> FALSE]

\* A call whose operation the invariant says nothing of.
Plain(op) ==
  op \notin {"act", "create", "newPolicy", "patch", "remove", "report", "home",
              "labelList", "audit"}

LEMMA IdleIsGood ==
  ASSUME NEW pg, NEW tn, NEW sel
  PROVE  GoodCall(Idle, pg, tn, sel)
BY DEF GoodCall, SoundCall, TimelyCall, Idle

LEMMA NewPlainIsGood ==
  ASSUME NEW pg, NEW tn, NEW sel, NEW op, NEW arg, Plain(op)
  PROVE  GoodCall(NewCall(op, arg), pg, tn, sel)
BY DEF GoodCall, SoundCall, TimelyCall, NewCall, Plain

LEMMA DoneIsGood ==
  ASSUME NEW n, NEW s \in Slot, NEW pg, NEW tn, NEW sel, GoodNet(n, pg, tn, sel)
  PROVE  GoodNet(Done(n, s), pg, tn, sel)
BY IdleIsGood DEF GoodNet, Done

LEMMA AbortedIsGood ==
  ASSUME NEW n, NEW ops, NEW pg, NEW tn, NEW sel, GoodNet(n, pg, tn, sel)
  PROVE  GoodNet(Aborted(n, ops), pg, tn, sel)
BY IdleIsGood DEF GoodNet, Aborted

LEMMA SentAt ==
  ASSUME NEW n, NEW op, NEW arg, NEW s \in Slot, DOMAIN n = Slot
  PROVE  /\ DOMAIN Sent(n, op, arg) = Slot
         /\ Sent(n, op, arg)[s] = n[s] \/ Sent(n, op, arg)[s] = NewCall(op, arg)
<1> DEFINE r == CHOOSE r \in Slot : /\ n[r].st = "idle"
                                    /\ \A q \in Slot : q < r => n[q].st # "idle"
           c == [Idle EXCEPT !.op = op, !.arg = arg, !.st = "sent"]
<1>1. Sent(n, op, arg) = [n EXCEPT ![r] = c]
  BY Zenon DEF Sent
<1>2. c = NewCall(op, arg)
  <2>1. /\ DOMAIN c = {"op", "arg", "st", "val", "left"}
        /\ c.op = op /\ c.arg = arg /\ c.st = "sent" /\ c.val = <<>> /\ c.left = FALSE
    BY DEF Idle
  <2>2. c = [f \in DOMAIN c |-> c[f]]
    BY Zenon
  <2> HIDE DEF c
  <2> QED BY <2>1, <2>2 DEF NewCall
<1> HIDE DEF r, c
<1> QED BY <1>1, <1>2

LEMMA SentIsGood ==
  ASSUME NEW n, NEW op, NEW arg, NEW pg, NEW tn, NEW sel, GoodNet(n, pg, tn, sel),
         GoodCall(NewCall(op, arg), pg, tn, sel)
  PROVE  GoodNet(Sent(n, op, arg), pg, tn, sel)
<1>1. DOMAIN n = Slot /\ Slot # {}
  BY SessionAssumption DEF GoodNet, Slot
<1>2. DOMAIN Sent(n, op, arg) = Slot
  BY <1>1, SentAt
<1>3. ASSUME NEW s \in Slot PROVE GoodCall(Sent(n, op, arg)[s], pg, tn, sel)
  BY <1>1, SentAt DEF GoodNet
<1> QED BY <1>2, <1>3 DEF GoodNet

LEMMA PlainSentIsGood ==
  ASSUME NEW n, NEW op, NEW arg, NEW pg, NEW tn, NEW sel, GoodNet(n, pg, tn, sel),
         Plain(op)
  PROVE  GoodNet(Sent(n, op, arg), pg, tn, sel)
BY NewPlainIsGood, SentIsGood

\* An answer: the call with another st, and perhaps a value.
LEMMA RefusedIsGood ==
  ASSUME NEW n, NEW s \in Slot, NEW pg, NEW tn, NEW sel, GoodNet(n, pg, tn, sel)
  PROVE  GoodNet([n EXCEPT ![s].st = "failed"], pg, tn, sel)
<1> DEFINE c == [n[s] EXCEPT !.st = "failed"]
<1>1. GoodCall(n[s], pg, tn, sel) /\ DOMAIN n = Slot
  BY DEF GoodNet
<1>2. /\ DOMAIN c = DOMAIN n[s] /\ c.st = "failed"
      /\ c.op = n[s].op /\ c.arg = n[s].arg
  BY <1>1 DEF GoodCall, SoundCall
<1>3. [n EXCEPT ![s].st = "failed"] = [n EXCEPT ![s] = c]
  BY Zenon
<1> HIDE DEF c
<1>4. GoodCall(c, pg, tn, sel)
  BY <1>1, <1>2 DEF GoodCall, SoundCall, TimelyCall
<1> QED BY <1>1, <1>3, <1>4 DEF GoodNet

LEMMA RepliedIsGood ==
  ASSUME NEW n, NEW s \in Slot, NEW v, NEW pg, NEW tn, NEW sel, GoodNet(n, pg, tn, sel),
         n[s].op = "policies" => \A i \in DOMAIN v : IsRules(v[i].rules),
         n[s].op = "report" => Tally(v)
  PROVE  GoodNet([n EXCEPT ![s].st = "ok", ![s].val = v], pg, tn, sel)
<1> DEFINE c == [n[s] EXCEPT !.st = "ok", !.val = v]
<1>1. GoodCall(n[s], pg, tn, sel) /\ DOMAIN n = Slot
  BY DEF GoodNet
<1>2. /\ DOMAIN c = DOMAIN n[s] /\ c.st = "ok" /\ c.val = v
      /\ c.op = n[s].op /\ c.arg = n[s].arg
  BY <1>1 DEF GoodCall, SoundCall
<1>3. [n EXCEPT ![s].st = "ok", ![s].val = v] = [n EXCEPT ![s] = c]
  BY <1>1
<1> HIDE DEF c
<1>4. GoodCall(c, pg, tn, sel)
  BY <1>1, <1>2 DEF GoodCall, SoundCall, TimelyCall
<1> QED BY <1>1, <1>3, <1>4 DEF GoodNet

\* The page is left: only calls that change something stay, and these promise
\* nothing about what is selected.
LEMMA LeftIsGood ==
  ASSUME NEW n, NEW pg, NEW tn, NEW sel, GoodNet(n, pg, tn, sel),
         NEW pg2, NEW tn2, NEW sel2
  PROVE  GoodNet(Left(n, Writes), pg2, tn2, sel2)
<1>1. ASSUME NEW s \in Slot PROVE GoodCall(Left(n, Writes)[s], pg2, tn2, sel2)
  <2>1. GoodCall(n[s], pg, tn, sel)
    BY DEF GoodNet
  <2>2. CASE n[s].st = "sent" /\ n[s].op \in Writes
    <3> DEFINE c == [n[s] EXCEPT !.left = TRUE]
    <3>1. Left(n, Writes)[s] = c
      BY <2>2 DEF Left
    <3>2. /\ DOMAIN c = DOMAIN n[s] /\ c.op = n[s].op /\ c.arg = n[s].arg
          /\ c.st = n[s].st /\ c.val = n[s].val
      BY <2>1 DEF GoodCall, SoundCall
    <3> HIDE DEF c
    <3>3. GoodCall(c, pg2, tn2, sel2)
      BY <2>1, <2>2, <3>2 DEF GoodCall, SoundCall, TimelyCall, Writes
    <3> QED BY <3>1, <3>3
  <2>3. CASE ~(n[s].st = "sent" /\ n[s].op \in Writes)
    BY <2>3, IdleIsGood DEF Left
  <2> QED BY <2>2, <2>3
<1>2. DOMAIN Left(n, Writes) = Slot
  BY DEF Left
<1> QED BY <1>1, <1>2 DEF GoodNet

LEMMA WithoutLabelIsGood ==
  ASSUME NEW n, NEW pg, NEW tn, NEW sel, GoodNet(n, pg, tn, sel)
  PROVE  GoodNet(WithoutLabelCall(n), pg, tn, sel)
BY IdleIsGood DEF GoodNet, WithoutLabelCall

\* On the other pages no call depends on what is selected.
LEMMA ElsewhereIsGood ==
  ASSUME NEW n, NEW pg, NEW tn, NEW sel, GoodNet(n, pg, tn, sel),
         pg \notin {"reports", "dashboard"}, NEW tn2, NEW sel2
  PROVE  GoodNet(n, pg, tn2, sel2)
BY DEF GoodNet, GoodCall, TimelyCall

-----------------------------------------------------------------------------
(* What a step leaves alone.                                               *)

LEMMA JobsStay ==
  ASSUME JobsInv, UNCHANGED <<jobs, form>>
  PROVE  JobsInv'
BY DEF JobsInv, IsJob

LEMMA PoliciesStay ==
  ASSUME PoliciesInv, UNCHANGED <<policies, pp, dialog>>
  PROVE  PoliciesInv'
BY DEF PoliciesInv, IsPolicy

LEMMA ViewStays ==
  ASSUME ViewInv, UNCHANGED <<view, page>>,
         UNCHANGED tenant \/ page \notin {"reports", "dashboard"}
  PROVE  ViewInv'
BY DEF ViewInv, ShownInv

\* A step that neither selects nor shows anything: what it does to the calls,
\* the jobs and the policies is all there is to see to.
LEMMA NothingElse ==
  ASSUME WebInv, UNCHANGED <<view, page>>,
         UNCHANGED tenant \/ page \notin {"reports", "dashboard"},
         GoodNet(net', page, tenant, view.sel), JobsInv', PoliciesInv'
  PROVE  WebInv'
<1>1. ViewInv'
  BY ViewStays DEF WebInv
<1>2. NetInv'
  BY ElsewhereIsGood DEF NetInv
<1> QED BY <1>1, <1>2 DEF WebInv

-----------------------------------------------------------------------------
(* Sequences.                                                              *)

LEMMA SameLast ==
  ASSUME NEW a \in Nat, NEW b \in Nat, 1 .. a = 1 .. b
  PROVE  a = b
<1>1. CASE a = 0 \/ b = 0
  BY <1>1
<1>2. CASE a # 0 /\ b # 0
  <2>1. a \in 1 .. a /\ b \in 1 .. b
    BY <1>2
  <2>2. a \in 1 .. b /\ b \in 1 .. a
    BY <2>1
  <2> QED BY <2>2
<1> QED BY <1>1, <1>2

LEMMA Appended ==
  ASSUME NEW q, NEW x, q \in Seq(Range(q))
  PROVE  /\ Append(q, x) \in Seq(Range(Append(q, x)))
         /\ Len(Append(q, x)) = Len(q) + 1 /\ Len(q) \in Nat
         /\ \A i \in 1 .. Len(q) : Append(q, x)[i] = q[i]
         /\ Append(q, x)[Len(q) + 1] = x
<1> DEFINE S == Range(q) \cup {x}
           r == Append(q, x)
<1>1. q \in Seq(S) /\ x \in S
  BY SeqMonotonic
<1>2. /\ r \in Seq(S)
      /\ Len(r) = Len(q) + 1 /\ Len(q) \in Nat
      /\ \A i \in 1 .. Len(q) : r[i] = q[i]
      /\ r[Len(q) + 1] = x
  BY <1>1, AppendProperties, LenProperties
<1> HIDE DEF r, S
<1>3. r \in Seq(Range(r))
  <2>1. r \in [1 .. Len(r) -> S] /\ Len(r) \in Nat
    BY <1>2, LenProperties
  <2>2. r \in [1 .. Len(r) -> Range(r)]
    BY <2>1 DEF Range
  <2> QED BY <2>1, <2>2 DEF Seq
<1> QED BY <1>2, <1>3 DEF r

LEMMA Replaced ==
  ASSUME NEW q, NEW x, NEW i \in 1 .. Len(q), q \in Seq(Range(q))
  PROVE  /\ [q EXCEPT ![i] = x] \in Seq(Range([q EXCEPT ![i] = x]))
         /\ Len([q EXCEPT ![i] = x]) = Len(q)
         /\ \A j \in 1 .. Len(q) : [q EXCEPT ![i] = x][j] = IF j = i THEN x ELSE q[j]
<1> DEFINE r == [q EXCEPT ![i] = x]
<1>1. /\ q \in [1 .. Len(q) -> Range(q)] /\ Len(q) \in Nat
  BY LenProperties
<1>2. r \in [1 .. Len(q) -> Range(r)]
  BY <1>1 DEF Range
<1>3. r \in Seq(Range(r)) /\ Len(r) = Len(q)
  <2> HIDE DEF r
  <2>1. r \in Seq(Range(r))
    BY <1>1, <1>2 DEF Seq
  <2>2. DOMAIN r = 1 .. Len(r) /\ Len(r) \in Nat /\ DOMAIN r = 1 .. Len(q)
    BY <2>1, <1>2, LenProperties
  <2>3. 1 .. Len(r) = 1 .. Len(q) /\ Len(r) \in Nat /\ Len(q) \in Nat
    BY <2>2, <1>1
  <2>4. Len(r) = Len(q)
    BY ONLY <2>3, SameLast
  <2> QED BY <2>1, <2>4
<1> QED BY <1>1, <1>3

-----------------------------------------------------------------------------
(* Folds from the left, by the least counterexample.                       *)

LEMMA Least ==
  ASSUME NEW T, T \subseteq Nat, T # {}
  PROVE  \E n \in T : \A m \in T : n <= m
<1>1. IsWellFoundedOn(OpToRel(<, Nat), Nat)
  BY NatLessThanWellFounded
<1>2. PICK n \in T : \A m \in T : ~(<<m, n>> \in OpToRel(<, Nat))
  BY <1>1, WFMin, Zenon
<1>3. \A m \in T : ~(m < n)
  BY <1>2 DEF OpToRel
<1>. QED
  BY <1>3

LEMMA Greatest ==
  ASSUME NEW n \in Nat, NEW s \in SUBSET (1 .. n), s # {}
  PROVE  Max(s) \in s /\ \A y \in s : Max(s) >= y
<1> DEFINE T == { n - x : x \in s }
<1>1. T \subseteq Nat /\ T # {}
  <2>1. \A x \in s : n - x \in Nat
    OBVIOUS
  <2>2. PICK x \in s : TRUE
    OBVIOUS
  <2>3. n - x \in T
    OBVIOUS
  <2> QED BY <2>1, <2>3
<1>2. PICK k \in T : \A j \in T : k <= j
  <2> HIDE DEF T
  <2> QED BY <1>1, Least
<1>3. PICK x \in s : k = n - x
  OBVIOUS
<1>4. \A y \in s : x >= y
  <2> TAKE y \in s
  <2>1. n - y \in T
    OBVIOUS
  <2>2. k <= n - y
    BY <1>2, <2>1
  <2> QED BY <1>3, <2>2
<1> QED BY <1>4 DEF Max

LEMMA GreatestOfPrefix ==
  ASSUME NEW i \in Nat, i # 0
  PROVE  Max(1 .. i) = i /\ (1 .. i) \ {i} = 1 .. i - 1
<1> DEFINE s == 1 .. i
<1>1. s \in SUBSET (1 .. i) /\ i \in s
  OBVIOUS
<1> HIDE DEF s
<1>2. Max(s) \in s /\ \A y \in s : Max(s) >= y
  BY ONLY <1>1, i \in Nat, Greatest
<1> QED BY <1>1, <1>2 DEF s

\* it is what a fold over 1 .. n computes, for each part of it.
Folds(it, n, St, base, F) ==
  /\ it \in [SUBSET (1 .. n) -> St]
  /\ \A s \in SUBSET (1 .. n) :
       it[s] = IF s = {} THEN base ELSE F[<<it[s \ {Max(s)}], Max(s)>>]

LEMMA FoldExists ==
  ASSUME NEW n \in Nat, NEW St, NEW base \in St, NEW F \in [St \X (1 .. n) -> St]
  PROVE  \E it : Folds(it, n, St, base, F)
<1> DEFINE Good(m, it) ==
             \A s \in SUBSET (1 .. m) :
               it[s] = IF s = {} THEN base ELSE F[<<it[s \ {Max(s)}], Max(s)>>]
           T == { m \in 0 .. n : ~ \E it \in [SUBSET (1 .. m) -> St] : Good(m, it) }
<1>1. ASSUME T # {} PROVE FALSE
  <2>1. T \subseteq Nat
    OBVIOUS
  <2>2. PICK m \in T : \A j \in T : m <= j
    <3> HIDE DEF T
    <3> QED BY <1>1, <2>1, Least
  <2>3. m # 0
    <3> SUFFICES ASSUME m = 0 PROVE FALSE
      OBVIOUS
    <3> DEFINE it == [s \in SUBSET (1 .. 0) |-> base]
    <3>1. it \in [SUBSET (1 .. 0) -> St] /\ \A s \in SUBSET (1 .. 0) : s = {} /\ it[s] = base
      OBVIOUS
    <3> HIDE DEF it
    <3>2. Good(0, it)
      BY <3>1
    <3> QED BY <3>1, <3>2
  <2>4. m \in 1 .. n /\ m - 1 \in 0 .. n /\ m - 1 \notin T
    <3>1. m \in 0 .. n
      OBVIOUS
    <3> HIDE DEF T
    <3> QED BY <2>2, <2>3, <3>1
  <2>5. PICK h \in [SUBSET (1 .. m - 1) -> St] : Good(m - 1, h)
    <3> HIDE DEF Good
    <3> QED BY <2>4
  <2> DEFINE it == [s \in SUBSET (1 .. m) |-> IF m \in s THEN F[<<h[s \ {m}], m>>] ELSE h[s]]
  <2>6. \A s \in SUBSET (1 .. m) : s \ {m} \in SUBSET (1 .. m - 1)
    BY <2>4
  <2>7. it \in [SUBSET (1 .. m) -> St]
    <3> SUFFICES ASSUME NEW s \in SUBSET (1 .. m) PROVE it[s] \in St
      OBVIOUS
    <3>1. CASE m \in s
      <4>1. h[s \ {m}] \in St
        BY <2>6
      <4> QED BY <2>4, <3>1, <4>1
    <3>2. CASE m \notin s
      BY <2>6, <3>2
    <3> QED BY <3>1, <3>2
  <2>8. ASSUME NEW s \in SUBSET (1 .. m)
        PROVE  it[s] = IF s = {} THEN base ELSE F[<<it[s \ {Max(s)}], Max(s)>>]
    <3>m. m \in Nat
      BY <2>4
    <3>0. s # {} => Max(s) \in s /\ \A y \in s : Max(s) >= y
      BY ONLY <3>m, s \in SUBSET (1 .. m), Greatest
    <3>1. CASE m \in s
      <4> DEFINE x == Max(s)
      <4>1. x \in s /\ x >= m
        BY <3>0, <3>1
      <4> HIDE DEF x
      <4>2. x = m
        BY <4>1, <2>4
      <4>3. it[s \ {m}] = h[s \ {m}]
        BY <2>6
      <4>4. it[s] = F[<<h[s \ {m}], m>>]
        BY <3>1
      <4>5. it[s] = F[<<it[s \ {x}], x>>]
        BY <4>2, <4>3, <4>4
      <4> QED BY <3>1, <4>5 DEF x
    <3>2. CASE m \notin s
      <4>1. s \in SUBSET (1 .. m - 1) /\ s \ {m} = s
        BY <2>6, <3>2
      <4>2. it[s] = h[s]
        BY <3>2
      <4>3. it[s \ {Max(s)}] = h[s \ {Max(s)}]
        BY <3>2
      <4> HIDE DEF it
      <4> QED BY <2>5, <4>1, <4>2, <4>3
    <3> QED BY <3>1, <3>2
  <2>9. Good(m, it)
    BY <2>8
  <2> HIDE DEF it, Good
  <2> QED BY <2>7, <2>9
<1>3. PICK it \in [SUBSET (1 .. n) -> St] : Good(n, it)
  <2> HIDE DEF Good
  <2>1. n \in 0 .. n
    OBVIOUS
  <2>2. n \notin T
    <3> HIDE DEF T
    <3> QED BY <1>1
  <2> QED BY <2>1, <2>2
<1> QED BY <1>3 DEF Folds

\* Induction over 0 .. n.
LEMMA Upward ==
  ASSUME NEW n \in Nat, NEW S, 0 \in S, \A i \in 1 .. n : i - 1 \in S => i \in S
  PROVE  \A i \in 0 .. n : i \in S
<1> DEFINE T == { i \in 0 .. n : i \notin S }
<1> SUFFICES ASSUME T # {} PROVE FALSE
  OBVIOUS
<1>1. PICK m \in T : \A j \in T : m <= j
  <2>1. T \subseteq Nat
    OBVIOUS
  <2> HIDE DEF T
  <2> QED BY <2>1, Least
<1>2. m \in 1 .. n /\ m - 1 \in 0 .. n /\ m - 1 \notin T
  BY <1>1
<1> QED BY <1>2

LEMMA UpTo ==
  ASSUME NEW n \in Nat, NEW S, 0 \in S, \A i \in 1 .. n : i - 1 \in S => i \in S
  PROVE  n \in S
BY n \in 0 .. n, Upward

LEMMA Climbs ==
  ASSUME NEW n \in Nat, NEW l \in [0 .. n -> Nat], \A i \in 1 .. n : l[i - 1] <= l[i],
         NEW k \in 0 .. n
  PROVE  \A i \in 0 .. k : l[i] <= l[k]
<1> DEFINE S == { h \in 0 .. k : l[k - h] <= l[k] }
<1>1. 0 \in S
  OBVIOUS
<1>2. ASSUME NEW h \in 1 .. k, h - 1 \in S PROVE h \in S
  <2> DEFINE i == k - (h - 1)
  <2>1. i \in 1 .. n /\ i - 1 = k - h /\ h \in 0 .. k /\ l[i] <= l[k] /\ i - 1 \in 0 .. n
    BY <1>2
  <2> HIDE DEF i
  <2>2. l[i - 1] <= l[i] /\ l[i - 1] \in Nat /\ l[i] \in Nat /\ l[k] \in Nat
    BY <2>1
  <2>3. l[i - 1] <= l[k]
    BY ONLY <2>1, <2>2
  <2>4. l[k - h] <= l[k]
    BY <2>1, <2>3
  <2> QED BY <2>1, <2>4
<1>3. \A h \in 0 .. k : h \in S
  <2>1. k \in Nat
    OBVIOUS
  <2> HIDE DEF S
  <2> QED BY ONLY <1>1, <1>2, <2>1, Upward
<1> TAKE i \in 0 .. k
<1>4. k - i \in 0 .. k /\ k - (k - i) = i
  OBVIOUS
<1>5. k - i \in S
  BY <1>3, <1>4
<1> QED BY <1>4, <1>5

\* it goes as F does as long as its values are in St.
Follows(it, n, St, base, F) ==
  /\ it[{}] = base
  /\ \A s \in SUBSET (1 .. n) :
       s # {} /\ it[s \ {Max(s)}] \in St => it[s] = F[<<it[s \ {Max(s)}], Max(s)>>]

\* v is what the fold passes through, and its result.
Passes(v, n, St, base, F, result) ==
  /\ v \in [0 .. n -> St]
  /\ v[0] = base /\ v[n] = result
  /\ \A i \in 1 .. n : v[i - 1] \in St /\ v[i] = F[<<v[i - 1], i>>]

LEMMA FoldSteps ==
  ASSUME NEW n \in Nat, NEW St, NEW base \in St, NEW F \in [St \X (1 .. n) -> St],
         NEW it, Follows(it, n, St, base, F)
  PROVE  \E v : Passes(v, n, St, base, F, it[1 .. n])
<1> DEFINE v == [i \in 0 .. n |-> it[1 .. i]]
           S == { j \in 0 .. n : v[j] \in St }
<1>1. v[0] = base /\ v[n] = it[1 .. n]
  BY DEF Follows
<1>2. ASSUME NEW i \in 1 .. n, v[i - 1] \in St
      PROVE  v[i] = F[<<v[i - 1], i>>]
  <2> DEFINE s == 1 .. i
  <2>1. s \in SUBSET (1 .. n) /\ i \in s
    OBVIOUS
  <2>2. Max(s) = i /\ s \ {i} = 1 .. i - 1
    BY GreatestOfPrefix
  <2>3. v[i] = it[s] /\ v[i - 1] = it[1 .. i - 1]
    OBVIOUS
  <2> HIDE DEF s, v
  <2>4. it[s] = F[<<it[s \ {Max(s)}], Max(s)>>]
    BY <1>2, <2>1, <2>2, <2>3 DEF Follows
  <2> QED BY <2>2, <2>3, <2>4
<1>3. \A i \in 0 .. n : i \in S
  <2>1. 0 \in S
    BY <1>1
  <2>2. ASSUME NEW i \in 1 .. n, i - 1 \in S PROVE i \in S
    <3>1. v[i - 1] \in St /\ v[i] = F[<<v[i - 1], i>>]
      BY <1>2, <2>2
    <3> HIDE DEF v
    <3> QED BY <3>1
  <2> HIDE DEF S
  <2> QED BY <2>1, <2>2, Upward
<1>4. v \in [0 .. n -> St] /\ \A i \in 1 .. n : v[i - 1] \in St
  BY <1>3
<1> HIDE DEF v
<1> QED BY <1>1, <1>2, <1>4 DEF Passes

-----------------------------------------------------------------------------
(* The sum of a report's rows.                                             *)

LEMMA NothingToTally == Tally(<<>>)
BY DEF Tally

\* v is what is counted row by row.
Sums(v, q) ==
  /\ v \in [0 .. Len(q) -> Nat] /\ v[0] = 0 /\ Counted(q) = v[Len(q)]
  /\ \A i \in 1 .. Len(q) : v[i] = v[i - 1] + q[i].n /\ v[i - 1] \in Nat

LEMMA CountedSteps ==
  ASSUME NEW rows, Tally(rows)
  PROVE  \E v : Sums(v, rows)
<1> DEFINE n == Len(rows)
           F == [p \in Nat \X (1 .. n) |-> p[1] + rows[p[2]].n]
           Fold(it) == it = [s \in SUBSET DOMAIN rows |->
                               IF s = {} THEN 0 ELSE it[s \ {Max(s)}] + rows[Max(s)].n]
<1>1. n \in Nat /\ DOMAIN rows = 1 .. n /\ \A i \in 1 .. n : rows[i].n \in Nat
  BY DEF Tally
<1>2. Counted(rows) = (CHOOSE it : Fold(it))[1 .. n]
  BY <1>1 DEF Counted, FoldLeft, MapThenFoldSet
<1>3. F \in [Nat \X (1 .. n) -> Nat]
  BY <1>1
<1>4. \A x \in Nat, i \in 1 .. n : F[<<x, i>>] = x + rows[i].n
  OBVIOUS
<1>5. \A it : Folds(it, n, Nat, 0, F) => Fold(it)
  BY <1>1, <1>4, Greatest DEF Folds
<1>6. \A it : Fold(it) => Follows(it, n, Nat, 0, F)
  BY <1>1, <1>4, Greatest DEF Follows
<1>7. n \in Nat /\ 0 \in Nat
  BY <1>1
<1> HIDE DEF F, n
<1>8. \E v : Passes(v, n, Nat, 0, F, Counted(rows))
  <2> HIDE DEF Fold
  <2>1. PICK it : Fold(it) /\ Counted(rows) = it[1 .. n]
    BY <1>2, <1>3, <1>5, <1>7, FoldExists
  <2>2. Follows(it, n, Nat, 0, F)
    BY <1>6, <2>1
  <2>3. \E v : Passes(v, n, Nat, 0, F, it[1 .. n])
    BY ONLY <1>3, <1>7, <2>2, FoldSteps
  <2> QED BY <2>1, <2>3
<1>9. PICK v : Passes(v, n, Nat, 0, F, Counted(rows))
  BY <1>8
<1>10. \A i \in 1 .. n : v[i] = v[i - 1] + rows[i].n
  BY <1>4, <1>9 DEF Passes
<1> QED BY <1>9, <1>10 DEF Passes, Sums, n

\* What is counted in two parts is counted together.
LEMMA CountedSum ==
  ASSUME NEW a, NEW b, NEW c, Tally(a), Tally(b), Tally(c),
         Len(a) = Len(c), Len(b) = Len(c),
         \A i \in 1 .. Len(c) : c[i].n = a[i].n + b[i].n
  PROVE  Counted(c) = Counted(a) + Counted(b) /\ Counted(a) \in Nat /\ Counted(b) \in Nat
<1> DEFINE n == Len(c)
<1>1. n \in Nat /\ \A i \in 1 .. n : a[i].n \in Nat /\ b[i].n \in Nat
  BY DEF Tally
<1>2. PICK u : Sums(u, a)
  BY CountedSteps
<1>3. PICK v : Sums(v, b)
  BY CountedSteps
<1>4. PICK w : Sums(w, c)
  BY CountedSteps
<1>5. /\ u[0] = 0 /\ v[0] = 0 /\ w[0] = 0
      /\ Counted(a) = u[n] /\ Counted(b) = v[n] /\ Counted(c) = w[n]
      /\ u \in [0 .. n -> Nat] /\ v \in [0 .. n -> Nat]
      /\ \A i \in 1 .. n :
           /\ u[i] = u[i - 1] + a[i].n /\ u[i - 1] \in Nat
           /\ v[i] = v[i - 1] + b[i].n /\ v[i - 1] \in Nat
           /\ w[i] = w[i - 1] + c[i].n
           /\ c[i].n = a[i].n + b[i].n
  BY <1>2, <1>3, <1>4 DEF Sums
<1> HIDE DEF n
<1> DEFINE S == { i \in 0 .. n : w[i] = u[i] + v[i] }
<1>6. 0 \in S
  BY <1>1, <1>5
<1>7. ASSUME NEW i \in 1 .. n, i - 1 \in S PROVE i \in S
  <2>1. w[i - 1] = u[i - 1] + v[i - 1] /\ i \in 0 .. n
    BY <1>1, <1>7
  <2>2. /\ u[i] = u[i - 1] + a[i].n /\ v[i] = v[i - 1] + b[i].n
        /\ w[i] = w[i - 1] + c[i].n /\ c[i].n = a[i].n + b[i].n
        /\ u[i - 1] \in Nat /\ v[i - 1] \in Nat /\ a[i].n \in Nat /\ b[i].n \in Nat
    BY <1>1, <1>5
  <2>3. w[i] = u[i] + v[i]
    BY <2>1, <2>2
  <2> QED BY <2>1, <2>3
<1>8. n \in S
  <2> HIDE DEF S
  <2> QED BY <1>1, <1>6, <1>7, UpTo
<1> QED BY <1>1, <1>5, <1>8

\* If one row at most counts, it is the sum.
LEMMA CountedOne ==
  ASSUME NEW q, Tally(q), NEW k \in 1 .. Len(q),
         \A i \in 1 .. Len(q) : i # k => q[i].n = 0
  PROVE  Counted(q) = q[k].n
<1> DEFINE n == Len(q)
<1>1. n \in Nat /\ k \in 1 .. n /\ q[k].n \in Nat
  BY DEF Tally
<1>2. PICK v : Sums(v, q)
  BY CountedSteps
<1>3. /\ v[0] = 0 /\ Counted(q) = v[n]
      /\ \A i \in 1 .. n : v[i] = v[i - 1] + q[i].n /\ (i # k => q[i].n = 0)
  BY <1>2 DEF Sums
<1> HIDE DEF n
<1> DEFINE S == { i \in 0 .. n : v[i] = IF i >= k THEN q[k].n ELSE 0 }
<1>4. 0 \in S
  BY <1>1, <1>3
<1>5. ASSUME NEW i \in 1 .. n, i - 1 \in S PROVE i \in S
  <2>1. v[i - 1] = (IF i - 1 >= k THEN q[k].n ELSE 0) /\ i \in 0 .. n
    BY <1>1, <1>5
  <2>2. v[i] = IF i >= k THEN q[k].n ELSE 0
    BY <1>1, <1>3, <2>1
  <2> QED BY <2>1, <2>2
<1>6. n \in S
  <2> HIDE DEF S
  <2> QED BY <1>1, <1>4, <1>5, UpTo
<1> QED BY <1>1, <1>3, <1>6

LEMMA CountedAppend ==
  ASSUME NEW q, NEW r, Tally(q), Tally(Append(q, r))
  PROVE  Counted(Append(q, r)) = Counted(q) + r.n
<1> DEFINE n == Len(q)
           p == Append(q, r)
<1>1. n \in Nat /\ Len(p) = n + 1 /\ p[n + 1] = r /\ \A i \in 1 .. n : p[i] = q[i]
  BY DEF Tally
<1>2. PICK u : Sums(u, q)
  BY CountedSteps
<1>3. PICK v : Sums(v, p)
  BY CountedSteps
<1> HIDE DEF p
<1>4. /\ u[0] = 0 /\ v[0] = 0 /\ Counted(q) = u[n] /\ Counted(p) = v[n + 1]
      /\ \A i \in 1 .. n : u[i] = u[i - 1] + q[i].n
      /\ \A i \in 1 .. n + 1 : v[i] = v[i - 1] + p[i].n
  BY <1>1, <1>2, <1>3 DEF Sums
<1> HIDE DEF n
<1> DEFINE S == { i \in 0 .. n : v[i] = u[i] }
<1>5. 0 \in S
  BY <1>1, <1>4
<1>6. ASSUME NEW i \in 1 .. n, i - 1 \in S PROVE i \in S
  <2>1. v[i - 1] = u[i - 1] /\ p[i] = q[i] /\ i \in 1 .. n + 1 /\ i \in 0 .. n
    BY <1>1, <1>6
  <2> QED BY <1>4, <2>1
<1>7. n \in S
  <2> HIDE DEF S
  <2> QED BY <1>1, <1>5, <1>6, UpTo
<1>8. v[n + 1] = v[n] + r.n
  BY <1>1, <1>4
<1> QED BY <1>4, <1>7, <1>8 DEF p

\* The rows whose mark is in S; the others count nothing.
Part(q, m, S) ==
  [i \in 1 .. Len(q) |-> [n |-> IF m[i] \in S THEN q[i].n ELSE 0]]

LEMMA PartTally ==
  ASSUME NEW q, Tally(q), NEW m, NEW S
  PROVE  /\ Tally(Part(q, m, S)) /\ Len(Part(q, m, S)) = Len(q)
         /\ \A i \in 1 .. Len(q) : Part(q, m, S)[i].n = IF m[i] \in S THEN q[i].n ELSE 0
<1> DEFINE p == Part(q, m, S)
           n == Len(q)
<1>1. n \in Nat /\ DOMAIN p = 1 .. n
  BY DEF Tally, Part
<1>2. \A i \in 1 .. n : p[i].n = IF m[i] \in S THEN q[i].n ELSE 0
  BY DEF Part
<1>3. \A i \in 1 .. n : q[i].n \in Nat
  BY DEF Tally
<1>4. p \in [1 .. n -> Range(p)]
  <2>1. p = [i \in 1 .. n |-> p[i]]
    BY DEF Part
  <2> HIDE DEF p
  <2> QED BY <1>1, <2>1 DEF Range
<1> HIDE DEF p, n
<1>5. p \in Seq(Range(p)) /\ Len(p) = n
  BY <1>1, <1>4
<1> QED BY <1>2, <1>3, <1>5 DEF Tally, p, n

LEMMA PartNone ==
  ASSUME NEW q, Tally(q), NEW m
  PROVE  Counted(Part(q, m, {})) = 0
<1> DEFINE p == Part(q, m, {})
<1>1. Tally(p) /\ Len(p) = Len(q) /\ \A i \in 1 .. Len(p) : p[i].n = p[i].n + p[i].n
  BY PartTally
<1> HIDE DEF p
<1>2. Counted(p) = Counted(p) + Counted(p) /\ Counted(p) \in Nat
  BY <1>1, CountedSum
<1> QED BY <1>2 DEF p

LEMMA PartSplits ==
  ASSUME NEW q, Tally(q), NEW m, NEW S, NEW x \in S
  PROVE  Counted(Part(q, m, S)) =
           Counted(Part(q, m, {x})) + Counted(Part(q, m, S \ {x}))
<1> DEFINE a == Part(q, m, {x})
           b == Part(q, m, S \ {x})
           c == Part(q, m, S)
<1>1. /\ Tally(a) /\ Tally(b) /\ Tally(c) /\ Len(a) = Len(c) /\ Len(b) = Len(c)
      /\ Len(c) = Len(q)
  BY PartTally
<1>2. ASSUME NEW i \in 1 .. Len(q) PROVE c[i].n = a[i].n + b[i].n
  <2>1. /\ a[i].n = (IF m[i] \in {x} THEN q[i].n ELSE 0)
        /\ b[i].n = (IF m[i] \in S \ {x} THEN q[i].n ELSE 0)
        /\ c[i].n = (IF m[i] \in S THEN q[i].n ELSE 0)
        /\ q[i].n \in Nat
    BY PartTally DEF Tally
  <2> HIDE DEF a, b, c
  <2> QED BY <2>1
<1> HIDE DEF a, b, c
<1>3. Counted(c) = Counted(a) + Counted(b)
  BY <1>1, <1>2, CountedSum
<1> QED BY <1>3 DEF a, b, c

LEMMA PartAll ==
  ASSUME NEW q, Tally(q), NEW m, NEW S, \A i \in 1 .. Len(q) : m[i] \in S
  PROVE  Counted(Part(q, m, S)) = Counted(q)
<1> DEFINE a == Part(q, m, S)
           b == Part(q, m, {})
<1>1. Tally(a) /\ Tally(b) /\ Len(a) = Len(q) /\ Len(b) = Len(q)
  BY PartTally
<1>2. ASSUME NEW i \in 1 .. Len(q) PROVE q[i].n = a[i].n + b[i].n
  <2>1. a[i].n = q[i].n /\ b[i].n = 0 /\ q[i].n \in Nat
    BY PartTally DEF Tally
  <2> HIDE DEF a, b
  <2> QED BY <2>1
<1>3. Counted(b) = 0
  BY PartNone
<1> HIDE DEF a, b
<1>4. Counted(q) = Counted(a) + Counted(b) /\ Counted(a) \in Nat
  BY <1>1, <1>2, CountedSum
<1> QED BY <1>3, <1>4 DEF a

LEMMA PartCounts ==
  ASSUME NEW q, Tally(q), NEW m, NEW S
  PROVE  Counted(Part(q, m, S)) \in Nat
<1>1. Tally(Part(q, m, S))
  BY PartTally
<1> HIDE DEF Part
<1>2. PICK v : Sums(v, Part(q, m, S))
  BY <1>1, CountedSteps
<1>3. Len(Part(q, m, S)) \in Nat
  BY <1>1 DEF Tally
<1> QED BY <1>2, <1>3 DEF Sums

-----------------------------------------------------------------------------
(* The charts.                                                             *)

Draws(chart, q, m, K) ==
  /\ \A i \in 1 .. Len(q) : m[i] \in K
  /\ DOMAIN chart = K /\ \A k \in K : chart[k] = Counted(Part(q, m, {k}))

\* A chart with a mark for every row, each as high as the rows of the mark
\* count together, draws what the rows count.
LEMMA DrawnIsCounted ==
  ASSUME NEW q, Tally(q), NEW m, NEW K, IsFiniteSet(K), NEW chart, Draws(chart, q, m, K)
  PROVE  Drawn(chart) = Counted(q)
<1> DEFINE P(s) == Counted(Part(q, m, s))
           Fold(it) == it = [s \in SUBSET DOMAIN chart |->
                               IF s = {} THEN 0
                               ELSE LET x == CHOOSE x \in s : TRUE
                                    IN  chart[x] + it[s \ {x}]]
<1>0. /\ \A i \in 1 .. Len(q) : m[i] \in K
      /\ DOMAIN chart = K /\ \A k \in K : chart[k] = Counted(Part(q, m, {k}))
  BY DEF Draws
<1>1. Drawn(chart) = (CHOOSE it : Fold(it))[K]
  BY <1>0 DEF Drawn, FoldFunction, FoldFunctionOnSet, MapThenFoldSet
<1>2. P({}) = 0
  BY PartNone
<1>3. \A s \in SUBSET K : \A x \in s : P(s) = chart[x] + P(s \ {x})
  <2> TAKE s \in SUBSET K
  <2> TAKE x \in s
  <2>1. P(s) = Counted(Part(q, m, {x})) + P(s \ {x})
    BY PartSplits
  <2>2. chart[x] = Counted(Part(q, m, {x}))
    BY <1>0
  <2> HIDE DEF P
  <2> QED BY <2>1, <2>2
<1>4. P(K) = Counted(q)
  BY <1>0, PartAll
<1> HIDE DEF P
<1>5. \E it : Fold(it)
  <2> DEFINE it == [s \in SUBSET K |-> P(s)]
  <2>1. ASSUME NEW s \in SUBSET K, s # {}
        PROVE  LET x == CHOOSE x \in s : TRUE IN it[s] = chart[x] + it[s \ {x}]
    <3> DEFINE x == CHOOSE x \in s : TRUE
    <3>1. x \in s
      BY <2>1
    <3> HIDE DEF x
    <3>2. it[s] = chart[x] + it[s \ {x}]
      BY <1>3, <3>1
    <3> QED BY <3>2 DEF x
  <2>2. it[{}] = 0
    BY <1>2
  <2>3. it = [s \in SUBSET K |-> it[s]]
    OBVIOUS
  <2> HIDE DEF it
  <2>4. Fold(it)
    BY <1>0, <2>1, <2>2, <2>3
  <2> QED BY <2>4
<1>6. PICK it : Fold(it) /\ Drawn(chart) = it[K]
  <2> HIDE DEF Fold
  <2> QED BY <1>1, <1>5
<1> DEFINE Bad == { s \in SUBSET K : it[s] # P(s) }
<1>7. ASSUME Bad # {} PROVE FALSE
  <2> DEFINE T == { Cardinality(s) : s \in Bad }
  <2>1. \A s \in SUBSET K : IsFiniteSet(s) /\ Cardinality(s) \in Nat
    BY FS_Subset, FS_CardinalityType
  <2>2. T \in SUBSET Nat /\ T # {}
    BY <1>7, <2>1
  <2>3. PICK c \in T : \A d \in T : c <= d
    <3> HIDE DEF T
    <3> QED BY <2>2, Least
  <2>4. PICK s \in Bad : c = Cardinality(s)
    OBVIOUS
  <2>5. s \in SUBSET K /\ it[s] # P(s)
    OBVIOUS
  <2>6. s # {}
    BY <1>0, <1>2, <1>6, <2>5
  <2> DEFINE x == CHOOSE x \in s : TRUE
  <2>7. x \in s /\ it[s] = chart[x] + it[s \ {x}]
    BY <1>0, <1>6, <2>5, <2>6
  <2> HIDE DEF x
  <2>8. Cardinality(s \ {x}) = Cardinality(s) - 1
    BY <2>1, <2>5, <2>7, FS_RemoveElement
  <2>9. s \ {x} \in SUBSET K /\ s \ {x} \notin Bad
    <3>1. s \ {x} \in SUBSET K
      BY <2>5
    <3>2. ~(Cardinality(s) <= Cardinality(s \ {x}))
      BY <2>1, <2>5, <2>8
    <3>3. s \ {x} \in Bad => Cardinality(s \ {x}) \in T
      OBVIOUS
    <3> HIDE DEF Bad, T
    <3> QED BY <2>3, <2>4, <3>1, <3>2, <3>3
  <2> QED BY <1>3, <2>5, <2>7, <2>9
<1>8. it[K] = P(K)
  BY <1>7
<1> QED BY <1>4, <1>6, <1>8

\* What a bar of a pivot has gathered behind each row.
Gathers(v, rows, k) ==
  /\ v \in [0 .. Len(rows) -> Seq(Range(rows))]
  /\ v[0] = <<>> /\ InBar(rows, k) = v[Len(rows)]
  /\ \A i \in 1 .. Len(rows) :
       v[i] = IF <<formatDate(rows[i].day), rows[i].kind>> = k
                THEN Append(v[i - 1], rows[i]) ELSE v[i - 1]

LEMMA BarSteps ==
  ASSUME NEW rows, Tally(rows), NEW k
  PROVE  \E v : Gathers(v, rows, k)
<1> DEFINE n == Len(rows)
           St == Seq(Range(rows))
           Op(x, r) == IF <<formatDate(r.day), r.kind>> = k THEN Append(x, r) ELSE x
           F == [p \in St \X (1 .. n) |-> Op(p[1], rows[p[2]])]
           Fold(it) == it = [s \in SUBSET DOMAIN rows |->
                               IF s = {} THEN <<>> ELSE Op(it[s \ {Max(s)}], rows[Max(s)])]
<1>1. n \in Nat /\ DOMAIN rows = 1 .. n /\ \A i \in 1 .. n : rows[i] \in Range(rows)
  BY DEF Tally
<1>2. InBar(rows, k) = (CHOOSE it : Fold(it))[1 .. n]
  BY <1>1 DEF InBar, FoldLeft, MapThenFoldSet
<1>3. F \in [St \X (1 .. n) -> St]
  BY <1>1
<1>4. \A x \in St, i \in 1 .. n : F[<<x, i>>] = Op(x, rows[i])
  OBVIOUS
<1>7. n \in Nat /\ <<>> \in St
  BY <1>1
<1> HIDE DEF Op, St
<1>5. \A it : Folds(it, n, St, <<>>, F) => Fold(it)
  BY <1>1, <1>4, Greatest DEF Folds
<1>6. \A it : Fold(it) => Follows(it, n, St, <<>>, F)
  BY <1>1, <1>4, Greatest DEF Follows
<1> HIDE DEF F, n
<1>8. \E v : Passes(v, n, St, <<>>, F, InBar(rows, k))
  <2> HIDE DEF Fold
  <2>1. PICK it : Fold(it) /\ InBar(rows, k) = it[1 .. n]
    BY <1>2, <1>3, <1>5, <1>7, FoldExists
  <2>2. Follows(it, n, St, <<>>, F)
    BY <1>6, <2>1
  <2>3. \E v : Passes(v, n, St, <<>>, F, it[1 .. n])
    BY ONLY <1>3, <1>7, <2>2, FoldSteps
  <2> QED BY <2>1, <2>3
<1>9. PICK v : Passes(v, n, St, <<>>, F, InBar(rows, k))
  BY <1>8
<1>10. \A i \in 1 .. n : v[i] = Op(v[i - 1], rows[i])
  BY <1>4, <1>9 DEF Passes
<1> QED BY <1>9, <1>10 DEF Passes, Gathers, n, St, Op

Marks(rows) == [i \in 1 .. Len(rows) |-> <<formatDate(rows[i].day), rows[i].kind>>]

LEMMA MarksAreKeys ==
  ASSUME NEW rows, Tally(rows)
  PROVE  /\ IsFiniteSet(Keys(rows)) /\ \A i \in 1 .. Len(rows) : Marks(rows)[i] \in Keys(rows)
         /\ \A k \in Keys(rows) : \E i \in 1 .. Len(rows) : Marks(rows)[i] = k
<1>1. IsFiniteSet(1 .. Len(rows))
  <2>1. 1 \in Int /\ Len(rows) \in Int
    BY DEF Tally
  <2> HIDE DEF Tally
  <2> QED BY ONLY <2>1, FS_Interval
<1>2. Keys(rows) = { Marks(rows)[i] : i \in 1 .. Len(rows) }
  BY DEF Keys, Marks
<1>3. IsFiniteSet(Keys(rows))
  <2>1. Marks(rows) \in Surjection(1 .. Len(rows), Keys(rows))
    BY <1>2 DEF Marks, Surjection
  <2> QED BY <1>1, <2>1, FS_Surjection
<1> QED BY <1>2, <1>3

\* The rows gathered in a bar of the summary are those of its mark.
LEMMA BarCounts ==
  ASSUME NEW rows, Tally(rows), NEW k
  PROVE  Counted(InBar(rows, k)) = Counted(Part(rows, Marks(rows), {k}))
<1> DEFINE n == Len(rows)
           p == Part(rows, Marks(rows), {k})
<1>1. PICK v : Gathers(v, rows, k)
  BY BarSteps
<1>2. Tally(p) /\ Len(p) = n
  BY PartTally
<1> HIDE DEF p
<1>3. PICK w : Sums(w, p)
  BY <1>2, CountedSteps
<1> DEFINE Fits(i) == Tally(v[i]) /\ Counted(v[i]) = w[i]
           S == { i \in 0 .. n : Fits(i) }
<1>4. n \in Nat
  BY DEF Tally
<1>5. 0 \in S
  <2>1. v[0] = <<>> /\ w[0] = 0
    BY <1>1, <1>3 DEF Gathers, Sums
  <2>2. Tally(<<>>)
    BY DEF Tally, Range
  <2>3. PICK u : Sums(u, <<>>)
    BY <2>2, CountedSteps
  <2>4. Counted(<<>>) = 0
    BY <2>3 DEF Sums
  <2> QED BY <1>4, <2>1, <2>2, <2>4
<1>6. ASSUME NEW i \in 1 .. n, i - 1 \in S PROVE i \in S
  <2>0. i \in 0 .. n /\ Fits(i - 1)
    BY <1>4, <1>6
  <2>1. /\ p[i].n = (IF Marks(rows)[i] \in {k} THEN rows[i].n ELSE 0)
        /\ Marks(rows)[i] = <<formatDate(rows[i].day), rows[i].kind>>
        /\ rows[i].n \in Nat
    <3>1. p[i].n = (IF Marks(rows)[i] \in {k} THEN rows[i].n ELSE 0)
      BY PartTally DEF p
    <3>2. Marks(rows)[i] = <<formatDate(rows[i].day), rows[i].kind>>
      BY DEF Marks
    <3>3. rows[i].n \in Nat
      BY DEF Tally
    <3> QED BY <3>1, <3>2, <3>3
  <2>2. w[i] = w[i - 1] + p[i].n /\ w[i - 1] \in Nat
    BY <1>2, <1>3 DEF Sums
  <2>3. CASE Marks(rows)[i] = k
    <3> DEFINE q == v[i - 1]
    <3>1. v[i] = Append(q, rows[i])
      BY <1>1, <2>1, <2>3 DEF Gathers
    <3>2. Tally(q) /\ Counted(q) = w[i - 1]
      BY <2>0
    <3> HIDE DEF q
    <3>3. Tally(Append(q, rows[i]))
      <4> DEFINE a == Append(q, rows[i])
      <4>1. /\ Len(q) \in Nat /\ Len(a) = Len(q) + 1 /\ a[Len(q) + 1] = rows[i]
            /\ \A j \in 1 .. Len(q) : a[j] = q[j] /\ q[j].n \in Nat
            /\ DOMAIN a = 1 .. Len(q) + 1
        BY <3>2 DEF Tally
      <4>2. \A j \in 1 .. Len(a) : a[j].n \in Nat
        BY <2>1, <4>1
      <4>3. a \in [1 .. Len(q) + 1 -> Range(a)]
        <5>1. a = [j \in 1 .. Len(q) + 1 |-> a[j]]
          BY <3>2 DEF Tally
        <5> HIDE DEF a
        <5> QED BY <4>1, <5>1 DEF Range
      <4> HIDE DEF a
      <4>4. a \in Seq(Range(a))
        BY <4>1, <4>3
      <4> QED BY <4>2, <4>4 DEF Tally, a
    <3>4. Counted(Append(q, rows[i])) = Counted(q) + rows[i].n
      BY <3>2, <3>3, CountedAppend
    <3> QED BY <2>0, <2>1, <2>2, <2>3, <3>1, <3>2, <3>3, <3>4
  <2>4. CASE Marks(rows)[i] # k
    <3>1. v[i] = v[i - 1]
      BY <1>1, <2>1, <2>4 DEF Gathers
    <3>2. w[i] = w[i - 1]
      <4>1. p[i].n = 0
        BY <2>1, <2>4
      <4>2. w[i] = w[i - 1] + 0 /\ w[i - 1] \in Nat
        BY <2>2, <4>1
      <4> QED BY ONLY <4>2
    <3> QED BY <2>0, <3>1, <3>2
  <2> QED BY <2>3, <2>4
<1>7. n \in S
  <2> HIDE DEF S, n
  <2> QED BY <1>4, <1>5, <1>6, UpTo
<1>8. v[n] = InBar(rows, k) /\ w[n] = Counted(p)
  BY <1>1, <1>2, <1>3 DEF Gathers, Sums
<1> QED BY <1>7, <1>8 DEF p

LEMMA SummaryAddsUp ==
  ASSUME NEW rows, Tally(rows)
  PROVE  Drawn(JobSummaryChart(rows)) = Counted(rows)
<1> DEFINE chart == JobSummaryChart(rows)
<1>1. DOMAIN chart = Keys(rows)
  BY DEF JobSummaryChart
<1>2. \A k \in Keys(rows) : chart[k] = Counted(Part(rows, Marks(rows), {k}))
  BY BarCounts DEF JobSummaryChart
<1> HIDE DEF chart
<1>3. Drawn(chart) = Counted(rows)
  <2> DEFINE K == Keys(rows)
             m == Marks(rows)
  <2>1. IsFiniteSet(K) /\ \A i \in 1 .. Len(rows) : m[i] \in K
    BY MarksAreKeys
  <2>2. DOMAIN chart = K /\ \A k \in K : chart[k] = Counted(Part(rows, m, {k}))
    BY <1>1, <1>2
  <2>3. Draws(chart, rows, m, K)
    BY <2>1, <2>2 DEF Draws
  <2> HIDE DEF K, m
  <2> QED BY <2>1, <2>3, DrawnIsCounted
<1> QED BY <1>3 DEF chart

\* A sequence of counts.
LEMMA CountsTally ==
  ASSUME NEW n \in Nat, NEW f, \A i \in 1 .. n : f[i] \in Nat
  PROVE  LET q == [i \in 1 .. n |-> [n |-> f[i]]] IN
         Tally(q) /\ Len(q) = n /\ \A i \in 1 .. n : q[i].n = f[i]
<1> DEFINE q == [i \in 1 .. n |-> [n |-> f[i]]]
<1>1. q \in [1 .. n -> Range(q)]
  <2>1. q = [i \in 1 .. n |-> q[i]] /\ DOMAIN q = 1 .. n
    OBVIOUS
  <2> HIDE DEF q
  <2> QED BY <2>1 DEF Range
<1>2. \A i \in 1 .. n : q[i].n = f[i]
  OBVIOUS
<1> HIDE DEF q
<1>3. q \in Seq(Range(q)) /\ Len(q) = n
  BY <1>1
<1>4. Tally(q)
  BY <1>2, <1>3 DEF Tally
<1> QED BY <1>2, <1>3, <1>4 DEF q

\* The last row of a mark, and what is counted if only those count.
Latest(rows) ==
  [i \in 1 .. Len(rows) |->
     [n |-> IF \E j \in i + 1 .. Len(rows) : Marks(rows)[j] = Marks(rows)[i]
              THEN 0 ELSE rows[i].n]]

LEMMA LatestCount ==
  ASSUME NEW rows, Tally(rows)
  PROVE  /\ Tally(Latest(rows)) /\ Len(Latest(rows)) = Len(rows)
         /\ Counted(Latest(rows)) <= Counted(rows)
<1> DEFINE n == Len(rows)
           f == [i \in 1 .. n |-> IF \E j \in i + 1 .. n : Marks(rows)[j] = Marks(rows)[i]
                                    THEN 0 ELSE rows[i].n]
           g == [i \in 1 .. n |-> rows[i].n - f[i]]
           a == [i \in 1 .. n |-> [n |-> f[i]]]
           b == [i \in 1 .. n |-> [n |-> g[i]]]
<1>1. n \in Nat /\ \A i \in 1 .. n : rows[i].n \in Nat /\ f[i] \in {0, rows[i].n}
  BY DEF Tally
<1>2. a = Latest(rows)
  BY DEF Latest
<1>3. \A i \in 1 .. n : g[i] = rows[i].n - f[i]
  OBVIOUS
<1> HIDE DEF f, g
<1>4. \A i \in 1 .. n : f[i] \in Nat /\ g[i] \in Nat /\ rows[i].n = f[i] + g[i]
  BY <1>1, <1>3
<1> HIDE DEF n
<1>5. Tally(a) /\ Len(a) = n /\ \A i \in 1 .. n : a[i].n = f[i]
  BY <1>1, <1>4, CountsTally
<1>6. Tally(b) /\ Len(b) = n /\ \A i \in 1 .. n : b[i].n = g[i]
  BY <1>1, <1>4, CountsTally
<1> HIDE DEF a, b
<1>7. Counted(rows) = Counted(a) + Counted(b) /\ Counted(a) \in Nat /\ Counted(b) \in Nat
  BY <1>4, <1>5, <1>6, CountedSum DEF n
<1> QED BY <1>2, <1>5, <1>7 DEF n

LEMMA BarEndsWithLatest ==
  ASSUME NEW rows, Tally(rows), NEW l \in 1 .. Len(rows), NEW k, Marks(rows)[l] = k,
         \A j \in l + 1 .. Len(rows) : Marks(rows)[j] # k
  PROVE  Last(InBar(rows, k)) = rows[l]
<1> DEFINE n == Len(rows)
<1>1. PICK v : Gathers(v, rows, k)
  BY BarSteps
<1>2. \A i \in 1 .. n : v[i - 1] \in Seq(Range(rows)) /\ rows[i] \in Range(rows)
  BY <1>1 DEF Gathers, Tally
<1>3. \A i \in 1 .. n :
        v[i] = IF Marks(rows)[i] = k THEN Append(v[i - 1], rows[i]) ELSE v[i - 1]
  BY <1>1 DEF Gathers, Marks
<1>4. n \in Nat /\ l \in 1 .. n /\ InBar(rows, k) = v[n]
  BY <1>1 DEF Tally, Gathers
<1> HIDE DEF n
<1> DEFINE S == { i \in 0 .. n : i >= l => Last(v[i]) = rows[l] }
<1>5. 0 \in S
  BY <1>4
<1>6. ASSUME NEW i \in 1 .. n, i - 1 \in S PROVE i \in S
  <2>1. CASE i < l
    BY <1>4, <2>1
  <2>2. CASE i = l
    <3>1. v[i] = Append(v[i - 1], rows[i]) /\ v[i - 1] \in Seq(Range(rows))
      BY <1>2, <1>3, <2>2
    <3>2. Last(v[i]) = rows[i]
      BY <3>1, <1>2 DEF Last
    <3> QED BY <1>4, <2>2, <3>2
  <2>3. CASE i > l
    <3>1. Marks(rows)[i] # k
      BY <1>4, <2>3 DEF n
    <3>2. v[i] = v[i - 1]
      BY <1>3, <3>1
    <3> QED BY <1>4, <1>6, <2>3, <3>2
  <2> QED BY <1>4, <2>1, <2>2, <2>3
<1>7. n \in S
  <2> HIDE DEF S
  <2> QED BY <1>4, <1>5, <1>6, UpTo
<1> QED BY <1>4, <1>7

LEMMA DetectionsFit ==
  ASSUME NEW rows, Tally(rows)
  PROVE  Drawn(DetectionsChart(rows)) <= Counted(rows)
<1> DEFINE n == Len(rows)
           q == Latest(rows)
           m == Marks(rows)
           K == Keys(rows)
           chart == DetectionsChart(rows)
<1>1. Tally(q) /\ Len(q) = n /\ Counted(q) <= Counted(rows) /\ n \in Nat
  BY LatestCount DEF Tally
<1>2. /\ IsFiniteSet(K) /\ \A i \in 1 .. n : m[i] \in K
      /\ \A k \in K : \E i \in 1 .. n : m[i] = k
  BY MarksAreKeys
<1>3. DOMAIN chart = K
  BY DEF DetectionsChart
<1>4. ASSUME NEW k \in K PROVE chart[k] = Counted(Part(q, m, {k}))
  <2> DEFINE s == { i \in 1 .. n : m[i] = k }
             l == Max(s)
             p == Part(q, m, {k})
  <2>1. s \in SUBSET (1 .. n) /\ s # {}
    BY <1>2
  <2>2. l \in s /\ \A j \in s : l >= j
    <3> HIDE DEF s
    <3> QED BY <1>1, <2>1, Greatest
  <2> HIDE DEF l
  <2>3. l \in 1 .. n /\ m[l] = k /\ \A j \in l + 1 .. n : m[j] # k
    <3>1. l \in 1 .. n /\ m[l] = k
      BY <2>2
    <3>2. ASSUME NEW j \in l + 1 .. n PROVE m[j] # k
      <4>1. j \in 1 .. n /\ ~(l >= j)
        BY <3>1, <1>1
      <4> QED BY <2>2, <4>1
    <3> QED BY <3>1, <3>2
  <2>4. chart[k] = rows[l].n
    BY <2>3, BarEndsWithLatest DEF DetectionsChart
  <2>5. Tally(p) /\ Len(p) = n
    BY <1>1, PartTally
  <2>6. q[l].n = rows[l].n /\ p[l].n = q[l].n
    <3>1. q[l].n = rows[l].n
      BY <2>3 DEF Latest
    <3>2. p[l].n = IF m[l] \in {k} THEN q[l].n ELSE 0
      BY <1>1, <2>3, PartTally
    <3> HIDE DEF q, p, m
    <3> QED BY <2>3, <3>1, <3>2
  <2>7. ASSUME NEW i \in 1 .. n, i # l PROVE p[i].n = 0
    <3>1. p[i].n = IF m[i] \in {k} THEN q[i].n ELSE 0
      BY <1>1, PartTally
    <3>2. CASE m[i] # k
      <4> HIDE DEF p, m, q
      <4> QED BY <3>1, <3>2
    <3>3. CASE m[i] = k
      <4>1. l \in i + 1 .. n /\ m[l] = m[i]
        BY <1>1, <2>2, <2>3, <2>7, <3>3
      <4>2. q[i].n = 0
        BY <4>1 DEF Latest
      <4> HIDE DEF p, m, q
      <4> QED BY <3>1, <3>3, <4>2
    <3> QED BY <3>2, <3>3
  <2> HIDE DEF p
  <2>8. Counted(p) = p[l].n
    BY <2>3, <2>5, <2>7, CountedOne
  <2> QED BY <2>4, <2>6, <2>8 DEF p
<1> HIDE DEF q, m, K, chart
<1>d. Draws(chart, q, m, K)
  BY <1>1, <1>2, <1>3, <1>4 DEF Draws
<1>5. Drawn(chart) = Counted(q)
  BY <1>1, <1>2, <1>d, DrawnIsCounted
<1> QED BY <1>1, <1>5 DEF chart

\* A chart with a mark of its own for every row.
LEMMA OneMarkEach ==
  ASSUME NEW rows, Tally(rows), NEW f \in [1 .. Len(rows) -> 1 .. Len(rows)],
         \A i \in 1 .. Len(rows) : f[f[i]] = i,
         NEW chart, DOMAIN chart = 1 .. Len(rows),
         \A i \in 1 .. Len(rows) : chart[i] = rows[f[i]].n
  PROVE  Drawn(chart) = Counted(rows)
<1> DEFINE n == Len(rows)
<1>1. n \in Nat /\ IsFiniteSet(1 .. n)
  BY FS_Interval DEF Tally
<1>2. ASSUME NEW k \in 1 .. n PROVE chart[k] = Counted(Part(rows, f, {k}))
  <2> DEFINE p == Part(rows, f, {k})
  <2>1. Tally(p) /\ Len(p) = n /\ \A i \in 1 .. n : p[i].n = IF f[i] \in {k} THEN rows[i].n ELSE 0
    BY PartTally
  <2>2. f[k] \in 1 .. n /\ \A i \in 1 .. n : f[i] = k <=> i = f[k]
    OBVIOUS
  <2>z. \A i \in 1 .. n : i # f[k] => p[i].n = 0
    <3> HIDE DEF p
    <3> QED BY <2>1, <2>2
  <2> DEFINE l == f[k]
  <2> HIDE DEF p, n, l
  <2>3. Counted(p) = p[l].n
    BY <2>1, <2>2, <2>z, CountedOne DEF l
  <2>4. p[f[k]].n = rows[f[k]].n
    BY <2>1, <2>2
  <2> QED BY <2>3, <2>4 DEF p, n, l
<1>3. \A i \in 1 .. n : f[i] \in 1 .. n
  OBVIOUS
<1>4. Draws(chart, rows, f, 1 .. n)
  BY <1>2, <1>3 DEF Draws
<1> QED BY <1>1, <1>4, DrawnIsCounted

LEMMA LabelsAddUp ==
  ASSUME NEW rows, Tally(rows)
  PROVE  Drawn(LabelDistributionChart(rows)) = Counted(rows)
<1> DEFINE f == [i \in 1 .. Len(rows) |-> i]
           chart == LabelDistributionChart(rows)
<1>1. f \in [1 .. Len(rows) -> 1 .. Len(rows)] /\ \A i \in 1 .. Len(rows) : f[f[i]] = i
  OBVIOUS
<1>2. DOMAIN chart = 1 .. Len(rows) /\ \A i \in 1 .. Len(rows) : chart[i] = rows[f[i]].n
  BY DEF LabelDistributionChart
<1> HIDE DEF f, chart
<1>3. Drawn(chart) = Counted(rows)
  BY <1>1, <1>2, OneMarkEach
<1> QED BY <1>3 DEF chart

LEMMA ThroughputAddsUp ==
  ASSUME NEW rows, Tally(rows)
  PROVE  Drawn(ThroughputChart(rows)) = Counted(rows)
<1> DEFINE n == Len(rows)
           f == [i \in 1 .. n |-> n + 1 - i]
           chart == ThroughputChart(rows)
<1>0. n \in Nat
  BY DEF Tally
<1>1. f \in [1 .. n -> 1 .. n] /\ \A i \in 1 .. n : f[f[i]] = i
  <2> HIDE DEF n
  <2> QED BY <1>0
<1>2. DOMAIN chart = 1 .. n /\ \A i \in 1 .. n : chart[i] = rows[f[i]].n
  BY DEF ThroughputChart
<1> HIDE DEF f, chart
<1>3. Drawn(chart) = Counted(rows)
  BY <1>1, <1>2, OneMarkEach
<1> QED BY <1>3 DEF chart

LEMMA ChartsOfRows ==
  ASSUME NEW rows, Tally(rows), NEW tab \in {"summary", "detections", "labels", "throughput"}
  PROVE  LET drawn == Drawn(ChartPanel(tab, rows)) IN
         IF tab = "detections" THEN drawn <= Counted(rows) ELSE drawn = Counted(rows)
BY SummaryAddsUp, DetectionsFit, LabelsAddUp, ThroughputAddsUp DEF ChartPanel

-----------------------------------------------------------------------------
(* What the spreadsheet parser reads.                                      *)

Char == STRING \cup {Quote, Comma, Break, Header}
Cells == Seq(Char)
States == [fields : Seq(Cells), current : Cells, inQuotes : BOOLEAN, skip : BOOLEAN]
State(f, c, q, s) == [fields |-> f, current |-> c, inQuotes |-> q, skip |-> s]

\* The parser behind each character.
Parses(v, line) ==
  /\ v \in [0 .. Len(line) -> States]
  /\ v[0] = State(<<>>, <<>>, FALSE, FALSE)
  /\ parseCsvLine(line) = Append(v[Len(line)].fields, v[Len(line)].current)
  /\ \A i \in 1 .. Len(line) : v[i] = ParseStep(line, v[i - 1], i)

LEMMA ParseStepType ==
  ASSUME NEW line \in Cells, NEW i \in 1 .. Len(line), NEW st \in States
  PROVE  ParseStep(line, st, i) \in States
<1> DEFINE ch == line[i]
<1>1. ch \in Char /\ Quote \in Char
  <2>1. line \in Seq(Char)
    BY DEF Cells
  <2>2. ch \in Char
    BY <2>1
  <2> QED BY <2>2 DEF Char
<1> HIDE DEF ch
<1>2. Append(st.current, ch) \in Cells /\ Append(st.current, Quote) \in Cells
      /\ Append(st.fields, st.current) \in Seq(Cells) /\ <<>> \in Cells
  BY <1>1 DEF States, Cells
<1>3. /\ [st EXCEPT !.skip = FALSE] \in States
      /\ [st EXCEPT !.current = Append(@, Quote), !.skip = TRUE] \in States
      /\ [st EXCEPT !.inQuotes = FALSE] \in States
      /\ [st EXCEPT !.inQuotes = TRUE] \in States
      /\ [st EXCEPT !.fields = Append(@, st.current), !.current = <<>>] \in States
      /\ [st EXCEPT !.current = Append(@, ch)] \in States
  BY <1>2 DEF States
<1>4. CASE st.skip
  BY <1>3, <1>4 DEF ParseStep
<1>5. CASE ~st.skip /\ st.inQuotes /\ ch = Quote
  BY <1>3, <1>5 DEF ParseStep, ch
<1>6. CASE ~st.skip /\ ~st.inQuotes /\ ch = Quote
  BY <1>3, <1>6 DEF ParseStep, ch
<1>7. CASE ~st.skip /\ ~st.inQuotes /\ ch = Comma
  BY <1>3, <1>7 DEF ParseStep, ch, Quote, Comma
<1>8. CASE /\ ~st.skip /\ ~(st.inQuotes /\ ch = Quote) /\ ~(~st.inQuotes /\ ch = Quote)
           /\ ~(~st.inQuotes /\ ch = Comma)
  BY <1>3, <1>8 DEF ParseStep, ch
<1> QED BY <1>4, <1>5, <1>6, <1>7, <1>8

LEMMA ParseSteps ==
  ASSUME NEW line \in Cells
  PROVE  \E v : Parses(v, line)
<1> DEFINE n == Len(line)
           base == State(<<>>, <<>>, FALSE, FALSE)
           q == [i \in 1 .. n |-> i]
           F == [p \in States \X (1 .. n) |-> ParseStep(line, p[1], p[2])]
           Fold(it) == it = [s \in SUBSET DOMAIN q |->
                               IF s = {} THEN base ELSE ParseStep(line, it[s \ {Max(s)}], q[Max(s)])]
           result == (CHOOSE it : Fold(it))[1 .. n]
<1>1. n \in Nat /\ DOMAIN q = 1 .. n /\ \A i \in 1 .. n : q[i] = i
  BY DEF Cells
<1>2. parseCsvLine(line) = Append(result.fields, result.current)
  BY <1>1 DEF parseCsvLine, FoldLeft, MapThenFoldSet, State
<1>3. F \in [States \X (1 .. n) -> States]
  BY <1>1, ParseStepType
<1>4. \A x \in States, i \in 1 .. n : F[<<x, i>>] = ParseStep(line, x, i)
  OBVIOUS
<1>7. n \in Nat /\ base \in States
  BY <1>1 DEF State, States, Cells
<1> HIDE DEF base, q, F, n
<1>a. \A s \in SUBSET (1 .. n) : s # {} => Max(s) \in 1 .. n /\ q[Max(s)] = Max(s)
  <2> TAKE s \in SUBSET (1 .. n)
  <2>1. s # {} => Max(s) \in s
    BY ONLY <1>1, s \in SUBSET (1 .. n), Greatest
  <2> QED BY <1>1, <2>1
<1>5. ASSUME NEW it, Folds(it, n, States, base, F) PROVE Fold(it)
  <2>1. ASSUME NEW s \in SUBSET (1 .. n)
        PROVE  it[s] = IF s = {} THEN base ELSE ParseStep(line, it[s \ {Max(s)}], q[Max(s)])
    BY <1>4, <1>5, <1>a DEF Folds
  <2>2. it = [s \in SUBSET (1 .. n) |-> it[s]]
    BY <1>5 DEF Folds
  <2> QED BY <1>1, <2>1, <2>2
<1>6. ASSUME NEW it, Fold(it) PROVE Follows(it, n, States, base, F)
  <2>1. ASSUME NEW s \in SUBSET (1 .. n)
        PROVE  it[s] = IF s = {} THEN base ELSE ParseStep(line, it[s \ {Max(s)}], q[Max(s)])
    BY <1>1, <1>6
  <2> HIDE DEF Fold
  <2> QED BY <1>4, <1>a, <2>1 DEF Follows
<1>8. \E v : Passes(v, n, States, base, F, result)
  <2> HIDE DEF Fold
  <2>1. PICK it : Fold(it) /\ result = it[1 .. n]
    BY <1>3, <1>5, <1>7, FoldExists
  <2> HIDE DEF result
  <2>2. Follows(it, n, States, base, F)
    BY <1>6, <2>1
  <2>3. \E v : Passes(v, n, States, base, F, it[1 .. n])
    BY ONLY <1>3, <1>7, <2>2, FoldSteps
  <2> QED BY <2>1, <2>3
<1> HIDE DEF result
<1>9. PICK v : Passes(v, n, States, base, F, result)
  BY <1>8
<1>10. \A i \in 1 .. n : v[i] = ParseStep(line, v[i - 1], i)
  BY <1>4, <1>9 DEF Passes
<1> QED BY <1>2, <1>9, <1>10 DEF Passes, Parses, n, base

\* The parser has read f, is in a cell of which it has read c, and in quotes or not.
Is(st, f, c, q) ==
  /\ st \in States /\ st.fields = f /\ st.current = c /\ (st.inQuotes <=> q)
  /\ ~st.skip

\* What the parser makes of one character.
LEMMA StepPlain ==
  ASSUME NEW line \in Cells, NEW i \in 1 .. Len(line), NEW f, NEW c, NEW q \in BOOLEAN,
         NEW st, Is(st, f, c, q), line[i] # Quote, line[i] # Comma \/ q
  PROVE  Is(ParseStep(line, st, i), f, Append(c, line[i]), q)
<1> DEFINE e == [st EXCEPT !.current = Append(@, line[i])]
<1>1. ParseStep(line, st, i) = e
  BY DEF ParseStep, Is, Quote, Comma
<1>2. e.fields = f /\ e.current = Append(c, line[i]) /\ e.inQuotes = st.inQuotes /\ e.skip = st.skip
  BY DEF Is, States
<1>3. e \in States
  BY <1>1, ParseStepType DEF Is
<1> HIDE DEF e
<1> QED BY <1>1, <1>2, <1>3 DEF Is

LEMMA StepOpen ==
  ASSUME NEW line \in Cells, NEW i \in 1 .. Len(line), NEW f, NEW c,
         NEW st, Is(st, f, c, FALSE), line[i] = Quote
  PROVE  Is(ParseStep(line, st, i), f, c, TRUE)
<1> DEFINE e == [st EXCEPT !.inQuotes = TRUE]
<1>1. ParseStep(line, st, i) = e
  BY DEF ParseStep, Is, Quote, Comma
<1>2. e.fields = f /\ e.current = c /\ e.inQuotes /\ e.skip = st.skip
  BY DEF Is, States
<1>3. e \in States
  BY <1>1, ParseStepType DEF Is
<1> HIDE DEF e
<1> QED BY <1>1, <1>2, <1>3 DEF Is

LEMMA StepClose ==
  ASSUME NEW line \in Cells, NEW i \in 1 .. Len(line), NEW f, NEW c,
         NEW st, Is(st, f, c, TRUE), line[i] = Quote, i < Len(line) => line[i + 1] # Quote
  PROVE  Is(ParseStep(line, st, i), f, c, FALSE)
<1> DEFINE e == [st EXCEPT !.inQuotes = FALSE]
<1>1. ParseStep(line, st, i) = e
  BY DEF ParseStep, Is, Quote, Comma
<1>2. e.fields = f /\ e.current = c /\ ~e.inQuotes /\ e.skip = st.skip
  BY DEF Is, States
<1>3. e \in States
  BY <1>1, ParseStepType DEF Is
<1> HIDE DEF e
<1> QED BY <1>1, <1>2, <1>3 DEF Is

LEMMA StepComma ==
  ASSUME NEW line \in Cells, NEW i \in 1 .. Len(line), NEW f, NEW c,
         NEW st, Is(st, f, c, FALSE), line[i] = Comma
  PROVE  Is(ParseStep(line, st, i), Append(f, c), <<>>, FALSE)
<1> DEFINE e == [st EXCEPT !.fields = Append(@, st.current), !.current = <<>>]
<1>1. ParseStep(line, st, i) = e
  BY DEF ParseStep, Is, Quote, Comma
<1>2. /\ e.fields = Append(f, c) /\ e.current = <<>> /\ e.inQuotes = st.inQuotes
      /\ e.skip = st.skip
  BY DEF Is, States
<1>3. e \in States
  BY <1>1, ParseStepType DEF Is
<1> HIDE DEF e
<1> QED BY <1>1, <1>2, <1>3 DEF Is

\* Two quotes in quotes are one.
LEMMA StepDouble ==
  ASSUME NEW line \in Cells, NEW i \in 1 .. Len(line), i + 1 \in 1 .. Len(line), NEW f, NEW c,
         NEW st, Is(st, f, c, TRUE), line[i] = Quote, line[i + 1] = Quote
  PROVE  Is(ParseStep(line, ParseStep(line, st, i), i + 1), f, Append(c, Quote), TRUE)
<1> DEFINE e == [st EXCEPT !.current = Append(@, Quote), !.skip = TRUE]
           d == [e EXCEPT !.skip = FALSE]
<1>0. i < Len(line)
  BY DEF Cells
<1>1. ParseStep(line, st, i) = e
  BY <1>0 DEF ParseStep, Is, Quote, Comma
<1>2. e.fields = f /\ e.current = Append(c, Quote) /\ e.inQuotes = st.inQuotes /\ e.skip
  BY DEF Is, States
<1>3. e \in States
  BY <1>1, ParseStepType DEF Is
<1> HIDE DEF e
<1>4. ParseStep(line, e, i + 1) = d
  BY <1>2 DEF ParseStep
<1>5. d.fields = f /\ d.current = Append(c, Quote) /\ d.inQuotes = st.inQuotes /\ ~d.skip
  BY <1>2, <1>3 DEF States
<1>6. d \in States
  BY <1>3, <1>4, ParseStepType
<1> HIDE DEF d
<1> QED BY <1>1, <1>4, <1>5, <1>6 DEF Is

\* Pieces that are put together: p[i] is x[1] to x[i].
Joins(p, n, x) ==
  /\ p \in [0 .. n -> Cells] /\ p[0] = <<>>
  /\ \A i \in 1 .. n : x[i] \in Cells /\ p[i - 1] \in Cells /\ p[i] = p[i - 1] \o x[i]

\* w is a part of line, from the place behind k.
At(line, w, k) ==
  /\ k + Len(w) <= Len(line)
  /\ \A j \in 1 .. Len(w) : line[k + j] = w[j]

LEMMA AtJoin ==
  ASSUME NEW line \in Cells, NEW k \in Nat, NEW a \in Cells, NEW b \in Cells
  PROVE  At(line, a \o b, k) <=> At(line, a, k) /\ At(line, b, k + Len(a))
<1> DEFINE c == a \o b
<1>1. /\ Len(a) \in Nat /\ Len(b) \in Nat /\ Len(line) \in Nat /\ Len(c) = Len(a) + Len(b)
      /\ \A j \in 1 .. Len(a) : c[j] = a[j]
      /\ \A j \in 1 .. Len(b) : c[Len(a) + j] = b[j]
  <2>1. a \in Seq(Char) /\ b \in Seq(Char) /\ line \in Seq(Char)
    BY DEF Cells
  <2> QED BY <2>1, ConcatProperties
<1> HIDE DEF c
<1>2. ASSUME At(line, c, k) PROVE At(line, a, k) /\ At(line, b, k + Len(a))
  <2>1. k + Len(c) <= Len(line) /\ \A j \in 1 .. Len(c) : line[k + j] = c[j]
    BY <1>2 DEF At
  <2>2. At(line, a, k)
    BY <1>1, <2>1 DEF At
  <2>3. ASSUME NEW j \in 1 .. Len(b) PROVE line[k + Len(a) + j] = b[j]
    <3>1. Len(a) + j \in 1 .. Len(c) /\ k + (Len(a) + j) = k + Len(a) + j
      BY <1>1
    <3> QED BY <1>1, <2>1, <3>1
  <2>4. k + Len(a) + Len(b) <= Len(line)
    BY <1>1, <2>1
  <2> QED BY <2>2, <2>3, <2>4 DEF At
<1>3. ASSUME At(line, a, k), At(line, b, k + Len(a)) PROVE At(line, c, k)
  <2>1. /\ k + Len(a) + Len(b) <= Len(line)
        /\ \A j \in 1 .. Len(a) : line[k + j] = a[j]
        /\ \A j \in 1 .. Len(b) : line[k + Len(a) + j] = b[j]
    BY <1>3 DEF At
  <2>2. ASSUME NEW j \in 1 .. Len(c) PROVE line[k + j] = c[j]
    <3>1. CASE j <= Len(a)
      BY <1>1, <2>1, <3>1
    <3>2. CASE j > Len(a)
      <4> DEFINE h == j - Len(a)
      <4>1. h \in 1 .. Len(b) /\ j = Len(a) + h /\ k + j = k + Len(a) + h
        BY <1>1, <3>2
      <4> HIDE DEF h
      <4> QED BY <1>1, <2>1, <4>1
    <3> QED BY <1>1, <3>1, <3>2
  <2>3. k + Len(c) <= Len(line)
    BY <1>1, <2>1
  <2> QED BY <2>2, <2>3 DEF At
<1> QED BY <1>2, <1>3 DEF c

\* A whole that is put together has each of its pieces in its place.
LEMMA PiecesAt ==
  ASSUME NEW n \in Nat, NEW p, NEW x, Joins(p, n, x), NEW line \in Cells, NEW k \in Nat,
         At(line, p[n], k)
  PROVE  \A i \in 0 .. n : At(line, p[i], k)
<1> DEFINE S == { h \in 0 .. n : At(line, p[n - h], k) }
<1>1. 0 \in S
  OBVIOUS
<1>2. ASSUME NEW h \in 1 .. n, h - 1 \in S PROVE h \in S
  <2> DEFINE i == n - (h - 1)
  <2>1. i \in 1 .. n /\ i - 1 = n - h /\ h \in 0 .. n /\ At(line, p[i], k)
    BY <1>2
  <2> HIDE DEF i
  <2>2. p[i] = p[i - 1] \o x[i] /\ p[i - 1] \in Cells /\ x[i] \in Cells
    BY <2>1 DEF Joins
  <2>3. At(line, p[i - 1], k)
    BY <2>1, <2>2, AtJoin
  <2> QED BY <2>1, <2>3
<1>3. \A h \in 0 .. n : h \in S
  <2> HIDE DEF S
  <2> QED BY <1>1, <1>2, Upward
<1>4. ASSUME NEW i \in 0 .. n PROVE At(line, p[i], k)
  <2>1. n - i \in 0 .. n /\ n - (n - i) = i
    OBVIOUS
  <2>2. n - i \in S
    BY <1>3, <2>1
  <2> QED BY <2>1, <2>2
<1> QED BY <1>4

LEMMA PieceAt ==
  ASSUME NEW n \in Nat, NEW p, NEW x, Joins(p, n, x), NEW line \in Cells, NEW k \in Nat,
         At(line, p[n], k), NEW i \in 1 .. n
  PROVE  /\ At(line, x[i], k + Len(p[i - 1])) /\ Len(p[i]) = Len(p[i - 1]) + Len(x[i])
         /\ Len(p[i - 1]) \in Nat
<1>1. At(line, p[i], k) /\ i \in 0 .. n
  BY PiecesAt
<1>2. p[i] = p[i - 1] \o x[i] /\ p[i - 1] \in Cells /\ x[i] \in Cells
  BY DEF Joins
<1>3. At(line, x[i], k + Len(p[i - 1]))
  BY <1>1, <1>2, AtJoin
<1>4. Len(p[i]) = Len(p[i - 1]) + Len(x[i]) /\ Len(p[i - 1]) \in Nat
  BY <1>2, ConcatProperties DEF Cells
<1> QED BY <1>3, <1>4

-----------------------------------------------------------------------------
\* How a character is written in quotes.
WrittenAs(ch) == IF ch = Quote THEN <<Quote, Quote>> ELSE <<ch>>

LEMMA DoubledJoins ==
  ASSUME NEW cell \in Cells
  PROVE  \E p : /\ Joins(p, Len(cell), [i \in 1 .. Len(cell) |-> WrittenAs(cell[i])])
                /\ Doubled(cell) = p[Len(cell)]
<1> DEFINE n == Len(cell)
           x == [i \in 1 .. n |-> WrittenAs(cell[i])]
           Op(done, ch) == done \o WrittenAs(ch)
           F == [p \in Cells \X (1 .. n) |-> p[1] \o x[p[2]]]
           Fold(it) == it = [s \in SUBSET DOMAIN cell |->
                               IF s = {} THEN <<>> ELSE it[s \ {Max(s)}] \o WrittenAs(cell[Max(s)])]
<1>1. n \in Nat /\ DOMAIN cell = 1 .. n /\ \A i \in 1 .. n : cell[i] \in Char
  BY DEF Cells
<1>2. Doubled(cell) = (CHOOSE it : Fold(it))[1 .. n]
  BY <1>1 DEF Doubled, FoldLeft, MapThenFoldSet, WrittenAs
<1>x. ASSUME NEW i \in 1 .. n PROVE x[i] \in Cells /\ x[i] = WrittenAs(cell[i])
  <2>1. Quote \in Char /\ cell[i] \in Char
    BY <1>1 DEF Char
  <2> QED BY <2>1 DEF WrittenAs, Cells
<1>3. F \in [Cells \X (1 .. n) -> Cells]
  <2>1. \A a, b \in Cells : a \o b \in Cells
    BY DEF Cells
  <2> HIDE DEF x
  <2> QED BY <1>x, <2>1
<1>4. \A a \in Cells, i \in 1 .. n : F[<<a, i>>] = a \o WrittenAs(cell[i])
  BY <1>x
<1>7. n \in Nat /\ <<>> \in Cells
  BY <1>1 DEF Cells
<1> HIDE DEF F, n, x
<1>5. \A it : Folds(it, n, Cells, <<>>, F) => Fold(it)
  BY <1>1, <1>4, Greatest DEF Folds
<1>6. \A it : Fold(it) => Follows(it, n, Cells, <<>>, F)
  BY <1>1, <1>4, Greatest DEF Follows
<1>8. \E v : Passes(v, n, Cells, <<>>, F, Doubled(cell))
  <2> HIDE DEF Fold
  <2>1. PICK it : Fold(it) /\ Doubled(cell) = it[1 .. n]
    BY <1>2, <1>3, <1>5, <1>7, FoldExists
  <2>2. Follows(it, n, Cells, <<>>, F)
    BY <1>6, <2>1
  <2>3. \E v : Passes(v, n, Cells, <<>>, F, it[1 .. n])
    BY ONLY <1>3, <1>7, <2>2, FoldSteps
  <2> QED BY <2>1, <2>3
<1>9. PICK v : Passes(v, n, Cells, <<>>, F, Doubled(cell))
  BY <1>8
<1>10. \A i \in 1 .. n : v[i - 1] \in Cells /\ v[i] = v[i - 1] \o x[i]
  BY <1>4, <1>9, <1>x DEF Passes
<1>11. Joins(v, n, x) /\ Doubled(cell) = v[n]
  BY <1>9, <1>10, <1>x DEF Passes, Joins
<1> QED BY <1>11 DEF n, x

\* The first i elements are the first i - 1 and the i-th.
LEMMA OneMore ==
  ASSUME NEW S, NEW c \in Seq(S), NEW i \in 1 .. Len(c)
  PROVE  Append(SubSeq(c, 1, i - 1), c[i]) = SubSeq(c, 1, i)
<1> DEFINE a == SubSeq(c, 1, i - 1)
           b == SubSeq(c, 1, i)
<1>1. a \in Seq(S) /\ Len(a) = i - 1 /\ \A j \in 1 .. i - 1 : a[j] = c[j]
  BY SubSeqProperties
<1>2. b \in Seq(S) /\ Len(b) = i /\ \A j \in 1 .. i : b[j] = c[j]
  BY SubSeqProperties
<1>3. c[i] \in S
  OBVIOUS
<1> HIDE DEF a, b
<1>4. /\ Append(a, c[i]) \in Seq(S) /\ Len(Append(a, c[i])) = i
      /\ \A j \in 1 .. i : Append(a, c[i])[j] = c[j]
  BY <1>1, <1>3
<1>5. Append(a, c[i]) = b
  <2> DEFINE d == Append(a, c[i])
  <2>1. d \in Seq(S) /\ Len(d) = Len(b) /\ \A j \in 1 .. Len(d) : d[j] = b[j]
    BY <1>2, <1>4
  <2> HIDE DEF d
  <2>2. d = b
    BY <1>2, <2>1, SeqEqual
  <2> QED BY <2>2 DEF d
<1> QED BY <1>5 DEF a, b

LEMMA WrittenType ==
  ASSUME NEW cell \in Cells
  PROVE  Doubled(cell) \in Cells /\ WrittenCell(cell) \in Cells
<1>1. PICK p : /\ Joins(p, Len(cell), [i \in 1 .. Len(cell) |-> WrittenAs(cell[i])])
               /\ Doubled(cell) = p[Len(cell)]
  BY DoubledJoins
<1>2. Doubled(cell) \in Cells
  <2>1. Len(cell) \in 0 .. Len(cell)
    BY DEF Cells
  <2> QED BY <1>1, <2>1 DEF Joins
<1>3. <<Quote>> \in Cells
  BY DEF Cells, Char
<1>4. \A a, b \in Cells : a \o b \in Cells
  BY DEF Cells
<1>5. <<Quote>> \o Doubled(cell) \o <<Quote>> \in Cells
  BY <1>2, <1>3, <1>4
<1> QED BY <1>2, <1>5 DEF WrittenCell

\* Places in a line: piece i is behind place l[i - 1] and ends at l[i].
Places(l, n, x, line) ==
  /\ l \in [0 .. n -> Nat]
  /\ \A i \in 1 .. n : At(line, x[i], l[i - 1]) /\ l[i] = l[i - 1] + Len(x[i])

LEMMA PlacesOfPieces ==
  ASSUME NEW n \in Nat, NEW p, NEW x, Joins(p, n, x), NEW line \in Cells, NEW k \in Nat,
         At(line, p[n], k)
  PROVE  \E l : Places(l, n, x, line) /\ l[0] = k /\ l[n] = k + Len(p[n])
<1> DEFINE l == [i \in 0 .. n |-> k + Len(p[i])]
<1>1. \A i \in 0 .. n : Len(p[i]) \in Nat /\ l[i] = k + Len(p[i])
  BY DEF Joins, Cells
<1>2. l \in [0 .. n -> Nat] /\ l[0] = k /\ l[n] = k + Len(p[n])
  BY <1>1 DEF Joins
<1> HIDE DEF l
<1>3. ASSUME NEW i \in 1 .. n
      PROVE  At(line, x[i], l[i - 1]) /\ l[i] = l[i - 1] + Len(x[i])
  <2>1. /\ At(line, x[i], k + Len(p[i - 1])) /\ Len(p[i]) = Len(p[i - 1]) + Len(x[i])
        /\ Len(p[i - 1]) \in Nat
    BY PieceAt
  <2>2. x[i] \in Cells
    BY DEF Joins
  <2>3. Len(x[i]) \in Nat
    BY ONLY <2>2 DEF Cells
  <2>4. l[i - 1] = k + Len(p[i - 1]) /\ l[i] = k + Len(p[i])
    BY <1>1
  <2>5. At(line, x[i], l[i - 1])
    BY <2>1, <2>4
  <2>6. l[i] = l[i - 1] + Len(x[i])
    <3> DEFINE a == Len(p[i - 1])
               b == Len(x[i])
    <3>1. a \in Nat /\ b \in Nat /\ l[i - 1] = k + a /\ l[i] = k + (a + b)
      BY <2>1, <2>3, <2>4
    <3> HIDE DEF a, b
    <3>2. l[i] = l[i - 1] + b
      BY <3>1
    <3> QED BY <3>2 DEF b
  <2> QED BY <2>5, <2>6
<1> QED BY <1>2, <1>3 DEF Places

\* In quotes, to the end of what is written there.
LEMMA InQuotes ==
  ASSUME NEW line \in Cells, NEW v, Parses(v, line), NEW c \in Cells, NEW k \in Nat, NEW f,
         At(line, Doubled(c), k), Is(v[k], f, <<>>, TRUE)
  PROVE  Is(v[k + Len(Doubled(c))], f, c, TRUE)
<1> DEFINE n == Len(c)
           x == [i \in 1 .. n |-> WrittenAs(c[i])]
<1>1. PICK p : Joins(p, n, x) /\ Doubled(c) = p[n]
  BY DoubledJoins
<1>2. n \in Nat /\ n \in 0 .. n /\ Len(line) \in Nat /\ \A i \in 1 .. n : x[i] = WrittenAs(c[i])
  BY DEF Cells
<1>3. \A i \in 1 .. n : Append(SubSeq(c, 1, i - 1), c[i]) = SubSeq(c, 1, i)
  BY OneMore DEF Cells
<1>4. SubSeq(c, 1, 0) = <<>> /\ SubSeq(c, 1, n) = c
  BY DEF Cells
<1> HIDE DEF n, x
<1>5. PICK l : Places(l, n, x, line) /\ l[0] = k /\ l[n] = k + Len(Doubled(c))
  BY <1>1, <1>2, PlacesOfPieces
<1> DEFINE S == { i \in 0 .. n : Is(v[l[i]], f, SubSeq(c, 1, i), TRUE) }
<1>7. 0 \in S
  <2> DEFINE b == SubSeq(c, 1, 0)
  <2>1. b = <<>> /\ l[0] = k /\ 0 \in 0 .. n
    BY <1>2, <1>4, <1>5
  <2> HIDE DEF b
  <2>2. Is(v[l[0]], f, b, TRUE)
    BY <2>1
  <2> QED BY <2>1, <2>2 DEF b
<1>8. ASSUME NEW i \in 1 .. n, i - 1 \in S PROVE i \in S
  <2> DEFINE m == l[i - 1]
             b == SubSeq(c, 1, i - 1)
  <2>1. m \in Nat /\ At(line, x[i], m) /\ l[i] = m + Len(x[i]) /\ x[i] = WrittenAs(c[i])
    BY <1>2, <1>5 DEF Places
  <2>3. Is(v[m], f, b, TRUE)
    BY <1>8
  <2>4. Append(b, c[i]) = SubSeq(c, 1, i)
    BY <1>3
  <2>7. i \in 0 .. n
    BY <1>2
  <2> HIDE DEF m, b
  <2>5. CASE c[i] = Quote
    <3>1. x[i] = <<Quote, Quote>>
      BY <2>1, <2>5 DEF WrittenAs
    <3>2. Len(x[i]) = 2 /\ l[i] = m + 2 /\ x[i][1] = Quote /\ x[i][2] = Quote
      BY ONLY <2>1, <3>1
    <3>3. /\ m + 1 \in 1 .. Len(line) /\ (m + 1) + 1 \in 1 .. Len(line) /\ m + 2 \in 1 .. Len(line)
          /\ line[m + 1] = Quote /\ line[m + 2] = Quote /\ (m + 1) + 1 = m + 2
          /\ (m + 1) - 1 = m /\ (m + 2) - 1 = m + 1
      BY ONLY <1>2, <2>1, <3>2 DEF At
    <3>4. v[m + 1] = ParseStep(line, v[m], m + 1) /\ v[m + 2] = ParseStep(line, v[m + 1], m + 2)
      BY <3>3 DEF Parses
    <3>5. Is(v[m + 2], f, Append(b, Quote), TRUE)
      <4>1. line[(m + 1) + 1] = Quote
        BY <3>3
      <4>2. Is(ParseStep(line, ParseStep(line, v[m], m + 1), (m + 1) + 1), f, Append(b, Quote), TRUE)
        BY <2>3, <3>3, <4>1, StepDouble
      <4> QED BY <3>3, <3>4, <4>2
    <3>6. Is(v[l[i]], f, SubSeq(c, 1, i), TRUE)
      BY <2>4, <2>5, <3>2, <3>5
    <3> QED BY <2>7, <3>6
  <2>6. CASE c[i] # Quote
    <3>1. x[i] = <<c[i]>>
      BY <2>1, <2>6 DEF WrittenAs
    <3>2. Len(x[i]) = 1 /\ l[i] = m + 1 /\ x[i][1] = c[i]
      BY ONLY <2>1, <3>1
    <3>3. m + 1 \in 1 .. Len(line) /\ line[m + 1] = c[i] /\ (m + 1) - 1 = m
      BY ONLY <1>2, <2>1, <3>2 DEF At
    <3>4. v[m + 1] = ParseStep(line, v[m], m + 1)
      BY <3>3 DEF Parses
    <3>5. Is(v[m + 1], f, Append(b, c[i]), TRUE)
      BY <2>3, <2>6, <3>3, <3>4, StepPlain
    <3>6. Is(v[l[i]], f, SubSeq(c, 1, i), TRUE)
      BY <2>4, <3>2, <3>5
    <3> QED BY <2>7, <3>6
  <2> QED BY <2>5, <2>6
<1>9. n \in S
  <2>1. \A i \in 0 .. n : i \in S
    <3> HIDE DEF S
    <3> QED BY <1>2, <1>7, <1>8, Upward
  <2> QED BY <1>2, <2>1
<1> QED BY <1>4, <1>5, <1>9

\* A cell that is not in quotes, to its end.
LEMMA NotInQuotes ==
  ASSUME NEW line \in Cells, NEW v, Parses(v, line), NEW c \in Cells, NEW k \in Nat, NEW f,
         \A i \in 1 .. Len(c) : c[i] # Quote /\ c[i] # Comma,
         At(line, c, k), Is(v[k], f, <<>>, FALSE)
  PROVE  Is(v[k + Len(c)], f, c, FALSE)
<1> DEFINE n == Len(c)
           S == { i \in 0 .. n : Is(v[k + i], f, SubSeq(c, 1, i), FALSE) }
<1>2. n \in Nat /\ n \in 0 .. n /\ Len(line) \in Nat
  BY DEF Cells
<1>3. \A i \in 1 .. n : Append(SubSeq(c, 1, i - 1), c[i]) = SubSeq(c, 1, i)
  BY OneMore DEF Cells
<1>4. SubSeq(c, 1, 0) = <<>> /\ SubSeq(c, 1, n) = c
  BY DEF Cells
<1>5. \A i \in 1 .. n : k + i \in 1 .. Len(line) /\ line[k + i] = c[i] /\ (k + i) - 1 = k + (i - 1)
  BY <1>2 DEF At
<1>6. \A i \in 1 .. n : c[i] # Quote /\ c[i] # Comma
  OBVIOUS
<1> HIDE DEF n
<1>7. 0 \in S
  <2> DEFINE b == SubSeq(c, 1, 0)
  <2>1. b = <<>> /\ k + 0 = k /\ 0 \in 0 .. n
    BY <1>2, <1>4
  <2> HIDE DEF b
  <2>2. Is(v[k + 0], f, b, FALSE)
    BY <2>1
  <2> QED BY <2>1, <2>2 DEF b
<1>8. ASSUME NEW i \in 1 .. n, i - 1 \in S PROVE i \in S
  <2> DEFINE m == k + (i - 1)
             b == SubSeq(c, 1, i - 1)
  <2>1. k + i \in 1 .. Len(line) /\ line[k + i] = c[i] /\ (k + i) - 1 = m
    BY <1>5
  <2>2. Is(v[m], f, b, FALSE)
    BY <1>8
  <2>3. Append(b, c[i]) = SubSeq(c, 1, i)
    BY <1>3
  <2>4. i \in 0 .. n
    BY <1>2
  <2> HIDE DEF m, b
  <2>5. v[k + i] = ParseStep(line, v[m], k + i)
    BY <2>1 DEF Parses
  <2>6. Is(ParseStep(line, v[m], k + i), f, Append(b, line[k + i]), FALSE)
    BY <1>6, <2>1, <2>2, StepPlain
  <2>7. Is(v[k + i], f, SubSeq(c, 1, i), FALSE)
    BY <2>1, <2>3, <2>5, <2>6
  <2> QED BY <2>4, <2>7
<1>9. n \in S
  <2>1. \A i \in 0 .. n : i \in S
    <3> HIDE DEF S
    <3> QED BY <1>2, <1>7, <1>8, Upward
  <2> QED BY <1>2, <2>1
<1>10. Is(v[k + n], f, SubSeq(c, 1, n), FALSE)
  BY <1>9
<1> QED BY <1>4, <1>10 DEF n

\* No quote follows.
Ends(line, i) == i < Len(line) => line[i + 1] # Quote

\* A written cell is read to its end.
LEMMA ReadsCell ==
  ASSUME NEW line \in Cells, NEW v, Parses(v, line), NEW c \in Cells, NEW k \in Nat, NEW f,
         At(line, WrittenCell(c), k), Ends(line, k + Len(WrittenCell(c))),
         Is(v[k], f, <<>>, FALSE)
  PROVE  Is(v[k + Len(WrittenCell(c))], f, c, FALSE)
<1>1. CASE {Quote, Comma, Break} \cap Range(c) # {}
  <2> DEFINE d == Doubled(c)
             w == <<Quote>> \o d \o <<Quote>>
  <2>1. WrittenCell(c) = w
    BY <1>1 DEF WrittenCell
  <2>2. d \in Cells /\ <<Quote>> \in Cells /\ <<Quote>> \o d \in Cells
    <3>1. d \in Cells
      BY WrittenType
    <3> HIDE DEF d
    <3> QED BY <3>1 DEF Cells, Char
  <2> DEFINE n == Len(d)
  <2> HIDE DEF d
  <2>3. n \in Nat /\ Len(<<Quote>>) = 1 /\ Len(<<Quote>> \o d) = 1 + n /\ Len(w) = n + 2
    BY <2>2 DEF Cells
  <2>4. At(line, <<Quote>> \o d, k) /\ At(line, <<Quote>>, k + Len(<<Quote>> \o d))
    BY <2>1, <2>2, AtJoin
  <2>5. At(line, <<Quote>>, k) /\ At(line, d, k + Len(<<Quote>>))
    BY <2>2, <2>4, AtJoin
  <2> DEFINE e == k + 1 + n
  <2>6. /\ k + 1 \in Nat /\ e \in Nat /\ e = (k + 1) + n /\ k + Len(w) = e + 1
        /\ (k + 1) - 1 = k /\ (e + 1) - 1 = e /\ k + Len(<<Quote>> \o d) = e
    BY <2>3
  <2>7. At(line, <<Quote>>, k) /\ At(line, d, k + 1) /\ At(line, <<Quote>>, e)
    <3>1. At(line, d, k + 1)
      BY <2>3, <2>5
    <3>2. At(line, <<Quote>>, e)
      BY <2>4, <2>6
    <3> QED BY <2>5, <3>1, <3>2
  <2>8. Ends(line, e + 1)
    BY <2>1, <2>6
  <2> HIDE DEF e, n, w
  <2>9. Len(line) \in Nat
    BY DEF Cells
  <2>10. /\ k + 1 \in 1 .. Len(line) /\ line[k + 1] = Quote
         /\ e + 1 \in 1 .. Len(line) /\ line[e + 1] = Quote
    BY ONLY <2>6, <2>7, <2>9, k \in Nat DEF At
  <2>11. v[k + 1] = ParseStep(line, v[k], k + 1) /\ v[e + 1] = ParseStep(line, v[e], e + 1)
    BY <2>6, <2>10 DEF Parses
  <2>12. Is(v[k + 1], f, <<>>, TRUE)
    BY <2>10, <2>11, StepOpen
  <2>13. Is(v[(k + 1) + Len(d)], f, c, TRUE)
    BY <2>6, <2>7, <2>12, InQuotes DEF d
  <2>14. Is(v[e], f, c, TRUE)
    BY <2>6, <2>13 DEF n
  <2>15. e + 1 < Len(line) => line[(e + 1) + 1] # Quote
    BY <2>8 DEF Ends
  <2>16. Is(v[e + 1], f, c, FALSE)
    BY <2>10, <2>11, <2>14, <2>15, StepClose
  <2>17. Is(v[k + Len(w)], f, c, FALSE)
    BY <2>6, <2>16
  <2> QED BY <2>1, <2>17
<1>2. CASE {Quote, Comma, Break} \cap Range(c) = {}
  <2>1. WrittenCell(c) = c
    BY <1>2 DEF WrittenCell
  <2>2. ASSUME NEW i \in 1 .. Len(c) PROVE c[i] # Quote /\ c[i] # Comma
    <3>1. c[i] \in Range(c)
      BY DEF Range, Cells
    <3> QED BY <1>2, <3>1
  <2> QED BY <2>1, <2>2, NotInQuotes
<1> QED BY <1>1, <1>2

\* Words that are put one behind the other, each behind a mark.
LEMMA ChainJoins ==
  ASSUME NEW mark \in Char, NEW words \in Seq(Cells)
  PROVE  \E p : /\ Joins(p, Len(words), [i \in 1 .. Len(words) |-> <<mark>> \o words[i]])
                /\ Chained(mark, words) = p[Len(words)]
<1> DEFINE n == Len(words)
           x == [i \in 1 .. n |-> <<mark>> \o words[i]]
           F == [p \in Cells \X (1 .. n) |-> p[1] \o x[p[2]]]
           Fold(it) == it = [s \in SUBSET DOMAIN words |->
                               IF s = {} THEN <<>>
                               ELSE it[s \ {Max(s)}] \o <<mark>> \o words[Max(s)]]
           result == (CHOOSE it : Fold(it))[1 .. n]
<1>1. n \in Nat /\ DOMAIN words = 1 .. n /\ \A i \in 1 .. n : words[i] \in Cells
  OBVIOUS
<1>2. Chained(mark, words) = result
  BY <1>1 DEF Chained, FoldLeft, MapThenFoldSet
<1>w. <<mark>> \in Cells
  BY DEF Cells
<1>c. \A a, b \in Cells : a \o b \in Cells
  BY DEF Cells
<1>a. \A a, b, c \in Cells : (a \o b) \o c = a \o (b \o c)
  <2> TAKE a, b, c \in Cells
  <2>1. a \in Seq(Char) /\ b \in Seq(Char) /\ c \in Seq(Char)
    BY ONLY a \in Cells, b \in Cells, c \in Cells DEF Cells
  <2> QED BY ONLY <2>1, ConcatAssociative
<1>x. ASSUME NEW i \in 1 .. n PROVE x[i] \in Cells /\ x[i] = <<mark>> \o words[i]
  BY <1>1, <1>w, <1>c
<1>3. F \in [Cells \X (1 .. n) -> Cells]
  <2> HIDE DEF x
  <2> QED BY <1>x, <1>c
<1>4. ASSUME NEW a \in Cells, NEW i \in 1 .. n
      PROVE  F[<<a, i>>] = a \o <<mark>> \o words[i]
  <2>1. F[<<a, i>>] = a \o (<<mark>> \o words[i])
    BY <1>x
  <2>2. (a \o <<mark>>) \o words[i] = a \o (<<mark>> \o words[i])
    BY <1>1, <1>w, <1>a
  <2> QED BY <2>1, <2>2
<1>7. n \in Nat /\ <<>> \in Cells
  BY <1>1 DEF Cells
<1> HIDE DEF F, n, x
<1>5. \A it : Folds(it, n, Cells, <<>>, F) => Fold(it)
  <2> TAKE it
  <2> HAVE Folds(it, n, Cells, <<>>, F)
  <2>1. ASSUME NEW s \in SUBSET (1 .. n)
        PROVE  it[s] = IF s = {} THEN <<>>
                       ELSE it[s \ {Max(s)}] \o <<mark>> \o words[Max(s)]
    <3>1. s # {} => Max(s) \in 1 .. n /\ s \ {Max(s)} \in SUBSET (1 .. n)
      BY <1>1, Greatest
    <3>2. s # {} => it[s \ {Max(s)}] \in Cells /\ it[s] = F[<<it[s \ {Max(s)}], Max(s)>>]
      BY <3>1 DEF Folds
    <3>3. s = {} => it[s] = <<>>
      BY DEF Folds
    <3> QED BY <1>4, <3>1, <3>2, <3>3
  <2>2. it = [s \in SUBSET (1 .. n) |-> it[s]]
    BY DEF Folds
  <2> QED BY <1>1, <2>1, <2>2
<1>6. \A it : Fold(it) => Follows(it, n, Cells, <<>>, F)
  <2> TAKE it
  <2> HAVE Fold(it)
  <2>1. ASSUME NEW s \in SUBSET (1 .. n)
        PROVE  it[s] = IF s = {} THEN <<>>
                       ELSE it[s \ {Max(s)}] \o <<mark>> \o words[Max(s)]
    BY <1>1
  <2> HIDE DEF Fold
  <2>2. \A s \in SUBSET (1 .. n) : s # {} => Max(s) \in 1 .. n
    BY <1>1, Greatest
  <2>3. it[{}] = <<>>
    BY <2>1
  <2>4. ASSUME NEW s \in SUBSET (1 .. n), s # {}, it[s \ {Max(s)}] \in Cells
        PROVE  it[s] = F[<<it[s \ {Max(s)}], Max(s)>>]
    BY <1>4, <2>1, <2>2, <2>4
  <2> QED BY <2>3, <2>4 DEF Follows
<1>8. \E v : Passes(v, n, Cells, <<>>, F, result)
  <2> HIDE DEF Fold
  <2>1. PICK it : Fold(it) /\ result = it[1 .. n]
    BY <1>3, <1>5, <1>7, FoldExists
  <2> HIDE DEF result
  <2>2. Follows(it, n, Cells, <<>>, F)
    BY <1>6, <2>1
  <2>3. \E v : Passes(v, n, Cells, <<>>, F, it[1 .. n])
    BY ONLY <1>3, <1>7, <2>2, FoldSteps
  <2> QED BY <2>1, <2>3
<1> HIDE DEF result
<1>9. PICK v : Passes(v, n, Cells, <<>>, F, result)
  BY <1>8
<1>10. ASSUME NEW i \in 1 .. n
       PROVE  x[i] \in Cells /\ v[i - 1] \in Cells /\ v[i] = v[i - 1] \o x[i]
  <2>1. v[i - 1] \in Cells /\ v[i] = F[<<v[i - 1], i>>]
    BY <1>9 DEF Passes
  <2>2. F[<<v[i - 1], i>>] = v[i - 1] \o x[i]
    BY <2>1 DEF F
  <2> QED BY <1>x, <2>1, <2>2
<1>11. Joins(v, n, x) /\ Chained(mark, words) = v[n]
  BY <1>2, <1>9, <1>10 DEF Passes, Joins
<1> QED BY <1>11 DEF n, x

\* In a chain, word i is behind place l[i - 1] + 1, where its mark is, and ends at l[i].
Chain(l, words, mark, whole) ==
  /\ l \in [0 .. Len(words) -> Nat]
  /\ l[0] = 0 /\ l[Len(words)] = Len(whole)
  /\ \A i \in 1 .. Len(words) :
       /\ l[i - 1] \in Nat /\ Len(words[i]) \in Nat
       /\ l[i] = l[i - 1] + 1 + Len(words[i])
       /\ whole[l[i - 1] + 1] = mark
       /\ \A j \in 1 .. Len(words[i]) : whole[l[i - 1] + 1 + j] = words[i][j]

LEMMA ChainPlaces ==
  ASSUME NEW mark \in Char, NEW words \in Seq(Cells)
  PROVE  /\ Chained(mark, words) \in Cells
         /\ \E l : Chain(l, words, mark, Chained(mark, words))
<1> DEFINE n == Len(words)
           x == [i \in 1 .. n |-> <<mark>> \o words[i]]
           whole == Chained(mark, words)
<1>1. PICK p : Joins(p, n, x) /\ whole = p[n]
  BY ChainJoins
<1>2. n \in Nat /\ n \in 0 .. n
  OBVIOUS
<1>3. ASSUME NEW i \in 1 .. n
      PROVE  /\ x[i] \in Cells /\ Len(words[i]) \in Nat /\ Len(x[i]) = 1 + Len(words[i])
             /\ x[i][1] = mark
             /\ \A j \in 1 .. Len(words[i]) : x[i][1 + j] = words[i][j]
  <2> DEFINE w == words[i]
  <2>1. w \in Seq(Char)
    BY DEF Cells
  <2>2. x[i] = <<mark>> \o w
    OBVIOUS
  <2> HIDE DEF w, x
  <2>3. <<mark>> \in Seq(Char) /\ Len(<<mark>>) = 1 /\ <<mark>>[1] = mark
    OBVIOUS
  <2>4. /\ <<mark>> \o w \in Seq(Char)
        /\ Len(<<mark>> \o w) = 1 + Len(w) /\ Len(w) \in Nat
        /\ (<<mark>> \o w)[1] = mark
        /\ \A j \in 1 .. Len(w) : (<<mark>> \o w)[1 + j] = w[j]
    BY <2>1, <2>3, ConcatProperties
  <2> QED BY <2>2, <2>4 DEF w, Cells
<1>4. whole \in Cells
  BY <1>1, <1>2 DEF Joins
<1> HIDE DEF x, n, whole
<1>5. At(whole, p[n], 0)
  BY <1>1, <1>4 DEF At, Cells
<1>6. PICK l : Places(l, n, x, whole) /\ l[0] = 0 /\ l[n] = 0 + Len(p[n])
  BY <1>1, <1>2, <1>4, <1>5, PlacesOfPieces
<1>7. l[n] = Len(whole)
  <2>1. Len(whole) \in Nat
    BY <1>4 DEF Cells
  <2> QED BY <1>1, <1>6, <2>1
<1>8. ASSUME NEW i \in 1 .. n
      PROVE  /\ l[i - 1] \in Nat /\ Len(words[i]) \in Nat
             /\ l[i] = l[i - 1] + 1 + Len(words[i])
             /\ whole[l[i - 1] + 1] = mark
             /\ \A j \in 1 .. Len(words[i]) : whole[l[i - 1] + 1 + j] = words[i][j]
  <2> DEFINE k == l[i - 1]
             m == Len(words[i])
  <2>1. i - 1 \in 0 .. n
    BY <1>2
  <2>2. k \in Nat /\ l[i] = k + Len(x[i]) /\ At(whole, x[i], k)
    BY <1>6, <2>1 DEF Places
  <2>3. /\ m \in Nat /\ Len(x[i]) = 1 + m /\ x[i][1] = mark
        /\ \A j \in 1 .. m : x[i][1 + j] = words[i][j]
    BY <1>3
  <2> HIDE DEF k, m
  <2>4. \A j \in 1 .. 1 + m : whole[k + j] = x[i][j]
    BY <2>2, <2>3 DEF At
  <2>5. whole[k + 1] = mark
    BY <2>3, <2>4
  <2>6. ASSUME NEW j \in 1 .. m PROVE whole[k + 1 + j] = words[i][j]
    <3>1. 1 + j \in 1 .. 1 + m /\ k + (1 + j) = k + 1 + j
      BY <2>2, <2>3
    <3> QED BY <2>3, <2>4, <3>1
  <2>7. l[i] = k + 1 + m
    BY <2>2, <2>3
  <2> QED BY <2>2, <2>3, <2>5, <2>6, <2>7 DEF k, m
<1>9. l \in [0 .. n -> Nat]
  BY <1>6 DEF Places
<1>10. \A i \in 1 .. n : /\ l[i - 1] \in Nat /\ Len(words[i]) \in Nat
                         /\ l[i] = l[i - 1] + 1 + Len(words[i])
                         /\ whole[l[i - 1] + 1] = mark
                         /\ \A j \in 1 .. Len(words[i]) : whole[l[i - 1] + 1 + j] = words[i][j]
  BY <1>8
<1>11. Chain(l, words, mark, whole)
  BY ONLY <1>6, <1>7, <1>9, <1>10 DEF Chain, n
<1> QED BY <1>4, <1>11 DEF whole

\* The cells of a row in a line: cell i is written behind place l[i - 1], and a
\* comma stands at l[i], but for the last, which ends the line.
Lies(l, cells, line) ==
  /\ l \in [0 .. Len(cells) -> Nat]
  /\ l[0] = 0 /\ l[Len(cells)] = Len(line) + 1
  /\ \A i \in 1 .. Len(cells) :
       /\ At(line, WrittenCell(cells[i]), l[i - 1])
       /\ l[i] = l[i - 1] + 1 + Len(WrittenCell(cells[i]))
       /\ i < Len(cells) => line[l[i]] = Comma

LEMMA RowLies ==
  ASSUME NEW cells \in Seq(Cells), Len(cells) >= 1
  PROVE  /\ WrittenRow(cells) \in Cells
         /\ \E l : Lies(l, cells, WrittenRow(cells))
<1> DEFINE n == Len(cells)
           words == [c \in DOMAIN cells |-> WrittenCell(cells[c])]
           whole == Chained(Comma, words)
           line == WrittenRow(cells)
<1>1. n \in Nat /\ DOMAIN cells = 1 .. n /\ \A i \in 1 .. n : cells[i] \in Cells
  OBVIOUS
<1>2. words \in Seq(Cells) /\ Len(words) = n /\ \A i \in 1 .. n : words[i] = WrittenCell(cells[i])
  <2>1. \A i \in 1 .. n : WrittenCell(cells[i]) \in Cells
    BY <1>1, WrittenType
  <2>2. words \in [1 .. n -> Cells]
    BY <1>1, <2>1
  <2> QED BY <1>1, <2>2
<1>3. line = Tail(whole) /\ Comma \in Char
  BY DEF WrittenRow, Char
<1> HIDE DEF n, words, line
<1>4. whole \in Cells /\ \E l : Chain(l, words, Comma, whole)
  BY <1>2, <1>3, ChainPlaces
<1> HIDE DEF whole
<1>5. PICK l : Chain(l, words, Comma, whole)
  BY <1>4
<1> DEFINE len == [i \in 1 .. n |-> Len(words[i])]
<1>6. /\ l \in [0 .. n -> Nat] /\ l[0] = 0 /\ l[n] = Len(whole)
      /\ \A i \in 1 .. n : /\ l[i - 1] \in Nat /\ len[i] \in Nat
                           /\ l[i] = l[i - 1] + 1 + len[i]
                           /\ whole[l[i - 1] + 1] = Comma
                           /\ \A j \in 1 .. len[i] : whole[l[i - 1] + 1 + j] = words[i][j]
  BY <1>2, <1>5 DEF Chain
<1>l. \A i \in 1 .. n : len[i] = Len(words[i])
  OBVIOUS
<1> HIDE DEF len
<1>7. \A i \in 0 .. n : l[i] \in Nat /\ l[i] <= l[n]
  <2>1. ASSUME NEW i \in 1 .. n PROVE l[i - 1] <= l[i]
    <3>1. l[i - 1] \in Nat /\ len[i] \in Nat /\ l[i] = l[i - 1] + 1 + len[i]
      BY <1>6
    <3> QED BY ONLY <3>1
  <2>2. n \in Nat /\ n \in 0 .. n /\ l \in [0 .. n -> Nat]
    BY <1>1, <1>6
  <2> QED BY ONLY <2>1, <2>2, Climbs
<1>8. Len(whole) >= 1
  <2>1. n \in 1 .. n
    BY <1>1 DEF n
  <2>2. l[n - 1] \in Nat /\ len[n] \in Nat /\ l[n] = l[n - 1] + 1 + len[n]
    BY <1>6, <2>1
  <2>3. l[n] >= 1
    BY <2>2
  <2> QED BY <1>6, <2>3
<1>9. /\ line \in Cells /\ Len(whole) \in Nat /\ Len(line) = Len(whole) - 1
      /\ \A j \in 1 .. Len(whole) - 1 : line[j] = whole[j + 1]
  <2>1. whole \in Seq(Char) /\ whole # <<>>
    BY <1>4, <1>8 DEF Cells
  <2>2. /\ Tail(whole) \in Seq(Char) /\ Len(Tail(whole)) = Len(whole) - 1
        /\ \A j \in 1 .. Len(whole) - 1 : Tail(whole)[j] = whole[j + 1]
    BY <2>1, HeadTailProperties
  <2>3. Len(whole) \in Nat
    BY <2>1
  <2> QED BY <1>3, <2>2, <2>3 DEF Cells
<1>10. l[n] = Len(line) + 1
  BY <1>6, <1>9
<1>11. ASSUME NEW i \in 1 .. n
       PROVE  /\ At(line, words[i], l[i - 1]) /\ l[i] = l[i - 1] + 1 + Len(words[i])
              /\ i < n => line[l[i]] = Comma
  <2> DEFINE k == l[i - 1]
             m == len[i]
  <2>1. /\ k \in Nat /\ m \in Nat /\ l[i] = k + 1 + m /\ l[i] <= Len(whole) /\ m = Len(words[i])
        /\ \A j \in 1 .. m : whole[k + 1 + j] = words[i][j]
    BY <1>1, <1>6, <1>7, <1>l
  <2> HIDE DEF k, m
  <2>0. k \in Nat /\ m \in Nat /\ k + 1 + m <= Len(whole) /\ Len(whole) \in Nat
    BY <1>9, <2>1
  <2>2. k + m <= Len(line)
    <3>1. Len(line) = Len(whole) - 1
      BY <1>9
    <3> QED BY ONLY <2>0, <3>1
  <2>3. ASSUME NEW j \in 1 .. m PROVE line[k + j] = words[i][j]
    <3>1. k + j \in 1 .. Len(whole) - 1 /\ (k + j) + 1 = k + 1 + j
      BY ONLY <2>0, j \in 1 .. m
    <3> QED BY <1>9, <2>1, <3>1
  <2>4. At(line, words[i], k)
    BY <2>1, <2>2, <2>3 DEF At
  <2>5. ASSUME i < n PROVE line[l[i]] = Comma
    <3> DEFINE h == i + 1
    <3>1. h \in 1 .. n /\ h - 1 = i
      BY <1>1, <2>5
    <3> HIDE DEF h
    <3>2. /\ l[i] \in Nat /\ len[h] \in Nat /\ l[h] = l[i] + 1 + len[h] /\ l[h] <= Len(whole)
          /\ whole[l[i] + 1] = Comma
      <4>1. /\ l[h - 1] \in Nat /\ len[h] \in Nat /\ l[h] = l[h - 1] + 1 + len[h]
            /\ whole[l[h - 1] + 1] = Comma
        BY <1>6, <3>1
      <4>2. h \in 0 .. n
        BY <1>1, <3>1
      <4>3. l[h] <= Len(whole)
        BY <1>6, <1>7, <4>2
      <4> QED BY <3>1, <4>1, <4>3
    <3>3. l[i] \in 1 .. Len(whole) - 1
      <4>1. /\ k \in Nat /\ m \in Nat /\ l[i] = k + 1 + m /\ Len(whole) \in Nat
            /\ len[h] \in Nat /\ l[i] + 1 + len[h] <= Len(whole)
        BY <1>9, <2>1, <3>2
      <4> QED BY ONLY <4>1
    <3> QED BY <1>9, <3>2, <3>3
  <2> QED BY <2>1, <2>4, <2>5 DEF k
<1>12. Lies(l, cells, line)
  BY <1>2, <1>6, <1>10, <1>11 DEF Lies, n
<1> QED BY <1>9, <1>12 DEF line

\* A line in which the cells of a row lie is read as the row.
LEMMA ReadsRow ==
  ASSUME NEW cells \in Seq(Cells), Len(cells) >= 1, NEW line \in Cells, NEW l,
         Lies(l, cells, line)
  PROVE  parseCsvLine(line) = cells
<1> DEFINE n == Len(cells)
<1>2. n \in Nat /\ n \in 1 .. n /\ n \in 0 .. n
  OBVIOUS
<1>3. \A i \in 1 .. n : Append(SubSeq(cells, 1, i - 1), cells[i]) = SubSeq(cells, 1, i)
  BY OneMore
<1>4. SubSeq(cells, 1, 0) = <<>> /\ SubSeq(cells, 1, n) = cells
  OBVIOUS
<1>6. \A i \in 1 .. n : /\ cells[i] \in Cells /\ WrittenCell(cells[i]) \in Cells
                        /\ Len(WrittenCell(cells[i])) \in Nat
  <2> TAKE i \in 1 .. n
  <2>1. cells[i] \in Cells
    OBVIOUS
  <2>2. WrittenCell(cells[i]) \in Cells
    BY <2>1, WrittenType
  <2> QED BY <2>1, <2>2 DEF Cells
<1> DEFINE len == [i \in 1 .. n |-> Len(WrittenCell(cells[i]))]
<1>l. \A i \in 1 .. n : len[i] \in Nat /\ len[i] = Len(WrittenCell(cells[i]))
  BY <1>6
<1>8. /\ l \in [0 .. n -> Nat] /\ l[0] = 0 /\ l[n] = Len(line) + 1
      /\ \A i \in 1 .. n : /\ At(line, WrittenCell(cells[i]), l[i - 1])
                           /\ l[i] = l[i - 1] + 1 + len[i]
                           /\ i < n => line[l[i]] = Comma
  BY <1>l DEF Lies
<1> HIDE DEF n, len
<1>9. \A i \in 1 .. n : l[i - 1] \in Nat /\ l[i] = l[i - 1] + (1 + len[i]) /\ len[i] \in Nat
  <2> TAKE i \in 1 .. n
  <2>1. l[i - 1] \in Nat /\ len[i] \in Nat /\ l[i] = l[i - 1] + 1 + len[i]
    BY <1>2, <1>8, <1>l
  <2> QED BY <2>1
<1>11. Len(line) \in Nat
  BY DEF Cells
<1>13. PICK v : Parses(v, line)
  BY ParseSteps
<1>14. ASSUME NEW i \in 1 .. n, NEW f, Is(v[l[i - 1]], f, <<>>, FALSE)
       PROVE  /\ l[i] - 1 \in Nat /\ Is(v[l[i] - 1], f, cells[i], FALSE)
              /\ i < n => l[i] \in 1 .. Len(line) /\ line[l[i]] = Comma
              /\ i = n => l[i] - 1 = Len(line)
  <2> DEFINE k == l[i - 1]
  <2>1. /\ k \in Nat /\ len[i] \in Nat /\ k + len[i] = l[i] - 1 /\ l[i] - 1 \in Nat /\ l[i] >= 1 /\ l[i] \in Nat
    <3>1. k \in Nat /\ len[i] \in Nat /\ l[i] = k + (1 + len[i])
      BY <1>9
    <3> QED BY ONLY <3>1
  <2>2. ASSUME i < n PROVE l[i] \in 1 .. Len(line) /\ line[l[i]] = Comma
    <3> DEFINE j == i + 1
    <3>1. j \in 1 .. n /\ j - 1 = i
      BY <1>2, <2>2
    <3> HIDE DEF j
    <3>2. At(line, WrittenCell(cells[j]), l[i]) /\ line[l[i]] = Comma
      BY <1>8, <2>2, <3>1
    <3>3. len[j] \in Nat /\ l[i] \in Nat
      BY <1>9, <3>1
    <3>4. l[i] + len[j] <= Len(line)
      BY <1>l, <3>1, <3>2 DEF At
    <3> QED BY <1>11, <2>1, <3>2, <3>3, <3>4
  <2>3. ASSUME i = n PROVE l[i] - 1 = Len(line)
    BY <1>8, <1>11, <2>3
  <2>4. Ends(line, l[i] - 1)
    <3>1. CASE i < n
      <4>1. (l[i] - 1) + 1 = l[i]
        BY ONLY <2>1
      <4>2. line[(l[i] - 1) + 1] # Quote
        BY <2>2, <3>1, <4>1 DEF Comma, Quote
      <4> QED BY <4>2 DEF Ends
    <3>2. CASE i = n
      BY <1>11, <2>3, <3>2 DEF Ends
    <3> QED BY <1>2, <3>1, <3>2
  <2>5. At(line, WrittenCell(cells[i]), k) /\ cells[i] \in Cells
    BY <1>6, <1>8 DEF n
  <2> HIDE DEF k
  <2>6. Ends(line, k + Len(WrittenCell(cells[i])))
    BY <1>l, <2>1, <2>4
  <2>7. Is(v[k + Len(WrittenCell(cells[i]))], f, cells[i], FALSE)
    BY <1>13, <1>14, <2>1, <2>5, <2>6, ReadsCell DEF k
  <2>8. Is(v[l[i] - 1], f, cells[i], FALSE)
    BY <1>l, <2>1, <2>7
  <2> QED BY <2>1, <2>2, <2>3, <2>8
<1> DEFINE S == { i \in 0 .. n - 1 : Is(v[l[i]], SubSeq(cells, 1, i), <<>>, FALSE) }
<1>15. 0 \in S
  <2> DEFINE b == SubSeq(cells, 1, 0)
  <2>1. b = <<>> /\ l[0] = 0 /\ 0 \in 0 .. n - 1
    BY <1>2, <1>4, <1>8 DEF n
  <2> HIDE DEF b
  <2>2. Is(v[0], <<>>, <<>>, FALSE)
    <3>1. v[0] = State(<<>>, <<>>, FALSE, FALSE)
      BY <1>13 DEF Parses
    <3>2. v[0] \in States
      <4>1. 0 \in 0 .. Len(line) /\ v \in [0 .. Len(line) -> States]
        BY <1>11, <1>13 DEF Parses
      <4> QED BY ONLY <4>1
    <3> QED BY <3>1, <3>2 DEF Is, State
  <2>3. Is(v[l[0]], b, <<>>, FALSE)
    BY <2>1, <2>2
  <2> QED BY <2>1, <2>3 DEF b
<1>16. ASSUME NEW i \in 1 .. n - 1, i - 1 \in S PROVE i \in S
  <2> DEFINE b == SubSeq(cells, 1, i - 1)
  <2>1. i \in 1 .. n /\ i < n /\ i \in 0 .. n - 1
    BY <1>2
  <2>2. Is(v[l[i - 1]], b, <<>>, FALSE)
    BY <1>16
  <2>3. Append(b, cells[i]) = SubSeq(cells, 1, i)
    BY <1>3, <2>1
  <2> HIDE DEF b
  <2>4. /\ Is(v[l[i] - 1], b, cells[i], FALSE)
        /\ l[i] \in 1 .. Len(line) /\ line[l[i]] = Comma
    BY <1>14, <2>1, <2>2
  <2>5. v[l[i]] = ParseStep(line, v[l[i] - 1], l[i])
    BY <1>13, <2>4 DEF Parses
  <2>6. Is(v[l[i]], Append(b, cells[i]), <<>>, FALSE)
    BY <2>4, <2>5, StepComma
  <2>7. Is(v[l[i]], SubSeq(cells, 1, i), <<>>, FALSE)
    BY <2>3, <2>6
  <2> QED BY <2>1, <2>7
<1>17. n - 1 \in S
  <2>1. n - 1 \in Nat /\ n - 1 \in 0 .. n - 1
    BY <1>2
  <2>2. \A i \in 0 .. n - 1 : i \in S
    <3> HIDE DEF S
    <3> QED BY <1>15, <1>16, <2>1, Upward
  <2> QED BY <2>1, <2>2
<1> DEFINE b == SubSeq(cells, 1, n - 1)
<1>18. Is(v[l[n - 1]], b, <<>>, FALSE)
  BY <1>17
<1>19. Append(b, cells[n]) = cells
  BY <1>2, <1>3, <1>4
<1> HIDE DEF b
<1>20. Is(v[l[n] - 1], b, cells[n], FALSE) /\ l[n] - 1 = Len(line)
  BY <1>2, <1>14, <1>18
<1>21. parseCsvLine(line) = Append(v[Len(line)].fields, v[Len(line)].current)
  BY <1>13 DEF Parses
<1>22. v[Len(line)].fields = b /\ v[Len(line)].current = cells[n]
  BY <1>20 DEF Is
<1> QED BY <1>19, <1>21, <1>22

LEMMA LeastOf ==
  ASSUME NEW s \in SUBSET Nat, NEW x \in s, \A y \in s : x <= y
  PROVE  Min(s) = x
<1>1. \E y \in s : \A z \in s : y <= z
  OBVIOUS
<1>2. Min(s) \in s /\ \A z \in s : Min(s) <= z
  BY <1>1 DEF Min
<1>3. Min(s) <= x /\ x <= Min(s) /\ x \in Nat /\ Min(s) \in Nat
  BY <1>2
<1> QED BY ONLY <1>3

White == {Blank, Break}

\* Behind place q of w there is nothing but white space.
CutAt(w, q) ==
  /\ q \in 0 .. Len(w)
  /\ \A j \in 1 .. Len(w) : j > q => w[j] \in White

\* trim does not see what was cut off.
LEMMA TrimCut ==
  ASSUME NEW w \in Cells, NEW q, CutAt(w, q)
  PROVE  trim(SubSeq(w, 1, q)) = trim(w)
<1> DEFINE u == SubSeq(w, 1, q)
<1>1. w \in Seq(Char) /\ Len(w) \in Nat /\ q \in 0 .. Len(w)
  BY DEF Cells, CutAt
<1>2. u \in Seq(Char) /\ Len(u) = q /\ \A j \in 1 .. q : u[j] = w[j]
  BY <1>1, SubSeqProperties
<1> HIDE DEF u
<1>3. Solid(u) = Solid(w) /\ Solid(w) \in SUBSET (1 .. q)
  <2>1. \A j \in 1 .. Len(w) : j > q => w[j] \in White
    BY DEF CutAt
  <2>2. Solid(w) \subseteq 1 .. q
    BY <1>1, <2>1 DEF Solid, White
  <2>3. Solid(u) = { j \in 1 .. q : w[j] \notin White }
    BY <1>2 DEF Solid, White
  <2>4. Solid(w) = { j \in 1 .. q : w[j] \notin White }
    BY <1>1, <2>2 DEF Solid, White
  <2> QED BY <2>2, <2>3, <2>4
<1>4. CASE Solid(w) = {}
  BY <1>3, <1>4 DEF trim, u
<1>5. CASE Solid(w) # {}
  <2> DEFINE s == Solid(w)
             lo == Min(s)
             hi == Max(s)
  <2>1. s \in SUBSET (1 .. q) /\ s # {}
    BY <1>3, <1>5
  <2> HIDE DEF s
  <2>n. q \in Nat /\ s \subseteq Nat
    BY <1>1, <2>1
  <2>2. PICK x \in s : \A y \in s : x <= y
    BY ONLY <2>1, <2>n, Least
  <2>3. lo \in 1 .. q
    <3>1. Min(s) = x
      BY ONLY <2>n, <2>2, LeastOf
    <3> QED BY <2>1, <3>1
  <2>4. hi \in 1 .. q
    <3>1. Max(s) \in s
      BY ONLY <2>1, <2>n, Greatest
    <3> QED BY <2>1, <3>1
  <2> HIDE DEF lo, hi
  <2>5. SubSeq(u, lo, hi) = SubSeq(w, lo, hi)
    <3> DEFINE a == SubSeq(u, lo, hi)
               b == SubSeq(w, lo, hi)
    <3>1. /\ a \in Seq(Char) /\ Len(a) = (IF lo <= hi THEN hi - lo + 1 ELSE 0)
          /\ \A i \in 1 .. hi - lo + 1 : a[i] = u[lo + i - 1]
      BY <1>1, <1>2, <2>3, <2>4, SubSeqProperties
    <3>2. /\ b \in Seq(Char) /\ Len(b) = (IF lo <= hi THEN hi - lo + 1 ELSE 0)
          /\ \A i \in 1 .. hi - lo + 1 : b[i] = w[lo + i - 1]
      BY <1>1, <2>3, <2>4, SubSeqProperties
    <3> HIDE DEF a, b
    <3>3. ASSUME NEW i \in 1 .. Len(a) PROVE a[i] = b[i]
      <4>1. i \in 1 .. hi - lo + 1 /\ lo + i - 1 \in 1 .. q
        BY <1>1, <2>3, <2>4, <3>1
      <4> QED BY <1>2, <3>1, <3>2, <4>1
    <3>4. a = b
      BY <3>1, <3>2, <3>3, SeqEqual
    <3> QED BY <3>4 DEF a, b
  <2>6. trim(u) = SubSeq(u, lo, hi) /\ trim(w) = SubSeq(w, lo, hi)
    BY <1>3, <1>5 DEF trim, lo, hi, s
  <2> QED BY <2>5, <2>6 DEF u
<1> QED BY <1>4, <1>5

-----------------------------------------------------------------------------
\* Where nothing that is written holds a break, the row holds none.
Whole(w) == \A j \in 1 .. Len(w) : w[j] # Break

LEMMA WholeJoin ==
  ASSUME NEW a \in Cells, NEW b \in Cells, Whole(a), Whole(b)
  PROVE  Whole(a \o b)
<1>1. a \in Seq(Char) /\ b \in Seq(Char)
  BY DEF Cells
<1>2. /\ Len(a) \in Nat /\ Len(b) \in Nat /\ Len(a \o b) = Len(a) + Len(b)
      /\ \A j \in 1 .. Len(a) : (a \o b)[j] = a[j]
      /\ \A j \in 1 .. Len(b) : (a \o b)[Len(a) + j] = b[j]
  BY <1>1, ConcatProperties
<1>3. ASSUME NEW j \in 1 .. Len(a \o b) PROVE (a \o b)[j] # Break
  <2>1. CASE j <= Len(a)
    BY <1>2, <2>1 DEF Whole
  <2>2. CASE j > Len(a)
    <3> DEFINE h == j - Len(a)
    <3>1. h \in 1 .. Len(b) /\ j = Len(a) + h
      BY <1>2, <2>2
    <3> HIDE DEF h
    <3> QED BY <1>2, <3>1 DEF Whole
  <2> QED BY <1>2, <2>1, <2>2
<1> QED BY <1>3 DEF Whole

LEMMA WholePieces ==
  ASSUME NEW n \in Nat, NEW p, NEW x, Joins(p, n, x), \A i \in 1 .. n : Whole(x[i])
  PROVE  Whole(p[n])
<1> DEFINE S == { i \in 0 .. n : Whole(p[i]) }
<1>1. 0 \in S
  BY DEF Joins, Whole
<1>2. ASSUME NEW i \in 1 .. n, i - 1 \in S PROVE i \in S
  <2>1. p[i] = p[i - 1] \o x[i] /\ p[i - 1] \in Cells /\ x[i] \in Cells /\ Whole(p[i - 1])
    BY <1>2 DEF Joins
  <2>2. Whole(p[i])
    BY <2>1, WholeJoin
  <2> QED BY <2>2
<1>3. n \in S
  <2> HIDE DEF S
  <2> QED BY <1>1, <1>2, UpTo
<1> QED BY <1>3

LEMMA WholeCell ==
  ASSUME NEW c \in Cells, Whole(c)
  PROVE  Whole(WrittenCell(c))
<1>1. PICK p : /\ Joins(p, Len(c), [i \in 1 .. Len(c) |-> WrittenAs(c[i])])
               /\ Doubled(c) = p[Len(c)]
  BY DoubledJoins
<1>2. Len(c) \in Nat
  BY DEF Cells
<1> DEFINE x == [i \in 1 .. Len(c) |-> WrittenAs(c[i])]
           d == Doubled(c)
<1>3. ASSUME NEW i \in 1 .. Len(c) PROVE Whole(x[i])
  <2>1. c[i] # Break /\ Quote # Break
    BY DEF Whole, Quote, Break
  <2>2. Whole(WrittenAs(c[i]))
    BY <2>1 DEF WrittenAs, Whole
  <2> QED BY <2>2
<1> HIDE DEF x
<1>4. Whole(d)
  BY <1>1, <1>2, <1>3, WholePieces DEF x
<1>5. d \in Cells /\ <<Quote>> \in Cells /\ Whole(<<Quote>>)
  <2>1. d \in Cells
    BY WrittenType
  <2> HIDE DEF d
  <2> QED BY <2>1 DEF Cells, Char, Whole, Quote, Break
<1> HIDE DEF d
<1>6. <<Quote>> \o d \in Cells /\ Whole(<<Quote>> \o d)
  <2>1. <<Quote>> \o d \in Cells
    BY <1>5 DEF Cells
  <2> QED BY <1>4, <1>5, <2>1, WholeJoin
<1>7. Whole(<<Quote>> \o d \o <<Quote>>)
  BY <1>5, <1>6, WholeJoin
<1> QED BY <1>7 DEF WrittenCell, d

LEMMA WholeRow ==
  ASSUME NEW cells \in Seq(Cells), Len(cells) >= 1, \A i \in 1 .. Len(cells) : Whole(cells[i])
  PROVE  Whole(WrittenRow(cells))
<1> DEFINE n == Len(cells)
           words == [c \in DOMAIN cells |-> WrittenCell(cells[c])]
           x == [i \in 1 .. Len(words) |-> <<Comma>> \o words[i]]
           whole == Chained(Comma, words)
<1>1. n \in Nat /\ DOMAIN cells = 1 .. n /\ \A i \in 1 .. n : cells[i] \in Cells
  OBVIOUS
<1>2. /\ words \in Seq(Cells) /\ Len(words) = n
      /\ \A i \in 1 .. n : words[i] = WrittenCell(cells[i]) /\ words[i] \in Cells
  <2>1. \A i \in 1 .. n : WrittenCell(cells[i]) \in Cells
    BY <1>1, WrittenType
  <2>2. words \in [1 .. n -> Cells]
    BY <1>1, <2>1
  <2> QED BY <1>1, <2>1, <2>2
<1>3. WrittenRow(cells) = Tail(whole) /\ Comma \in Char
  BY DEF WrittenRow, Char
<1>4. \A i \in 1 .. n : Whole(words[i])
  BY <1>1, <1>2, WholeCell
<1> HIDE DEF n, words
<1>5. ASSUME NEW i \in 1 .. n PROVE Whole(x[i])
  <2>1. <<Comma>> \in Cells /\ Whole(<<Comma>>)
    <3>1. <<Comma>> \in Cells
      BY <1>3 DEF Cells
    <3>2. Comma # Break
      BY DEF Comma, Break
    <3> QED BY <3>1, <3>2 DEF Whole
  <2> QED BY <1>2, <1>4, <2>1, WholeJoin
<1>6. PICK p : Joins(p, Len(words), x) /\ whole = p[Len(words)]
  BY <1>2, <1>3, ChainJoins
<1> HIDE DEF x
<1>7. Whole(whole)
  BY <1>1, <1>2, <1>5, <1>6, WholePieces
<1>8. PICK l : Chain(l, words, Comma, whole)
  BY <1>2, <1>3, ChainPlaces
<1>9. whole \in Cells
  BY <1>2, <1>3, ChainPlaces
<1> HIDE DEF whole
<1> DEFINE m == Len(words[n])
<1>10. Len(whole) >= 1 /\ Len(whole) \in Nat
  <2>1. n \in 1 .. n
    BY <1>1 DEF n
  <2>2. l[n - 1] \in Nat /\ m \in Nat /\ l[n] = l[n - 1] + 1 + m /\ l[n] = Len(whole)
    BY <1>2, <1>8, <2>1 DEF Chain
  <2> HIDE DEF m
  <2> QED BY <2>2
<1>11. /\ Len(Tail(whole)) = Len(whole) - 1
       /\ \A j \in 1 .. Len(whole) - 1 : Tail(whole)[j] = whole[j + 1]
  <2>1. whole \in Seq(Char) /\ whole # <<>>
    BY <1>9, <1>10 DEF Cells
  <2> QED BY <2>1, HeadTailProperties
<1>12. ASSUME NEW j \in 1 .. Len(whole) - 1 PROVE Tail(whole)[j] # Break
  <2>1. j + 1 \in 1 .. Len(whole)
    BY <1>10
  <2> QED BY <1>7, <1>11, <2>1 DEF Whole
<1>13. Whole(Tail(whole))
  BY <1>11, <1>12 DEF Whole
<1> QED BY <1>3, <1>13

\* Every place of a chain is that of a mark or in a word.
LEMMA ChainCovers ==
  ASSUME NEW words \in Seq(Cells), NEW mark, NEW whole \in Cells, NEW l,
         Chain(l, words, mark, whole), NEW p \in 1 .. Len(whole)
  PROVE  \E i \in 1 .. Len(words) :
           \/ p = l[i - 1] + 1
           \/ \E j \in 1 .. Len(words[i]) : p = l[i - 1] + 1 + j
<1> DEFINE n == Len(words)
           len == [i \in 1 .. n |-> Len(words[i])]
           Covered(q) == \E i \in 1 .. n : \/ q = l[i - 1] + 1
                                           \/ \E j \in 1 .. len[i] : q = l[i - 1] + 1 + j
           S == { i \in 0 .. n : \A q \in 1 .. l[i] : Covered(q) }
<1>1. n \in Nat
  OBVIOUS
<1>2. /\ l \in [0 .. n -> Nat] /\ l[0] = 0 /\ l[n] = Len(whole)
      /\ \A i \in 1 .. n : l[i - 1] \in Nat /\ len[i] \in Nat /\ l[i] = l[i - 1] + 1 + len[i]
  BY DEF Chain
<1>l. \A i \in 1 .. n : len[i] = Len(words[i])
  OBVIOUS
<1> HIDE DEF n, len
<1>3. 0 \in S
  BY <1>1, <1>2
<1>4. ASSUME NEW i \in 1 .. n, i - 1 \in S PROVE i \in S
  <2>1. \A q \in 1 .. l[i - 1] : Covered(q)
    BY <1>4
  <2>2. l[i - 1] \in Nat /\ len[i] \in Nat /\ l[i] = l[i - 1] + 1 + len[i] /\ i \in 0 .. n
    BY <1>1, <1>2
  <2>3. ASSUME NEW q \in 1 .. l[i] PROVE Covered(q)
    <3>1. CASE q <= l[i - 1]
      <4>1. q \in 1 .. l[i - 1]
        BY <2>2, <3>1
      <4> QED BY <2>1, <4>1
    <3>2. CASE q = l[i - 1] + 1
      BY <3>2
    <3>3. CASE q > l[i - 1] + 1
      <4> DEFINE j == q - (l[i - 1] + 1)
      <4>1. j \in 1 .. len[i] /\ q = l[i - 1] + 1 + j
        <5> DEFINE k == l[i - 1]
                   m == len[i]
        <5>1. k \in Nat /\ m \in Nat /\ q \in 1 .. k + 1 + m /\ q > k + 1
          BY <2>2, <3>3
        <5> HIDE DEF k, m
        <5>2. q - (k + 1) \in 1 .. m /\ q = k + 1 + (q - (k + 1))
          BY ONLY <5>1
        <5> QED BY <5>2 DEF k, m
      <4> HIDE DEF j
      <4> QED BY <4>1
    <3> QED BY <2>2, <3>1, <3>2, <3>3
  <2> HIDE DEF Covered
  <2> QED BY <2>2, <2>3
<1>5. n \in S
  <2> HIDE DEF S
  <2> QED BY <1>1, <1>3, <1>4, UpTo
<1>6. Covered(p)
  BY <1>2, <1>5
<1> QED BY <1>6, <1>l DEF n

\* A row whose end is cut off is read with the same cells, but for white space
\* at the end of the last.
LEMMA ReadsCut ==
  ASSUME NEW cells \in Seq(Cells), Len(cells) >= 1,
         \A i \in 1 .. Len(cells) : Whole(cells[i]),
         NEW q, CutAt(WrittenRow(cells), q)
  PROVE  \E read \in Seq(Cells) :
           /\ parseCsvLine(SubSeq(WrittenRow(cells), 1, q)) = read
           /\ Len(read) = Len(cells)
           /\ \A i \in 1 .. Len(cells) : trim(read[i]) = trim(cells[i])
<1> DEFINE n == Len(cells)
           row == WrittenRow(cells)
           line == SubSeq(row, 1, q)
           last == cells[n]
           W == WrittenCell(last)
<1>1. n \in Nat /\ n \in 1 .. n /\ \A i \in 1 .. n : cells[i] \in Cells
  OBVIOUS
<1>2. row \in Cells
  BY RowLies
<1>3. PICK l : Lies(l, cells, row)
  BY RowLies
<1>4. q \in 0 .. Len(row) /\ \A j \in 1 .. Len(row) : j > q => row[j] \in White
  BY DEF CutAt
<1>5. last \in Cells /\ W \in Cells /\ Len(W) \in Nat /\ Len(last) \in Nat
  <2>1. last \in Cells
    BY <1>1
  <2>2. W \in Cells
    BY <2>1, WrittenType
  <2> QED BY <2>1, <2>2 DEF Cells
<1>p. parseCsvLine(row) = cells
  BY <1>2, <1>3, ReadsRow
<1>w. Whole(last)
  BY <1>1
<1> HIDE DEF row
<1>6. Len(row) \in Nat /\ line \in Cells /\ Len(line) = q /\ \A j \in 1 .. q : line[j] = row[j]
  <2>1. row \in Seq(Char)
    BY <1>2 DEF Cells
  <2> QED BY <1>4, <2>1, SubSeqProperties DEF Cells
<1>c. SubSeq(row, 1, Len(row)) = row
  BY <1>2 DEF Cells
<1> HIDE DEF line
<1> DEFINE k == l[n - 1]
           len == [i \in 1 .. n |-> Len(WrittenCell(cells[i]))]
<1>l. len[n] = Len(W) /\ \A i \in 1 .. n : len[i] = Len(WrittenCell(cells[i]))
  BY <1>1
<1>7. /\ l \in [0 .. n -> Nat] /\ l[0] = 0 /\ l[n] = Len(row) + 1
      /\ \A i \in 1 .. n : /\ At(row, WrittenCell(cells[i]), l[i - 1])
                           /\ l[i] = l[i - 1] + 1 + len[i]
                           /\ i < n => row[l[i]] = Comma
  BY <1>3, <1>l DEF Lies
<1> HIDE DEF W, last, n, len
<1>8. k \in Nat /\ At(row, W, k) /\ Len(row) = k + Len(W)
  <2>1. k \in Nat
    BY <1>1, <1>7
  <2>2. At(row, W, k) /\ l[n] = k + 1 + Len(W)
    BY <1>1, <1>7, <1>l DEF W, last
  <2> QED BY <1>5, <1>6, <1>7, <2>1, <2>2
<1>9. \A j \in 1 .. Len(W) : row[k + j] = W[j]
  BY <1>8 DEF At
<1>10. k <= q
  <2>1. CASE n = 1
    BY <1>4, <1>6, <1>7, <2>1
  <2>2. CASE n > 1
    <3>1. n - 1 \in 1 .. n /\ n - 1 < n
      BY <1>1, <2>2
    <3>2. row[k] = Comma
      BY <1>7, <3>1
    <3>3. len[n - 1] \in Nat
      <4>1. WrittenCell(cells[n - 1]) \in Cells
        BY <1>1, <3>1, WrittenType
      <4> QED BY <1>l, <3>1, <4>1 DEF Cells
    <3>4. l[(n - 1) - 1] \in Nat /\ k = l[(n - 1) - 1] + 1 + len[n - 1]
      BY <1>1, <1>7, <2>2, <3>1
    <3>5. k \in 1 .. Len(row)
      BY <1>5, <1>8, <3>3, <3>4
    <3>6. row[k] \notin White
      BY <3>2 DEF White, Comma, Blank, Break
    <3> QED BY <1>4, <1>6, <1>8, <3>5, <3>6
  <2> QED BY <1>1, <2>1, <2>2
<1> DEFINE d == q - k
<1>11. d \in 0 .. Len(W) /\ q = k + d
  BY <1>4, <1>5, <1>6, <1>8, <1>10
<1> HIDE DEF k, d
<1>12. \A j \in 1 .. Len(W) : j > d => W[j] \in White
  <2> TAKE j \in 1 .. Len(W)
  <2> HAVE j > d
  <2>1. k + j \in 1 .. Len(row) /\ k + j > q
    BY <1>5, <1>6, <1>8, <1>11
  <2> QED BY <1>4, <1>9, <2>1
<1>13. CASE {Quote, Comma, Break} \cap Range(last) # {}
  <2>1. W = <<Quote>> \o Doubled(last) \o <<Quote>>
    BY <1>13 DEF WrittenCell, W
  <2>2. Len(W) >= 1 /\ W[Len(W)] = Quote
    <3> DEFINE a == <<Quote>> \o Doubled(last)
    <3>1. Doubled(last) \in Seq(Char) /\ <<Quote>> \in Seq(Char)
      <4>1. Doubled(last) \in Cells
        BY <1>5, WrittenType
      <4>2. Quote \in Char
        BY DEF Char
      <4> QED BY <4>1, <4>2 DEF Cells
    <3>2. a \in Seq(Char)
      BY <3>1
    <3> HIDE DEF a
    <3>3. Len(a) \in Nat /\ Len(<<Quote>>) = 1 /\ <<Quote>>[1] = Quote
      BY <3>2
    <3>4. Len(a \o <<Quote>>) = Len(a) + 1 /\ (a \o <<Quote>>)[Len(a) + 1] = Quote
      BY <3>1, <3>2, <3>3, ConcatProperties
    <3>5. W = a \o <<Quote>>
      BY <2>1 DEF a
    <3> QED BY <3>3, <3>4, <3>5
  <2>3. Quote \notin White
    BY DEF White, Quote, Blank, Break
  <2>4. d = Len(W)
    BY <1>5, <1>11, <1>12, <2>2, <2>3
  <2>5. line = row
    BY <1>8, <1>11, <1>c, <2>4 DEF line
  <2> QED BY <1>p, <2>5 DEF n, line, row
<1>14. CASE {Quote, Comma, Break} \cap Range(last) = {}
  <2> DEFINE short == SubSeq(last, 1, d)
             read == [cells EXCEPT ![n] = short]
             h == [l EXCEPT ![n] = q + 1]
  <2>1. W = last
    BY <1>14 DEF WrittenCell, W
  <2>2. /\ short \in Cells /\ Len(short) = d /\ \A j \in 1 .. d : short[j] = last[j]
    <3>1. last \in Seq(Char) /\ d \in 0 .. Len(last)
      BY <1>5, <1>11, <2>1 DEF Cells
    <3> QED BY <1>5, <3>1, SubSeqProperties DEF Cells
  <2>3. trim(short) = trim(last)
    <3>1. CutAt(last, d)
      BY <1>11, <1>12, <2>1 DEF CutAt
    <3> QED BY <1>5, <3>1, TrimCut
  <2> HIDE DEF short
  <2>4. WrittenCell(short) = short
    <3>1. ASSUME NEW ch \in {Quote, Comma, Break}, ch \in Range(short) PROVE FALSE
      <4>1. PICK j \in 1 .. d : short[j] = ch
        <5>1. DOMAIN short = 1 .. d
          BY <2>2 DEF Cells
        <5> QED BY <3>1, <5>1 DEF Range
      <4>2. j \in DOMAIN last
        BY <1>5, <1>11, <2>1 DEF Cells
      <4>3. ch \in Range(last)
        BY <2>2, <4>1, <4>2 DEF Range
      <4> QED BY <1>14, <4>3
    <3> QED BY <3>1 DEF WrittenCell
  <2>5. /\ read \in Seq(Cells) /\ Len(read) = n /\ read[n] = short
        /\ \A i \in 1 .. n : i # n => read[i] = cells[i]
    <3>1. DOMAIN cells = 1 .. n
      BY DEF n
    <3> QED BY <1>1, <2>2, <3>1 DEF n
  <2>6. /\ h \in [0 .. n -> Nat] /\ h[n] = q + 1 /\ h[0] = 0
        /\ \A i \in 0 .. n : i # n => h[i] = l[i]
    <3>1. q + 1 \in Nat /\ n # 0 /\ n \in 0 .. n /\ 0 \in 0 .. n
      BY <1>1, <1>4, <1>6
    <3>2. l \in [0 .. n -> Nat] /\ l[0] = 0
      BY <1>7
    <3> QED BY ONLY <3>1, <3>2
  <2> HIDE DEF read, h
  <2>7. ASSUME NEW i \in 1 .. n
        PROVE  /\ At(line, WrittenCell(read[i]), h[i - 1])
               /\ h[i] = h[i - 1] + 1 + Len(WrittenCell(read[i]))
               /\ i < n => line[h[i]] = Comma
    <3>0. i - 1 \in 0 .. n /\ i - 1 # n /\ h[i - 1] = l[i - 1] /\ h[i - 1] \in Nat
      BY <1>1, <2>6
    <3>1. CASE i = n
      <4>1. h[i - 1] = k /\ WrittenCell(read[i]) = short /\ h[i] = q + 1
        BY <2>4, <2>5, <2>6, <3>0, <3>1 DEF k
      <4>2. At(line, short, k)
        <5>1. k + Len(short) <= Len(line)
          BY <1>6, <1>8, <1>11, <2>2
        <5>2. ASSUME NEW j \in 1 .. Len(short) PROVE line[k + j] = short[j]
          <6>1. j \in 1 .. d /\ j \in 1 .. Len(W) /\ k + j \in 1 .. q
            BY <1>5, <1>8, <1>11, <2>2
          <6> QED BY <1>6, <1>9, <2>1, <2>2, <6>1
        <5> QED BY <5>1, <5>2 DEF At
      <4>3. q + 1 = k + 1 + Len(short)
        BY <1>8, <1>11, <2>2
      <4> QED BY <3>1, <4>1, <4>2, <4>3
    <3>2. CASE i # n
      <4> DEFINE w == WrittenCell(cells[i])
      <4>1. read[i] = cells[i] /\ h[i] = l[i] /\ i < n /\ i \in 0 .. n
        BY <1>1, <2>5, <2>6, <3>2
      <4>2. At(row, w, l[i - 1]) /\ l[i] = l[i - 1] + 1 + Len(w) /\ row[l[i]] = Comma
        BY <1>7, <1>l, <4>1
      <4>3. w \in Cells /\ Len(w) \in Nat
        <5>1. w \in Cells
          BY <1>1, WrittenType
        <5> QED BY <5>1 DEF Cells
      <4> HIDE DEF w
      <4> DEFINE g == l[i - 1]
      <4>4. g \in Nat /\ l[i] \in Nat /\ l[i] = g + 1 + Len(w)
        BY <3>0, <4>2, <4>3
      <4>5. l[i] <= k
        <5>1. ASSUME NEW j \in 1 .. n PROVE l[j - 1] <= l[j]
          <6>1. j - 1 \in 0 .. n /\ len[j] \in Nat
            <7>1. WrittenCell(cells[j]) \in Cells
              BY <1>1, WrittenType
            <7> QED BY <1>1, <1>l, <7>1 DEF Cells
          <6>2. l[j - 1] \in Nat /\ l[j] = l[j - 1] + 1 + len[j]
            BY <1>7, <6>1
          <6> QED BY ONLY <6>1, <6>2
        <5>2. n - 1 \in 0 .. n /\ i \in 0 .. n - 1
          BY <1>1, <4>1
        <5>3. l[i] <= l[n - 1]
          <6>1. n \in Nat /\ l \in [0 .. n -> Nat]
            BY <1>1, <1>7
          <6> QED BY ONLY <5>1, <5>2, <6>1, Climbs
        <5> QED BY <5>3 DEF k
      <4> HIDE DEF g
      <4>6. l[i] \in 1 .. q /\ g + Len(w) <= q
        BY <1>4, <1>6, <1>8, <1>10, <4>3, <4>4, <4>5
      <4>7. At(line, w, g)
        <5>1. ASSUME NEW j \in 1 .. Len(w) PROVE line[g + j] = w[j]
          <6>1. g + j \in 1 .. q
            BY <1>4, <1>6, <4>3, <4>4, <4>6
          <6>2. row[g + j] = w[j]
            BY <4>2 DEF At, g
          <6> QED BY <1>6, <6>1, <6>2
        <5> QED BY <1>6, <4>6, <5>1 DEF At
      <4>8. line[l[i]] = Comma
        BY <1>6, <4>2, <4>6
      <4> QED BY <3>0, <4>1, <4>2, <4>7, <4>8 DEF w, g
    <3> QED BY <3>1, <3>2
  <2>8. Lies(h, read, line)
    BY <1>6, <2>5, <2>6, <2>7 DEF Lies
  <2>9. parseCsvLine(line) = read
    <3>1. Len(read) >= 1
      BY <1>1, <2>5 DEF n
    <3> QED BY <1>6, <2>5, <2>8, <3>1, ReadsRow
  <2>10. \A i \in 1 .. n : trim(read[i]) = trim(cells[i])
    BY <2>3, <2>5 DEF last
  <2> QED BY <2>5, <2>9, <2>10 DEF n, line, row
<1> QED BY <1>13, <1>14

\* The lines the page splits the text into are the rows, as far as nothing is cut
\* off at the end of the text.
LEMMA TextLines ==
  ASSUME NEW sheet, NEW words \in Seq(Cells),
         words = [r \in DOMAIN sheet.rows |-> WrittenRow(sheet.rows[r])],
         \A i \in 1 .. Len(words) :
           Whole(words[i]) /\ \E j \in 1 .. Len(words[i]) : words[i][j] = Comma
  PROVE  \E q : /\ \A i \in 1 .. Len(words) : CutAt(words[i], q[i])
                /\ DataLines(trim(CsvText(sheet))) =
                     { SubSeq(words[i], 1, q[i]) : i \in 1 .. Len(words) }
<1> DEFINE n == Len(words)
           chain == Chained(Break, words)
           text == <<Header>> \o chain
           w == trim(text)
           N == Len(text)
           len == [i \in 1 .. n |-> Len(words[i])]
<1>1. text = CsvText(sheet)
  BY DEF CsvText
<1>2. chain \in Cells /\ \E l : Chain(l, words, Break, chain)
  <2>1. Break \in Char
    BY DEF Char
  <2> QED BY <2>1, ChainPlaces
<1>3. PICK l : Chain(l, words, Break, chain)
  BY <1>2
<1>n. n \in Nat /\ \A i \in 1 .. n : /\ words[i] \in Seq(Char) /\ len[i] = Len(words[i])
                                    /\ len[i] \in Nat
  <2>1. n \in Nat /\ \A i \in 1 .. n : words[i] \in Cells
    OBVIOUS
  <2> QED BY <2>1 DEF Cells
<1>m. Header # Break /\ Header \notin White /\ Comma \notin White /\ Break \in White
  BY DEF Header, Break, Comma, Blank, White
<1>p. \A i \in 1 .. n : Whole(words[i]) /\ \E j \in 1 .. len[i] : words[i][j] = Comma
  BY <1>n
<1> HIDE DEF chain, n, len
<1>4. /\ text \in Seq(Char) /\ N \in Nat /\ N = 1 + Len(chain) /\ Len(chain) \in Nat
      /\ text[1] = Header /\ \A i \in 1 .. Len(chain) : text[1 + i] = chain[i]
  <2>1. <<Header>> \in Seq(Char) /\ Len(<<Header>>) = 1 /\ <<Header>>[1] = Header
    BY DEF Char
  <2>2. chain \in Seq(Char)
    BY <1>2 DEF Cells
  <2> QED BY <2>1, <2>2, ConcatProperties
<1> HIDE DEF text, N
<1>5. /\ l \in [0 .. n -> Nat] /\ l[0] = 0 /\ l[n] + 1 = N
      /\ \A i \in 1 .. n : /\ i - 1 \in 0 .. n /\ i \in 0 .. n
                           /\ l[i - 1] \in Nat /\ l[i] = l[i - 1] + 1 + len[i]
                           /\ chain[l[i - 1] + 1] = Break
                           /\ \A j \in 1 .. len[i] : chain[l[i - 1] + 1 + j] = words[i][j]
  <2>1. l \in [0 .. n -> Nat] /\ l[0] = 0 /\ l[n] = Len(chain)
    BY <1>3 DEF Chain, n
  <2>2. l[n] + 1 = N
    BY <1>4, <2>1
  <2>3. \A i \in 1 .. n : i - 1 \in 0 .. n /\ i \in 0 .. n
    BY <1>n
  <2>4. \A i \in 1 .. n : /\ l[i - 1] \in Nat /\ l[i] = l[i - 1] + 1 + Len(words[i])
                          /\ chain[l[i - 1] + 1] = Break
                          /\ \A j \in 1 .. Len(words[i]) : chain[l[i - 1] + 1 + j] = words[i][j]
    BY <1>3 DEF Chain, n
  <2> QED BY <1>n, <2>1, <2>2, <2>3, <2>4
<1> DEFINE b == [i \in 1 .. n |-> l[i - 1] + 2]
<1>b. \A i \in 1 .. n : b[i] = l[i - 1] + 2
  OBVIOUS
<1> HIDE DEF b
<1>c. \A i \in 0 .. n, k \in 0 .. n : i <= k => l[i] <= l[k]
  <2>1. ASSUME NEW i \in 1 .. n PROVE l[i - 1] <= l[i]
    <3>1. l[i - 1] \in Nat /\ l[i] = l[i - 1] + 1 + len[i] /\ len[i] \in Nat
      BY <1>n, <1>5
    <3> QED BY ONLY <3>1
  <2>2. l \in [0 .. n -> Nat]
    BY <1>5
  <2>3. ASSUME NEW i \in 0 .. n, NEW k \in 0 .. n, i <= k PROVE l[i] <= l[k]
    <3>1. i \in 0 .. k
      BY <1>n, <2>3
    <3> QED BY ONLY <1>n, <2>1, <2>2, <3>1, Climbs
  <2> QED BY <2>3
\* Place b[i] is the break before row i.
<1>6. ASSUME NEW i \in 1 .. n
      PROVE  /\ b[i] \in 1 .. N /\ len[i] \in Nat /\ b[i] + len[i] <= N /\ b[i] + len[i] = l[i] + 1
             /\ text[b[i]] = Break /\ \A j \in 1 .. len[i] : text[b[i] + j] = words[i][j]
             /\ i = n => b[i] + len[i] = N
             /\ i < n => b[i + 1] = b[i] + len[i] + 1
  <2> DEFINE k == l[i - 1]
             m == len[i]
  <2>1. /\ k \in Nat /\ m \in Nat /\ l[i] = k + 1 + m /\ b[i] = k + 2 /\ chain[k + 1] = Break
        /\ \A j \in 1 .. m : chain[k + 1 + j] = words[i][j]
    BY <1>n, <1>5, <1>b
  <2>2. l[i] \in Nat /\ l[i] <= l[n] /\ l[n] \in Nat /\ l[n] = Len(chain)
    <3>1. i \in 0 .. n /\ n \in 0 .. n /\ i <= n
      BY <1>n
    <3>2. l[i] <= l[n] /\ l[i] \in Nat /\ l[n] \in Nat
      BY <1>5, <1>c, <3>1
    <3> QED BY <1>4, <1>5, <3>2
  <2>3. i < n => b[i + 1] = l[i] + 2
    <3> SUFFICES ASSUME i < n PROVE b[i + 1] = l[i] + 2
      OBVIOUS
    <3> DEFINE h == i + 1
    <3>1. h \in 1 .. n /\ h - 1 = i
      BY <1>n
    <3> HIDE DEF h
    <3>2. b[h] = l[i] + 2
      BY <1>b, <3>1
    <3> QED BY <3>2 DEF h
  <2> HIDE DEF k, m
  <2>4. k + 1 + m <= Len(chain) /\ k \in Nat /\ m \in Nat /\ Len(chain) \in Nat
    BY <1>4, <2>1, <2>2
  <2>5. /\ k + 1 \in 1 .. Len(chain) /\ 1 + (k + 1) = k + 2
        /\ \A j \in 1 .. m : /\ k + 1 + j \in 1 .. Len(chain)
                             /\ 1 + (k + 1 + j) = k + 2 + j
    BY ONLY <2>4
  <2>6. text[k + 2] = Break
    BY <1>4, <2>1, <2>5
  <2>7. \A j \in 1 .. m : text[k + 2 + j] = words[i][j]
    BY <1>4, <2>1, <2>5
  <2>8. /\ k + 2 \in 1 .. N /\ k + 2 + m <= N /\ k + 2 + m = l[i] + 1
        /\ i = n => k + 2 + m = N
        /\ i < n => b[i + 1] = k + 2 + m + 1
    <3>1. /\ k + 1 + m = l[i] /\ N = 1 + Len(chain) /\ N \in Nat
          /\ i = n => l[i] = Len(chain)
      BY <1>4, <2>1, <2>2
    <3> QED BY ONLY <2>3, <2>4, <3>1
  <2> QED BY <2>1, <2>6, <2>7, <2>8 DEF m
<1>7. ASSUME NEW i \in 1 .. n, NEW k \in 1 .. n
      PROVE  /\ i <= k => b[i] <= b[k]
             /\ i < k => b[i + 1] <= b[k]
  <2>1. i - 1 \in 0 .. n /\ k - 1 \in 0 .. n /\ (i <= k => i - 1 <= k - 1)
    BY <1>n
  <2>2. i <= k => l[i - 1] <= l[k - 1]
    BY <1>c, <2>1
  <2>3. i <= k => b[i] <= b[k]
    <3>1. /\ l[i - 1] \in Nat /\ l[k - 1] \in Nat
          /\ b[i] = l[i - 1] + 2 /\ b[k] = l[k - 1] + 2
      BY <1>5, <1>b
    <3> QED BY ONLY <2>2, <3>1
  <2>4. ASSUME i < k PROVE b[i + 1] <= b[k]
    <3> DEFINE h == i + 1
    <3>1. h \in 1 .. n /\ h - 1 \in 0 .. n /\ h - 1 <= k - 1
      BY <1>n, <2>4
    <3> HIDE DEF h
    <3>2. l[h - 1] <= l[k - 1]
      BY <1>c, <2>1, <3>1
    <3>3. b[h] <= b[k]
      <4>1. /\ l[h - 1] \in Nat /\ l[k - 1] \in Nat
            /\ b[h] = l[h - 1] + 2 /\ b[k] = l[k - 1] + 2
        BY <1>5, <1>b, <3>1
      <4> QED BY ONLY <3>2, <4>1
    <3> QED BY <3>3 DEF h
  <2> QED BY <2>3, <2>4
<1>8. ASSUME NEW p \in 1 .. N, text[p] = Break PROVE \E i \in 1 .. n : p = b[i]
  <2>1. p # 1
    BY <1>4, <1>8, <1>m
  <2> DEFINE c == p - 1
  <2>2. c \in 1 .. Len(chain) /\ p = c + 1
    BY <1>4, <2>1
  <2> HIDE DEF c
  <2>3. PICK i \in 1 .. n : \/ c = l[i - 1] + 1
                            \/ \E j \in 1 .. Len(words[i]) : c = l[i - 1] + 1 + j
    BY ONLY <1>2, <1>3, <2>2, ChainCovers, words \in Seq(Cells) DEF n
  <2>4. CASE c = l[i - 1] + 1
    <3>1. l[i - 1] \in Nat /\ b[i] = l[i - 1] + 2
      BY <1>5, <1>b
    <3>2. p = b[i]
      BY ONLY <2>2, <2>4, <3>1
    <3> QED BY <3>2
  <2>5. CASE \E j \in 1 .. Len(words[i]) : c = l[i - 1] + 1 + j
    <3>1. PICK j \in 1 .. len[i] : c = l[i - 1] + 1 + j
      BY <1>n, <2>5
    <3>2. l[i - 1] \in Nat /\ b[i] = l[i - 1] + 2 /\ len[i] \in Nat
      BY <1>5, <1>b, <1>n
    <3>3. p = b[i] + j
      BY ONLY <2>2, <3>1, <3>2
    <3>4. words[i][j] = Break
      BY <1>6, <1>8, <3>3
    <3> QED BY <1>n, <1>p, <3>4 DEF Whole
  <2> QED BY <2>3, <2>4, <2>5
\* e is the last place that is not white space.
<1> DEFINE e == Max(Solid(text))
<1>9. /\ e \in 1 .. N /\ w = SubSeq(text, 1, e)
      /\ \A p \in 1 .. N : text[p] \notin White => p <= e
  <2> DEFINE s == Solid(text)
  <2>1. s = { p \in 1 .. N : text[p] \notin White }
    BY DEF Solid, White, N
  <2>2. 1 \in s /\ s \in SUBSET (1 .. N) /\ s # {} /\ s \in SUBSET Nat
    BY <1>4, <1>m, <2>1
  <2>3. \A p \in s : 1 <= p
    BY <2>2
  <2>4. trim(text) = SubSeq(text, Min(s), Max(s))
    BY <2>2 DEF trim
  <2> HIDE DEF s
  <2>5. Max(s) \in s /\ \A p \in s : Max(s) >= p
    BY ONLY <1>4, <2>2, Greatest
  <2>6. Min(s) = 1
    BY ONLY <2>2, <2>3, LeastOf
  <2>7. Max(s) \in 1 .. N /\ \A p \in 1 .. N : text[p] \notin White => p <= Max(s)
    BY <2>1, <2>2, <2>5
  <2> QED BY <2>4, <2>6, <2>7 DEF s
<1> HIDE DEF e
<1>10. w \in Seq(Char) /\ Len(w) = e /\ \A p \in 1 .. e : w[p] = text[p]
  BY <1>4, <1>9, SubSeqProperties DEF N
<1> HIDE DEF w
<1>11. ASSUME NEW i \in 1 .. n PROVE b[i] \in 1 .. e /\ b[i] < e
  <2>1. PICK j \in 1 .. len[i] : words[i][j] = Comma
    BY <1>p
  <2>2. b[i] + j \in 1 .. N /\ text[b[i] + j] = Comma /\ b[i] \in Nat
    <3>1. /\ b[i] \in 1 .. N /\ len[i] \in Nat /\ b[i] + len[i] <= N /\ N \in Nat
          /\ text[b[i] + j] = words[i][j]
      BY <1>4, <1>6
    <3>2. b[i] \in Nat /\ b[i] + j \in 1 .. N
      BY ONLY <3>1, j \in 1 .. len[i]
    <3> QED BY <2>1, <3>1, <3>2
  <2>3. b[i] + j <= e
    BY <1>9, <1>m, <2>2
  <2> QED BY <1>4, <1>6, <1>9, <2>2, <2>3
<1>12. Breaks(w) = { b[i] : i \in 1 .. n }
  <2>1. Breaks(w) = { p \in 1 .. e : text[p] = Break }
    BY <1>10 DEF Breaks
  <2>2. \A p \in 1 .. e : p \in 1 .. N
    BY <1>4, <1>9
  <2>3. \A p \in Breaks(w) : \E i \in 1 .. n : p = b[i]
    BY <1>8, <2>1, <2>2
  <2>4. \A i \in 1 .. n : b[i] \in Breaks(w)
    BY <1>6, <1>11, <2>1
  <2> QED BY <2>3, <2>4
<1>13. ASSUME NEW i \in 1 .. n
       PROVE  /\ i < n => LineEnd(w, b[i]) = b[i] + len[i]
              /\ i = n => LineEnd(w, b[i]) = e
  <2> DEFINE M == { p \in Breaks(w) : p > b[i] } \cup {Len(w) + 1}
             end == IF i < n THEN b[i] + len[i] ELSE e
  <2>1. M \subseteq Nat /\ \A p \in M : p = e + 1 \/ \E k \in 1 .. n : p = b[k] /\ p > b[i]
    BY <1>6, <1>9, <1>10, <1>12
  <2>2. \A k \in 1 .. n : b[k] > b[i] => b[k] \in M
    BY <1>12
  <2>3. e + 1 \in M /\ e \in Nat
    BY <1>9, <1>10
  <2> HIDE DEF M
  <2>4. CASE i < n
    <3> DEFINE h == i + 1
    <3>1. h \in 1 .. n
      BY <1>n, <2>4
    <3>2. b[h] = b[i] + len[i] + 1 /\ b[i] \in Nat /\ len[i] \in Nat
      BY <1>6, <2>4
    <3>3. b[h] \in M /\ b[h] < e /\ b[h] \in Nat
      BY <1>6, <1>11, <2>2, <3>1, <3>2
    <3>4. ASSUME NEW p \in M PROVE b[h] <= p
      <4>1. CASE p = e + 1
        BY <2>3, <3>3, <4>1
      <4>2. CASE p # e + 1
        <5>1. PICK k \in 1 .. n : p = b[k] /\ b[k] > b[i]
          BY <2>1, <4>2
        <5>2. ~(k <= i)
          BY <1>6, <1>7, <5>1
        <5>3. i < k
          BY <1>n, <5>2
        <5> QED BY <1>7, <5>1, <5>3
      <4> QED BY <4>1, <4>2
    <3> HIDE DEF h
    <3>5. Min(M) = b[h]
      BY ONLY <2>1, <3>3, <3>4, LeastOf
    <3>6. LineEnd(w, b[i]) = Min(M) - 1
      BY DEF LineEnd, M
    <3>7. LineEnd(w, b[i]) = b[i] + len[i]
      BY ONLY <3>2, <3>3, <3>5, <3>6
    <3> QED BY <2>4, <3>7
  <2>5. CASE i = n
    <3>1. ASSUME NEW p \in M PROVE e + 1 <= p
      <4>1. CASE p # e + 1
        <5>1. PICK k \in 1 .. n : p = b[k] /\ b[k] > b[i]
          BY <2>1, <4>1
        <5>2. k <= i
          BY <1>n, <2>5
        <5> QED BY <1>6, <1>7, <5>1, <5>2
      <4> QED BY <2>3, <4>1
    <3>2. Min(M) = e + 1
      BY ONLY <2>1, <2>3, <3>1, LeastOf
    <3>3. LineEnd(w, b[i]) = Min(M) - 1
      BY DEF LineEnd, M
    <3>4. LineEnd(w, b[i]) = e
      BY ONLY <2>3, <3>2, <3>3
    <3> QED BY <2>5, <3>4
  <2> QED BY <1>n, <2>4, <2>5
<1> DEFINE q == [i \in 1 .. n |-> LineEnd(w, b[i]) - b[i]]
<1>14. ASSUME NEW i \in 1 .. n
       PROVE  /\ q[i] \in 0 .. len[i] /\ LineEnd(w, b[i]) = b[i] + q[i] /\ b[i] + q[i] <= e
              /\ \A j \in 1 .. len[i] : j > q[i] => words[i][j] \in White
  <2>1. /\ b[i] \in Nat /\ len[i] \in Nat /\ b[i] < e /\ e \in Nat /\ N \in Nat /\ e <= N
        /\ i = n => b[i] + len[i] = N
    BY <1>4, <1>6, <1>9, <1>11
  <2>2. CASE i < n
    <3>1. LineEnd(w, b[i]) = b[i] + len[i]
      BY <1>13, <2>2
    <3>2. q[i] = len[i]
      BY <2>1, <3>1
    <3>3. b[i] + len[i] <= e
      <4> DEFINE h == i + 1
      <4>1. h \in 1 .. n
        BY <1>n, <2>2
      <4>2. b[h] = b[i] + len[i] + 1
        BY <1>6, <2>2
      <4>3. b[h] < e
        BY <1>11, <4>1
      <4> HIDE DEF h
      <4> QED BY ONLY <2>1, <4>2, <4>3
    <3> HIDE DEF q
    <3> QED BY <2>1, <3>1, <3>2, <3>3
  <2>3. CASE i = n
    <3>1. LineEnd(w, b[i]) = e
      BY <1>13, <2>3
    <3>2. q[i] = e - b[i]
      BY <3>1
    <3> HIDE DEF q
    <3>3. q[i] \in 0 .. len[i] /\ e = b[i] + q[i]
      BY ONLY <2>1, <2>3, <3>2
    <3>4. ASSUME NEW j \in 1 .. len[i], j > q[i] PROVE words[i][j] \in White
      <4>1. b[i] + j \in 1 .. N /\ ~(b[i] + j <= e)
        BY ONLY <2>1, <2>3, <3>3, <3>4
      <4>2. text[b[i] + j] = words[i][j]
        BY <1>6
      <4> QED BY <1>9, <4>1, <4>2
    <3> QED BY <2>1, <3>1, <3>3, <3>4
  <2>4. i < n \/ i = n
    BY <1>n
  <2> HIDE DEF q
  <2> QED BY <2>2, <2>3, <2>4
<1> HIDE DEF q
<1>15. ASSUME NEW i \in 1 .. n
       PROVE  SubSeq(w, b[i] + 1, LineEnd(w, b[i])) = SubSeq(words[i], 1, q[i])
  <2> DEFINE lo == b[i] + 1
             hi == LineEnd(w, b[i])
             u == SubSeq(w, lo, hi)
             v == SubSeq(words[i], 1, q[i])
             c == words[i]
  <2>1. /\ b[i] \in Nat /\ len[i] \in Nat /\ q[i] \in 0 .. len[i] /\ hi = b[i] + q[i] /\ hi <= e
        /\ e \in Nat
    BY <1>6, <1>9, <1>14
  <2>2. lo \in 1 .. e + 1 /\ hi \in 0 .. e /\ (lo <= hi <=> q[i] >= 1) /\ hi - lo + 1 = q[i]
    BY ONLY <2>1
  <2> HIDE DEF hi, lo
  <2>3. u \in Seq(Char) /\ Len(u) = q[i] /\ \A j \in 1 .. q[i] : u[j] = w[lo + j - 1]
    <3>1. \A j \in lo .. hi : w[j] \in Char
      <4>1. \A j \in lo .. hi : j \in 1 .. Len(w)
        BY <1>10, <2>1, <2>2
      <4> QED BY <1>10, <4>1
    <3>2. lo \in Int /\ hi \in Int
      BY <2>1, <2>2
    <3>3. /\ SubSeq(w, lo, hi) \in Seq(Char)
          /\ Len(SubSeq(w, lo, hi)) = IF lo <= hi THEN hi - lo + 1 ELSE 0
          /\ \A j \in 1 .. hi - lo + 1 : SubSeq(w, lo, hi)[j] = w[lo + j - 1]
      BY ONLY <3>1, <3>2, SubSeqProperties
    <3>4. (IF lo <= hi THEN hi - lo + 1 ELSE 0) = q[i]
      <4>1. q[i] \in Nat
        BY <2>1
      <4> QED BY ONLY <2>2, <3>2, <4>1
    <3> QED BY <2>2, <3>3, <3>4
  <2>4. c \in Seq(Char) /\ Len(c) = len[i]
    BY <1>n
  <2> HIDE DEF c
  <2>5. SubSeq(c, 1, q[i]) \in Seq(Char) /\ Len(SubSeq(c, 1, q[i])) = q[i]
        /\ \A j \in 1 .. q[i] : SubSeq(c, 1, q[i])[j] = c[j]
    BY <2>1, <2>4, SubSeqProperties
  <2>6. v \in Seq(Char) /\ Len(v) = q[i] /\ \A j \in 1 .. q[i] : v[j] = c[j]
    BY <2>5 DEF c
  <2> HIDE DEF u, v
  <2>7. ASSUME NEW j \in 1 .. q[i] PROVE u[j] = v[j]
    <3>1. lo + j - 1 = b[i] + j /\ b[i] + j \in 1 .. e /\ j \in 1 .. len[i]
      BY <2>1 DEF lo
    <3>2. text[b[i] + j] = words[i][j]
      BY <1>6, <3>1
    <3> QED BY <1>10, <2>3, <2>6, <3>1, <3>2 DEF c
  <2>8. u = v
    BY <2>3, <2>6, <2>7, SeqEqual
  <2> QED BY <2>8 DEF u, v, lo, hi
<1>16. DataLines(w) = { SubSeq(words[i], 1, q[i]) : i \in 1 .. n }
  <2>1. DataLines(w) = { SubSeq(w, b[i] + 1, LineEnd(w, b[i])) : i \in 1 .. n }
    BY <1>12 DEF DataLines
  <2> QED BY <1>15, <2>1
<1>17. \A i \in 1 .. n : CutAt(words[i], q[i])
  BY <1>n, <1>14 DEF CutAt
<1> QED BY <1>1, <1>16, <1>17 DEF n, w

\* What is sent for a spreadsheet is what the user sees in it.
LEMMA ItemsAreListed ==
  ASSUME NEW f \in 1 .. Len(Sheets), ~Unusable(Sheets[f]), OneLineCells(Sheets[f])
  PROVE  Items(Sheets[f]) = Listed(Sheets[f])
<1> DEFINE sheet == Sheets[f]
<1>1. /\ sheet.columns \in Seq(Range(sheet.columns)) /\ sheet.rows \in Seq(Range(sheet.rows))
      /\ \A r \in 1 .. Len(sheet.rows) :
           /\ sheet.rows[r] \in Seq(Seq(STRING))
           /\ Len(sheet.rows[r]) = Len(sheet.columns)
  BY SheetsAssumption
<1>2. Column(sheet, "drive_id") # 0 /\ Column(sheet, "item_id") # 0
  BY DEF Unusable
<1>s. OneLineCells(sheet)
  OBVIOUS
<1> HIDE DEF sheet
<1> DEFINE n == Len(sheet.columns)
           R == 1 .. Len(sheet.rows)
           drive == Column(sheet, "drive_id")
           item == Column(sheet, "item_id")
<1>3. ASSUME NEW name, Column(sheet, name) # 0
      PROVE  Column(sheet, name) \in 1 .. n /\ sheet.columns[Column(sheet, name)] = name
  <2>1. name \in Range(sheet.columns)
    BY <1>3 DEF Column
  <2>2. \E i \in 1 .. n : sheet.columns[i] = name
    BY <1>1, <2>1 DEF Range
  <2> QED BY <2>1, <2>2 DEF Column
<1>4. drive \in 1 .. n /\ item \in 1 .. n /\ n >= 2
  <2>1. drive \in 1 .. n /\ item \in 1 .. n /\ drive # item
    BY <1>2, <1>3
  <2>2. n \in Nat
    BY <1>1
  <2> HIDE DEF n, drive, item
  <2> QED BY <2>1, <2>2
<1>5. ASSUME NEW r \in R
      PROVE  /\ sheet.rows[r] \in Seq(Cells) /\ Len(sheet.rows[r]) = n
             /\ \A c \in 1 .. n : Whole(sheet.rows[r][c])
  <2> DEFINE cells == sheet.rows[r]
  <2>1. cells \in Seq(Seq(STRING)) /\ Len(cells) = n
    BY <1>1
  <2>2. ASSUME NEW c \in 1 .. n PROVE Whole(cells[c])
    <3>1. Break \notin Range(cells[c])
      BY <1>s DEF OneLineCells
    <3>2. cells[c] \in Seq(STRING)
      BY <2>1
    <3> HIDE DEF cells
    <3> QED BY <3>1, <3>2 DEF Whole, Range
  <2> HIDE DEF cells
  <2>3. Seq(STRING) \subseteq Cells
    BY SeqMonotonic DEF Cells, Char
  <2>4. cells \in Seq(Cells)
    BY <2>1, <2>3, SeqMonotonic
  <2> QED BY <2>1, <2>2, <2>4 DEF cells
<1> DEFINE words == [r \in DOMAIN sheet.rows |-> WrittenRow(sheet.rows[r])]
<1>6. /\ words \in Seq(Cells) /\ Len(words) = Len(sheet.rows)
      /\ \A r \in R : words[r] = WrittenRow(sheet.rows[r])
      /\ \A r \in R : Whole(words[r]) /\ \E j \in 1 .. Len(words[r]) : words[r][j] = Comma
  <2>1. DOMAIN sheet.rows = R /\ Len(sheet.rows) \in Nat
    BY <1>1
  <2>2. ASSUME NEW r \in R
        PROVE  /\ WrittenRow(sheet.rows[r]) \in Cells /\ Whole(WrittenRow(sheet.rows[r]))
               /\ \E j \in 1 .. Len(WrittenRow(sheet.rows[r])) : WrittenRow(sheet.rows[r])[j] = Comma
    <3> DEFINE cells == sheet.rows[r]
               line == WrittenRow(cells)
    <3>1. cells \in Seq(Cells) /\ Len(cells) = n /\ \A c \in 1 .. n : Whole(cells[c])
      BY <1>5
    <3> HIDE DEF cells
    <3>2. Len(cells) >= 1 /\ Len(cells) >= 2 /\ \A c \in 1 .. Len(cells) : Whole(cells[c])
      BY <1>4, <3>1
    <3>3. line \in Cells /\ Whole(line) /\ \E l : Lies(l, cells, line)
      BY <3>1, <3>2, RowLies, WholeRow
    <3> HIDE DEF line
    <3>4. PICK l : Lies(l, cells, line)
      BY <3>3
    <3>5. 1 \in 1 .. Len(cells) /\ 2 \in 1 .. Len(cells) /\ 1 < Len(cells) /\ Len(cells) \in Nat
      BY <3>1, <3>2
    <3> DEFINE u == WrittenCell(cells[1])
               v == WrittenCell(cells[2])
    <3>6. Len(u) \in Nat /\ Len(v) \in Nat
      <4>1. cells[1] \in Cells /\ cells[2] \in Cells
        BY <3>1, <3>5
      <4>2. u \in Cells /\ v \in Cells
        BY <4>1, WrittenType
      <4> QED BY <4>2 DEF Cells
    <3>7. l[0] = 0 /\ l[1] = l[1 - 1] + 1 + Len(u) /\ line[l[1]] = Comma
      BY <3>4, <3>5 DEF Lies
    <3>8. l[2 - 1] + Len(v) <= Len(line)
      BY <3>4, <3>5 DEF Lies, At
    <3> HIDE DEF u, v
    <3>9. l[1] \in 1 .. Len(line)
      <4>1. Len(line) \in Nat
        BY <3>3 DEF Cells
      <4>2. 1 - 1 = 0 /\ 2 - 1 = 1
        OBVIOUS
      <4>3. l[1] = 0 + 1 + Len(u) /\ l[1] + Len(v) <= Len(line)
        BY <3>7, <3>8, <4>2
      <4> QED BY ONLY <3>6, <4>1, <4>3
    <3> QED BY <3>3, <3>7, <3>9 DEF line, cells
  <2>3. words \in [R -> Cells] /\ \A r \in R : words[r] = WrittenRow(sheet.rows[r])
    BY <2>1, <2>2
  <2> HIDE DEF words
  <2>4. words \in Seq(Cells) /\ Len(words) = Len(sheet.rows)
    BY <2>1, <2>3
  <2> QED BY <2>2, <2>3, <2>4
<1>7. words = [r \in DOMAIN sheet.rows |-> WrittenRow(sheet.rows[r])]
  OBVIOUS
<1> HIDE DEF words
<1>8. PICK q : /\ \A r \in R : CutAt(words[r], q[r])
               /\ DataLines(trim(CsvText(sheet))) = { SubSeq(words[r], 1, q[r]) : r \in R }
  <2>1. Len(words) = Len(sheet.rows) /\ words \in Seq(Cells)
    BY <1>6
  <2>2. \A i \in 1 .. Len(words) :
          Whole(words[i]) /\ \E j \in 1 .. Len(words[i]) : words[i][j] = Comma
    BY <1>6
  <2>3. \E q : /\ \A i \in 1 .. Len(words) : CutAt(words[i], q[i])
               /\ DataLines(trim(CsvText(sheet))) =
                    { SubSeq(words[i], 1, q[i]) : i \in 1 .. Len(words) }
    BY ONLY <1>7, <2>1, <2>2, TextLines
  <2> QED BY <2>1, <2>3
<1> DEFINE line(r) == SubSeq(words[r], 1, q[r])
           read(r) == parseCsvLine(line(r))
           Cell(r, c) == IF c \in 1 .. Len(read(r)) THEN trim(read(r)[c]) ELSE <<>>
           sent(r) == [drive |-> Cell(r, drive), item |-> Cell(r, item)]
           seen(r) == [drive |-> trim(sheet.rows[r][drive]), item |-> trim(sheet.rows[r][item])]
           Both(x) == x.drive # <<>> /\ x.item # <<>>
<1>9. ASSUME NEW r \in R PROVE sent(r) = seen(r)
  <2> DEFINE cells == sheet.rows[r]
  <2>1. cells \in Seq(Cells) /\ Len(cells) = n /\ \A c \in 1 .. n : Whole(cells[c])
    BY <1>5
  <2>2. words[r] = WrittenRow(cells) /\ CutAt(words[r], q[r])
    BY <1>6, <1>8
  <2> HIDE DEF cells
  <2>3. PICK s \in Seq(Cells) : /\ parseCsvLine(SubSeq(WrittenRow(cells), 1, q[r])) = s
                                /\ Len(s) = Len(cells)
                                /\ \A c \in 1 .. Len(cells) : trim(s[c]) = trim(cells[c])
    <3>1. Len(cells) >= 1
      BY <1>4, <2>1
    <3> QED BY <2>1, <2>2, <3>1, ReadsCut
  <2>4. read(r) = s /\ Len(s) = n /\ \A c \in 1 .. n : trim(s[c]) = trim(cells[c])
    BY <2>1, <2>2, <2>3
  <2> HIDE DEF read
  <2>5. Cell(r, drive) = trim(cells[drive]) /\ Cell(r, item) = trim(cells[item])
    BY <1>4, <2>4
  <2> QED BY <2>5 DEF cells
<1>10. Items(sheet) = { x \in { sent(r) : r \in R } : Both(x) }
  <2> DEFINE cell(w, c) == LET cols == parseCsvLine(w)
                           IN  IF c \in 1 .. Len(cols) THEN trim(cols[c]) ELSE <<>>
             asItem(w) == [drive |-> cell(w, drive), item |-> cell(w, item)]
             lines == DataLines(trim(CsvText(sheet)))
  <2>1. Items(sheet) = { x \in { asItem(w) : w \in lines } : Both(x) }
    BY DEF Items
  <2>2. \A r \in R : asItem(line(r)) = sent(r)
    OBVIOUS
  <2>3. lines = { line(r) : r \in R }
    BY <1>8
  <2> HIDE DEF asItem, sent, line, lines
  <2>4. { asItem(w) : w \in lines } = { sent(r) : r \in R }
    BY <2>2, <2>3
  <2> QED BY <2>1, <2>4
<1>11. Listed(sheet) = { x \in { seen(r) : r \in R } : Both(x) }
  BY DEF Listed
<1> HIDE DEF sent, seen, Both
<1>12. Items(sheet) = Listed(sheet)
  BY <1>9, <1>10, <1>11
<1> QED BY <1>12 DEF sheet

-----------------------------------------------------------------------------
(* The jobs page.                                                          *)

LEMMA NewJob ==
  ASSUME JobsInv, NEW x, IsJob(x), jobs' = Append(jobs, x), UNCHANGED form
  PROVE  JobsInv'
<1>1. /\ jobs' \in Seq(Range(jobs'))
      /\ Len(jobs') = Len(jobs) + 1 /\ Len(jobs) \in Nat
      /\ \A i \in 1 .. Len(jobs) : jobs'[i] = jobs[i]
      /\ jobs'[Len(jobs) + 1] = x
  BY Appended DEF JobsInv
<1>2. ASSUME NEW j \in 1 .. Len(jobs') PROVE IsJob(jobs'[j])
  <2>1. CASE j \in 1 .. Len(jobs)
    BY <1>1, <2>1 DEF JobsInv
  <2>2. CASE j \notin 1 .. Len(jobs)
    BY <1>1, <2>2
  <2> QED BY <2>1, <2>2
<1> QED BY <1>1, <1>2 DEF JobsInv, IsJob

LEMMA MovedJob ==
  ASSUME JobsInv, NEW i \in 1 .. Len(jobs), NEW to, UNCHANGED form,
         jobs' = [jobs EXCEPT ![i].status = to]
  PROVE  JobsInv'
<1> DEFINE x == [jobs[i] EXCEPT !.status = to]
<1>1. IsJob(jobs[i])
  BY DEF JobsInv
<1>2. IsJob(x)
  BY <1>1 DEF IsJob
<1>3. jobs' = [jobs EXCEPT ![i] = x]
  BY Zenon
<1> HIDE DEF x
<1>a. jobs \in Seq(Range(jobs))
  BY DEF JobsInv
<1>b. /\ [jobs EXCEPT ![i] = x] \in Seq(Range([jobs EXCEPT ![i] = x]))
      /\ Len([jobs EXCEPT ![i] = x]) = Len(jobs)
      /\ \A j \in 1 .. Len(jobs) : [jobs EXCEPT ![i] = x][j] = IF j = i THEN x ELSE jobs[j]
  BY ONLY <1>a, Replaced, i \in 1 .. Len(jobs)
<1>4. /\ jobs' \in Seq(Range(jobs')) /\ Len(jobs') = Len(jobs)
      /\ \A j \in 1 .. Len(jobs) : jobs'[j] = IF j = i THEN x ELSE jobs[j]
  BY <1>3, <1>b
<1>5. \A j \in 1 .. Len(jobs) : IsJob(jobs'[j])
  BY <1>2, <1>4 DEF JobsInv
<1> QED BY <1>4, <1>5 DEF JobsInv, IsJob

\* What the dialog sends is what it shows, in either mode and scope.
LEMMA ConfigAgrees ==
  ASSUME NEW f \in Forms, Submittable(f)
  PROVE  Agrees(Config(f), Shown(f))
BY DEF Forms, Submittable, Agrees, Config, Shown, Once

LEMMA ReloadedIsGood ==
  ASSUME NEW n, NEW t, NEW p, NEW state, NEW pg, NEW tn, NEW sel, GoodNet(n, pg, tn, sel),
         Reloaded(n, t, p, state)
  PROVE  GoodNet(net', pg, tn, sel)
<1>1. Plain("jobs")
  BY DEF Plain
<1>2. net' = n \/ net' = Sent(n, "jobs", [tenant |-> t, page |-> p])
  BY DEF Reloaded, Loading
<1> QED BY <1>1, <1>2, PlainSentIsGood

LEMMA EditedForm ==
  ASSUME form = Closed \/ form \in Forms, EditForm
  PROVE  form' \in Forms
<1>1. form \in Forms
  BY DEF EditForm, Closed
<1>2. CASE form' = [form EXCEPT !.named = ~@]
  BY <1>1, <1>2 DEF Forms
<1>3. CASE PickMode
  BY <1>1, <1>3 DEF Forms, PickMode
<1>4. CASE PickLabel
  BY <1>1, <1>4 DEF Forms, PickLabel
<1>5. CASE PickScope
  <2> PICK c \in {"all", "sites"} : form' = SiteSearch([form EXCEPT !.scope = c])
    BY <1>5 DEF PickScope
  <2> DEFINE g == [form EXCEPT !.scope = c]
  <2>1. g \in Forms
    BY <1>1 DEF Forms
  <2> HIDE DEF g
  <2>2. SiteSearch(g) \in Forms
    BY <2>1 DEF Forms, SiteSearch
  <2> QED BY <2>2 DEF g
<1>6. CASE TypeSearch
  <2> PICK q \in {"", "hr"} : form' = SiteSearch([form EXCEPT !.search = q])
    BY <1>6 DEF TypeSearch
  <2> DEFINE g == [form EXCEPT !.search = q]
  <2>1. g \in Forms
    BY <1>1 DEF Forms
  <2> HIDE DEF g
  <2>2. SiteSearch(g) \in Forms
    BY <2>1 DEF Forms, SiteSearch
  <2> QED BY <2>2 DEF g
<1>7. CASE form' = [form EXCEPT !.dryRun = ~@]
  BY <1>1, <1>7 DEF Forms
<1>8. CASE PickSchedule
  <2>1. CASE form' = [form EXCEPT !.scheduled = ~@]
    BY <1>1, <2>1 DEF Forms
  <2>2. ASSUME NEW p \in {"weekly", "monthly", "custom"},
               form' = [form EXCEPT !.preset = p,
                                    !.cron = IF CRON_PRESETS[p] = "" THEN @ ELSE CRON_PRESETS[p]]
        PROVE  form' \in Forms
    <3> DEFINE c == IF CRON_PRESETS[p] = "" THEN form.cron ELSE CRON_PRESETS[p]
    <3>1. c \in {"", "weekly", "monthly", "typed", "malformed"}
      <4>1. form.cron \in {"", "weekly", "monthly", "typed", "malformed"}
        BY <1>1 DEF Forms
      <4>2. /\ CRON_PRESETS["weekly"] = "weekly" /\ CRON_PRESETS["monthly"] = "monthly"
            /\ CRON_PRESETS["custom"] = ""
        BY DEF CRON_PRESETS
      <4> QED BY ONLY <4>1, <4>2, p \in {"weekly", "monthly", "custom"}
    <3>2. form' = [form EXCEPT !.preset = p, !.cron = c]
      BY <2>2
    <3> HIDE DEF c
    <3> QED BY <1>1, <3>1, <3>2 DEF Forms
  <2>3. ASSUME NEW c \in {"", "typed", "malformed"}, form' = [form EXCEPT !.cron = c]
        PROVE  form' \in Forms
    BY <1>1, <2>3 DEF Forms
  <2>4. DOMAIN CRON_PRESETS = {"weekly", "monthly", "custom"}
    BY DEF CRON_PRESETS
  <2> QED BY <1>8, <2>1, <2>2, <2>3, <2>4 DEF PickSchedule
<1>9. CASE ToggleSite
  <2> PICK x \in form.options :
        form' = [form EXCEPT !.sites = IF x \in @ THEN @ \ {x} ELSE @ \cup {x}]
    BY <1>9 DEF ToggleSite
  <2> DEFINE S == IF x \in form.sites THEN form.sites \ {x} ELSE form.sites \cup {x}
  <2>1. S \in SUBSET Site
    BY <1>1 DEF Forms
  <2>2. form' = [form EXCEPT !.sites = S]
    OBVIOUS
  <2> HIDE DEF S
  <2> QED BY <1>1, <2>1, <2>2 DEF Forms
<1> QED BY <1>2, <1>3, <1>4, <1>5, <1>6, <1>7, <1>8, <1>9 DEF EditForm

\* The sites that are found are sites, and the answers reach a dialog only.
LEMMA LookedUp ==
  ASSUME form = Closed \/ form \in Forms, NEW s, TakeLookup(s)
  PROVE  form' = Closed \/ form' \in Forms
<1>1. CASE form' = form
  BY <1>1
<1>2. CASE form \in Forms /\ form' # form
  BY <1>2 DEF TakeLookup, Forms
<1>3. CASE form = Closed /\ form' # form
  <2>1. PICK o : form' = [Closed EXCEPT !.options = o]
    BY <1>3 DEF TakeLookup
  <2>2. [Closed EXCEPT !.options = o] = Closed
    BY Zenon DEF Closed
  <2> QED BY <2>1, <2>2
<1> QED BY <1>1, <1>2, <1>3

LEMMA JobsClicksStep ==
  ASSUME WebInv, JobsClicks, UNCHANGED <<policiesVars, autoLabelVars, otherVars>>
  PROVE  WebInv'
<1>0. /\ GoodNet(net, page, tenant, view.sel) /\ JobsInv /\ PoliciesInv
      /\ PoliciesInv' /\ UNCHANGED view
  BY PoliciesStay DEF WebInv, NetInv, policiesVars, otherVars, viewVars
<1> DEFINE G(n) == GoodNet(n, page, tenant, view.sel)
<1>p. Plain("jobs") /\ Plain("labels") /\ Plain("results")
  BY DEF Plain
<1>1. CASE SelectTenant
  <2>1. page = "jobs" /\ UNCHANGED <<page, jobs, form>>
    BY <1>1 DEF SelectTenant
  <2>2. G(net')
    BY <1>0, <1>1, ReloadedIsGood DEF SelectTenant
  <2> QED BY <1>0, <2>1, <2>2, JobsStay, NothingElse
<1>2. CASE TurnPage
  <2>1. G(net')
    BY <1>0, <1>2, ReloadedIsGood DEF TurnPage
  <2>2. UNCHANGED <<page, tenant, jobs, form>>
    BY <1>2 DEF TurnPage
  <2> QED BY <1>0, <2>1, <2>2, JobsStay, NothingElse
<1>3. CASE DoAction
  <2>1. PICK i, action :
          net' = Sent(net, "act", [tenant |-> tenant, page |-> jp.page,
                                   job |-> jp.rows[i].id, action |-> action])
    BY <1>3 DEF DoAction
  <2> DEFINE a == [tenant |-> tenant, page |-> jp.page, job |-> jp.rows[i].id,
                   action |-> action]
  <2>2. GoodCall(NewCall("act", a), page, tenant, view.sel)
    BY DEF GoodCall, SoundCall, TimelyCall, NewCall
  <2>3. G(net')
    BY <1>0, <2>1, <2>2, SentIsGood
  <2>4. UNCHANGED <<page, tenant, jobs, form>>
    BY <1>3 DEF DoAction
  <2> QED BY <1>0, <2>3, <2>4, JobsStay, NothingElse
<1>4. CASE OpenForm
  <2>1. G(net')
    BY <1>0, <1>4, <1>p, PlainSentIsGood DEF OpenForm
  <2>2. UNCHANGED <<page, tenant, jobs>> /\ form' = NewForm
    BY <1>4 DEF OpenForm
  <2>3. NewForm \in Forms
    BY DEF Forms, NewForm
  <2>4. JobsInv'
    BY <1>0, <2>2, <2>3 DEF JobsInv, IsJob
  <2> QED BY <1>0, <2>1, <2>2, <2>4, NothingElse
<1>5. CASE CloseForm
  <2>1. G(net')
    BY <1>0, <1>5, AbortedIsGood DEF CloseForm
  <2>2. UNCHANGED <<page, tenant, jobs>> /\ form' = Closed
    BY <1>5 DEF CloseForm
  <2>3. JobsInv'
    BY <1>0, <2>2 DEF JobsInv, IsJob
  <2> QED BY <1>0, <2>1, <2>2, <2>3, NothingElse
<1>6. CASE EditForm
  <2>1. form' \in Forms
    BY <1>0, <1>6, EditedForm DEF JobsInv
  <2>2. UNCHANGED <<page, tenant, net, jobs>>
    BY <1>6 DEF EditForm
  <2>3. JobsInv'
    BY <1>0, <2>1, <2>2 DEF JobsInv, IsJob
  <2> QED BY <1>0, <2>2, <2>3, NothingElse
<1>7. CASE SubmitForm
  <2> DEFINE a == [tenant |-> tenant, page |-> jp.page, config |-> Config(form),
                   asked |-> Shown(form)]
  <2>1. form \in Forms /\ Submittable(form) /\ net' = Sent(net, "create", a)
    BY <1>0, <1>7 DEF SubmitForm, JobsInv, Closed
  <2>2. Agrees(a.config, a.asked)
    BY <2>1, ConfigAgrees
  <2>3. GoodCall(NewCall("create", a), page, tenant, view.sel)
    <3> HIDE DEF a
    <3> QED BY <2>2 DEF GoodCall, SoundCall, TimelyCall, NewCall
  <2>4. G(net')
    BY <1>0, <2>1, <2>3, SentIsGood
  <2>5. UNCHANGED <<page, tenant, jobs, form>>
    BY <1>7 DEF SubmitForm
  <2> QED BY <1>0, <2>4, <2>5, JobsStay, NothingElse
<1>8. CASE OpenPanel
  <2>1. UNCHANGED <<page, tenant, net, jobs, form>>
    BY <1>8 DEF OpenPanel
  <2> QED BY <1>0, <2>1, JobsStay, NothingElse
<1>9. CASE ClosePanel
  <2>1. UNCHANGED <<page, tenant, jobs, form>> /\ G(net')
    BY <1>0, <1>9, AbortedIsGood DEF ClosePanel
  <2> QED BY <1>0, <2>1, JobsStay, NothingElse
<1>10. CASE BrowseResults
  <2>1. PICK p : PanelLoads(p)
    BY <1>10 DEF BrowseResults
  <2>2. G(net')
    BY <1>0, <1>p, <2>1, PlainSentIsGood DEF PanelLoads
  <2>3. UNCHANGED <<page, tenant, jobs, form>>
    BY <1>10 DEF BrowseResults
  <2> QED BY <1>0, <2>2, <2>3, JobsStay, NothingElse
<1> QED BY <1>1, <1>2, <1>3, <1>4, <1>5, <1>6, <1>7, <1>8, <1>9, <1>10 DEF JobsClicks

\* The server's answer to a call that is not for the policies.
LEMMA AnsweredIsGood ==
  ASSUME NEW s \in Slot, NEW v, NEW pg, NEW tn, NEW sel, GoodNet(net, pg, tn, sel),
         Reply(s, v) \/ Refuse(s), net[s].op \notin {"policies", "report"}
  PROVE  GoodNet(net', pg, tn, sel)
<1>1. CASE Reply(s, v)
  BY <1>1, RepliedIsGood DEF Reply
<1>2. CASE Refuse(s)
  BY <1>2, RefusedIsGood DEF Refuse
<1> QED BY <1>1, <1>2

LEMMA ServeActionStep ==
  ASSUME NEW s \in Slot, JobsInv, ServeAction(s)
  PROVE  JobsInv'
<1> DEFINE a == net[s].arg
<1>1. UNCHANGED form
  BY DEF ServeAction
<1>2. CASE UNCHANGED jobs
  BY <1>1, <1>2, JobsStay
<1>3. CASE /\ JobOf(a.tenant, a.job)
           /\ \/ \E to : jobs' = [jobs EXCEPT ![a.job].status = to]
              \/ jobs' = Append(jobs, [jobs[a.job] EXCEPT !.status = "pending"])
  <2>1. a.job \in 1 .. Len(jobs)
    BY <1>3 DEF JobOf
  <2>3. CASE \E to : jobs' = [jobs EXCEPT ![a.job].status = to]
    <3> PICK to : jobs' = [jobs EXCEPT ![a.job].status = to]
      BY <2>3
    <3> HIDE DEF a
    <3> QED BY <1>1, <2>1, MovedJob
  <2>4. CASE jobs' = Append(jobs, [jobs[a.job] EXCEPT !.status = "pending"])
    <3> DEFINE x == [jobs[a.job] EXCEPT !.status = "pending"]
    <3>1. IsJob(x)
      BY <2>1 DEF JobsInv, IsJob
    <3>2. jobs' = Append(jobs, x)
      BY <2>4
    <3> HIDE DEF x, a
    <3> QED BY <1>1, <3>1, <3>2, NewJob
  <2> QED BY <1>3, <2>3, <2>4
<1> QED BY <1>2, <1>3 DEF ServeAction

LEMMA JobsServesStep ==
  ASSUME WebInv, NEW s \in Slot, JobsServes(s),
         UNCHANGED <<policiesVars, autoLabelVars, otherVars>>
  PROVE  WebInv'
<1>0. /\ NetInv /\ GoodNet(net, page, tenant, view.sel) /\ JobsInv /\ PoliciesInv
      /\ PoliciesInv' /\ UNCHANGED view
  BY PoliciesStay DEF WebInv, NetInv, policiesVars, otherVars, viewVars
<1> DEFINE G(n) == GoodNet(n, page, tenant, view.sel)
<1>1. CASE ServeJobs(s)
  <2>1. UNCHANGED <<page, tenant, jobs, form>>
    BY <1>1 DEF ServeJobs, jobsVars
  <2>2. G(net')
    BY <1>0, <1>1, AnsweredIsGood DEF ServeJobs, Asked
  <2> QED BY <1>0, <2>1, <2>2, JobsStay, NothingElse
<1>2. CASE ServeAction(s)
  <2>1. UNCHANGED <<page, tenant>>
    BY <1>2 DEF ServeAction
  <2>2. G(net')
    BY <1>0, <1>2, AnsweredIsGood DEF ServeAction, Asked
  <2> QED BY <1>0, <1>2, <2>1, <2>2, ServeActionStep, NothingElse
<1>3. CASE ServeCreate(s)
  <2>1. UNCHANGED <<page, tenant, form>>
    BY <1>3 DEF ServeCreate
  <2>2. G(net')
    BY <1>0, <1>3, AnsweredIsGood DEF ServeCreate, Asked
  <2>3. CASE UNCHANGED jobs
    BY <1>0, <2>1, <2>2, <2>3, JobsStay, NothingElse
  <2>4. CASE ~ UNCHANGED jobs
    <3> DEFINE x == [tenant |-> net[s].arg.tenant, status |-> "pending",
                     config |-> net[s].arg.config, asked |-> net[s].arg.asked]
    <3>1. jobs' = Append(jobs, x)
      BY <1>3, <2>4 DEF ServeCreate
    <3>2. Agrees(net[s].arg.config, net[s].arg.asked)
      BY <1>0, <1>3 DEF ServeCreate, Asked, NetInv, GoodNet, GoodCall, SoundCall
    <3>3. IsJob(x)
      BY <3>2 DEF IsJob
    <3> HIDE DEF x
    <3>4. JobsInv'
      BY <1>0, <2>1, <3>1, <3>3, NewJob
    <3> QED BY <1>0, <2>1, <2>2, <3>4, NothingElse
  <2> QED BY <2>3, <2>4
<1>4. CASE ServeLookup(s)
  <2>1. UNCHANGED <<page, tenant, jobs, form>>
    BY <1>4 DEF ServeLookup, jobsVars
  <2>2. G(net')
    BY <1>0, <1>4, AnsweredIsGood DEF ServeLookup, Asked
  <2> QED BY <1>0, <2>1, <2>2, JobsStay, NothingElse
<1> QED BY <1>1, <1>2, <1>3, <1>4 DEF JobsServes

\* Lists, lookups and results ask for nothing the invariant speaks of.
LEMMA JobsTakesStep ==
  ASSUME WebInv, NEW s \in Slot, JobsTakes(s),
         UNCHANGED <<policiesVars, autoLabelVars, otherVars>>
  PROVE  WebInv'
<1>0. /\ GoodNet(net, page, tenant, view.sel) /\ JobsInv /\ PoliciesInv
      /\ PoliciesInv' /\ UNCHANGED view
  BY PoliciesStay DEF WebInv, NetInv, policiesVars, otherVars, viewVars
<1> DEFINE G(n) == GoodNet(n, page, tenant, view.sel)
<1>d. G(Done(net, s))
  BY <1>0, DoneIsGood
<1>p. Plain("jobs") /\ Plain("reload")
  BY DEF Plain
<1>1. CASE TakeTenants(s)
  <2>1. page = "jobs" /\ UNCHANGED <<page, jobs, form>>
    BY <1>1 DEF TakeTenants
  <2>2. G(net')
    BY <1>d, <1>1, ReloadedIsGood DEF TakeTenants
  <2> QED BY <1>0, <2>1, <2>2, JobsStay, NothingElse
<1>2. CASE TakeJobs(s)
  <2>1. UNCHANGED <<page, tenant, jobs, form>> /\ G(net')
    BY <1>d, <1>2 DEF TakeJobs
  <2> QED BY <1>0, <2>1, JobsStay, NothingElse
<1>3. CASE TakeAction(s)
  <2>1. UNCHANGED <<page, tenant, jobs, form>>
    BY <1>3 DEF TakeAction
  <2>2. G(net')
    BY <1>d, <1>p, <1>3, PlainSentIsGood DEF TakeAction, Loading
  <2> QED BY <1>0, <2>1, <2>2, JobsStay, NothingElse
<1>4. CASE TakeLookup(s)
  <2>1. UNCHANGED <<page, tenant, jobs>> /\ G(net')
    BY <1>d, <1>4 DEF TakeLookup
  <2>0. form = Closed \/ form \in Forms
    BY <1>0 DEF JobsInv
  <2>2. form' = Closed \/ form' \in Forms
    BY <1>4, <2>0, LookedUp
  <2>3. JobsInv'
    BY <1>0, <2>1, <2>2 DEF JobsInv, IsJob
  <2> QED BY <1>0, <2>1, <2>3, NothingElse
<1>5. CASE TakeCreated(s)
  <2>1. UNCHANGED <<page, tenant, jobs>> /\ (form' = form \/ form' = Closed)
    BY <1>5 DEF TakeCreated
  <2>2. JobsInv'
    BY <1>0, <2>1 DEF JobsInv, IsJob
  <2>3. G(Aborted(Done(net, s), {"labels", "sites"}))
    BY <1>d, AbortedIsGood
  <2>4. G(net')
    BY <1>d, <1>p, <1>5, <2>3, PlainSentIsGood DEF TakeCreated, Loading
  <2> QED BY <1>0, <2>1, <2>2, <2>4, NothingElse
<1>6. CASE TakeResults(s)
  <2>1. UNCHANGED <<page, tenant, jobs, form>> /\ G(net')
    BY <1>d, <1>6 DEF TakeResults
  <2> QED BY <1>0, <2>1, JobsStay, NothingElse
<1> QED BY <1>1, <1>2, <1>3, <1>4, <1>5, <1>6 DEF JobsTakes

LEMMA SearchSitesStep ==
  ASSUME WebInv, SearchSites, UNCHANGED <<policiesVars, autoLabelVars, otherVars>>
  PROVE  WebInv'
<1>0. /\ GoodNet(net, page, tenant, view.sel) /\ JobsInv /\ PoliciesInv
      /\ PoliciesInv' /\ UNCHANGED view
  BY PoliciesStay DEF WebInv, NetInv, policiesVars, otherVars, viewVars
<1>1. UNCHANGED <<page, tenant, jobs>>
  BY DEF SearchSites
<1>2. form' \in Forms
  <2>1. form \in Forms
    BY <1>0 DEF SearchSites, JobsInv, Closed
  <2> QED BY <2>1 DEF SearchSites, Forms
<1>3. JobsInv'
  BY <1>0, <1>1, <1>2 DEF JobsInv, IsJob
<1>4. GoodNet(net', page, tenant, view.sel)
  BY <1>0, PlainSentIsGood DEF SearchSites, Plain
<1> QED BY <1>0, <1>1, <1>3, <1>4, NothingElse

LEMMA WorkerStep ==
  ASSUME WebInv, Worker
  PROVE  WebInv'
<1>0. /\ GoodNet(net, page, tenant, view.sel) /\ JobsInv /\ PoliciesInv
      /\ PoliciesInv' /\ UNCHANGED <<view, page, tenant, net, form>>
  BY PoliciesStay
  DEF Worker, WorkerMoves, WebInv, NetInv, session, policiesVars, otherVars, viewVars
<1>1. PICK j \in 1 .. Len(jobs), e \in WorkerEdges : jobs' = [jobs EXCEPT ![j].status = e[2]]
  BY DEF Worker, WorkerMoves
<1>2. JobsInv'
  BY <1>0, <1>1, MovedJob
<1> QED BY <1>0, <1>2, NothingElse

-----------------------------------------------------------------------------
(* The Auto-Label page.                                                    *)

LEMMA AutoLabelClicksStep ==
  ASSUME WebInv, BoxInv, AutoLabelClicks, UNCHANGED otherVars
  PROVE  WebInv'
<1>0. /\ GoodNet(net, page, tenant, view.sel) /\ JobsInv /\ PoliciesInv
      /\ JobsInv' /\ PoliciesInv' /\ UNCHANGED view
  BY PoliciesStay, JobsStay
  DEF WebInv, NetInv, AutoLabelClicks, policiesVars, jobsVars, otherVars, viewVars
<1> DEFINE G(n) == GoodNet(n, page, tenant, view.sel)
<1>p. Plain("overview") /\ Plain("upload")
  BY DEF Plain
<1>1. CASE AutoLabelSelectTenant
  <2>1. page = "auto-label" /\ UNCHANGED page
    BY <1>1 DEF AutoLabelSelectTenant
  <2>2. G(net')
    BY <1>0, <1>1, <1>p, PlainSentIsGood DEF AutoLabelSelectTenant, LoadOverview
  <2> QED BY <1>0, <2>1, <2>2, NothingElse
<1>2. CASE QuickStartJob
  <2>1. PICK dryRun \in BOOLEAN :
          net' = Sent(net, "create",
            [tenant |-> tenant, page |-> 1,
             config |-> [UploadConfig EXCEPT !.use_policies = TRUE, !.dry_run = dryRun,
                                             !.target_label_id = FALSE],
             asked |-> [UploadShown EXCEPT !.labels = "by policy", !.dryRun = dryRun]])
    BY <1>2 DEF QuickStartJob
  <2> DEFINE config == [UploadConfig EXCEPT !.use_policies = TRUE, !.dry_run = dryRun,
                                            !.target_label_id = FALSE]
             asked == [UploadShown EXCEPT !.labels = "by policy", !.dryRun = dryRun]
             a == [tenant |-> tenant, page |-> 1, config |-> config, asked |-> asked]
  <2>2. Agrees(config, asked)
    <3>1. /\ config.use_policies = TRUE /\ config.target_label_id = FALSE
          /\ config.site_ids = {} /\ config.dry_run = dryRun
          /\ config.schedule_cron = Once
      BY DEF UploadConfig
    <3>2. /\ asked.labels = "by policy" /\ asked.sites = {} /\ asked.dryRun = dryRun
          /\ asked.cron = Once
      BY DEF UploadShown
    <3> HIDE DEF config, asked
    <3> QED BY <3>1, <3>2 DEF Agrees, Once
  <2>3. a.config = config /\ a.asked = asked /\ net' = Sent(net, "create", a)
    BY <2>1
  <2> HIDE DEF config, asked, a
  <2>4. GoodCall(NewCall("create", a), page, tenant, view.sel)
    BY <2>2, <2>3 DEF GoodCall, SoundCall, TimelyCall, NewCall
  <2>5. G(net') /\ UNCHANGED <<page, tenant>>
    BY <1>0, <1>2, <2>3, <2>4, SentIsGood DEF QuickStartJob
  <2> QED BY <1>0, <2>5, NothingElse
<1>3. CASE OpenBox
  <2>1. UNCHANGED <<page, tenant, net>>
    BY <1>3 DEF OpenBox
  <2> QED BY <1>0, <2>1, NothingElse
<1>4. CASE CloseBox
  <2>1. G(net') /\ UNCHANGED <<page, tenant>>
    BY <1>0, <1>4, <1>p, PlainSentIsGood DEF CloseBox, LoadOverview
  <2> QED BY <1>0, <2>1, NothingElse
<1>5. CASE FillBox
  <2>1. UNCHANGED <<page, tenant, net>>
    BY <1>5 DEF FillBox
  <2> QED BY <1>0, <2>1, NothingElse
<1>6. CASE SendBox
  <2>0. UNCHANGED <<page, tenant>>
    BY <1>6 DEF SendBox
  <2>1. CASE UNCHANGED net
    BY <1>0, <2>0, <2>1, NothingElse
  <2>2. CASE \E a : net' = Sent(net, "upload", a)
    <3>1. G(net')
      BY <1>0, <1>p, <2>2, PlainSentIsGood
    <3> QED BY <1>0, <2>0, <3>1, NothingElse
  <2>3. CASE ~ UNCHANGED net /\ box.kind # "upload"
    <3> DEFINE a == [tenant |-> tenant, instance |-> al.instance, mode |-> box.mode,
                     items |-> Items(Sheets[box.file]), sheet |-> box.file]
    <3>1. /\ box.kind # "none" /\ box.file # 0 /\ ~Unusable(Sheets[box.file])
          /\ net' = Sent(net, "remove", a)
      BY <1>6, <2>3 DEF SendBox
    <3>2. box.file \in 1 .. Len(Sheets)
      BY <3>1 DEF BoxInv
    <3>3. OneLineCells(Sheets[a.sheet]) => a.items = Listed(Sheets[a.sheet])
      BY <3>1, <3>2, ItemsAreListed
    <3> HIDE DEF a
    <3>4. GoodCall(NewCall("remove", a), page, tenant, view.sel)
      BY <3>3 DEF GoodCall, SoundCall, TimelyCall, NewCall
    <3>5. G(net')
      BY <1>0, <3>1, <3>4, SentIsGood
    <3> QED BY <1>0, <2>0, <3>5, NothingElse
  <2> QED BY <1>6, <2>1, <2>2, <2>3 DEF SendBox
<1> QED BY <1>1, <1>2, <1>3, <1>4, <1>5, <1>6 DEF AutoLabelClicks

LEMMA AutoLabelTakesStep ==
  ASSUME WebInv, NEW s \in Slot, AutoLabelTakes(s), UNCHANGED otherVars
  PROVE  WebInv'
<1>0. /\ GoodNet(net, page, tenant, view.sel) /\ JobsInv' /\ PoliciesInv'
      /\ UNCHANGED view
  BY PoliciesStay, JobsStay
  DEF WebInv, NetInv, AutoLabelTakes, policiesVars, jobsVars, otherVars, viewVars
<1> DEFINE G(n) == GoodNet(n, page, tenant, view.sel)
<1>d. G(Done(net, s)) /\ Plain("overview")
  BY <1>0, DoneIsGood DEF Plain
<1>1. CASE AutoLabelTakeTenants(s)
  <2>1. page = "auto-label" /\ UNCHANGED page
    BY <1>1 DEF AutoLabelTakeTenants
  <2>2. G(net')
    BY <1>d, <1>1, PlainSentIsGood DEF AutoLabelTakeTenants, LoadOverview
  <2> QED BY <1>0, <2>1, <2>2, NothingElse
<1>2. CASE TakeOverview(s)
  <2>1. UNCHANGED <<page, tenant>> /\ G(net')
    BY <1>d, <1>2 DEF TakeOverview
  <2> QED BY <1>0, <2>1, NothingElse
<1>3. CASE TakeQuickStart(s)
  <2>1. UNCHANGED <<page, tenant>> /\ G(net')
    BY <1>d, <1>3, PlainSentIsGood DEF TakeQuickStart, LoadOverview
  <2> QED BY <1>0, <2>1, NothingElse
<1>4. CASE TakeBox(s)
  <2>1. UNCHANGED <<page, tenant>> /\ G(net')
    BY <1>d, <1>4 DEF TakeBox
  <2> QED BY <1>0, <2>1, NothingElse
<1> QED BY <1>1, <1>2, <1>3, <1>4 DEF AutoLabelTakes

LEMMA ServeOverviewStep ==
  ASSUME WebInv, NEW s \in Slot, ServeOverview(s), UNCHANGED otherVars
  PROVE  WebInv'
<1>1. /\ GoodNet(net, page, tenant, view.sel) /\ JobsInv' /\ PoliciesInv'
      /\ UNCHANGED <<view, page, tenant>>
  BY PoliciesStay, JobsStay
  DEF WebInv, NetInv, ServeOverview, policiesVars, jobsVars, otherVars, viewVars
<1>2. GoodNet(net', page, tenant, view.sel)
  BY <1>1, AnsweredIsGood DEF ServeOverview, Asked
<1> QED BY <1>1, <1>2, NothingElse

LEMMA ServeSheetsStep ==
  ASSUME WebInv, NEW s \in Slot, ServeSheets(s), UNCHANGED otherVars
  PROVE  WebInv'
<1>1. /\ GoodNet(net, page, tenant, view.sel) /\ JobsInv /\ PoliciesInv'
      /\ UNCHANGED <<view, page, tenant, form>>
  BY PoliciesStay DEF WebInv, NetInv, ServeSheets, policiesVars, otherVars, viewVars
<1>2. GoodNet(net', page, tenant, view.sel)
  BY <1>1, AnsweredIsGood DEF ServeSheets, Asked
<1>3. CASE UNCHANGED jobs
  BY <1>1, <1>2, <1>3, JobsStay, NothingElse
<1>4. CASE ~ UNCHANGED jobs
  <2> DEFINE x == [tenant |-> net[s].arg.tenant, status |-> "pending",
                   config |-> UploadConfig, asked |-> UploadShown]
  <2>1. jobs' = Append(jobs, x)
    BY <1>4 DEF ServeSheets
  <2>2. Agrees(UploadConfig, UploadShown)
    BY DEF Agrees, UploadConfig, UploadShown, Once
  <2>3. IsJob(x)
    BY <2>2 DEF IsJob
  <2> HIDE DEF x
  <2>4. JobsInv'
    BY <1>1, <2>1, <2>3, NewJob
  <2> QED BY <1>1, <1>2, <2>4, NothingElse
<1> QED BY <1>3, <1>4

-----------------------------------------------------------------------------
(* The security page.                                                      *)

LEMMA SecurityClicksStep ==
  ASSUME WebInv, SecurityClicks, UNCHANGED <<mainVars, view>>
  PROVE  WebInv'
<1>0. /\ GoodNet(net, page, tenant, view.sel) /\ JobsInv' /\ PoliciesInv'
      /\ UNCHANGED view
  BY PoliciesStay, JobsStay DEF WebInv, NetInv, mainVars, policiesVars, jobsVars
<1> DEFINE G(n) == GoodNet(n, page, tenant, view.sel)
<1>p. /\ Plain("users") /\ Plain("tenantList") /\ Plain("disconnect") /\ Plain("access")
      /\ Plain("resolve") /\ Plain("connect")
  BY DEF Plain
<1>1. CASE SwitchTab
  <2>1. G(Aborted(net, SecurityReads))
    BY <1>0, AbortedIsGood
  <2>2. G(net') /\ UNCHANGED <<page, tenant>>
    BY <1>1, <1>p, <2>1, PlainSentIsGood DEF SwitchTab, MountSecurity
  <2> QED BY <1>0, <2>2, NothingElse
<1>2. CASE Disconnect
  <2>1. G(net') /\ UNCHANGED <<page, tenant>>
    BY <1>0, <1>2, <1>p, PlainSentIsGood DEF Disconnect
  <2> QED BY <1>0, <2>1, NothingElse
<1>3. CASE ToggleExpand
  <2>1. G(net') /\ UNCHANGED <<page, tenant>>
    BY <1>0, <1>3, <1>p, PlainSentIsGood DEF ToggleExpand
  <2> QED BY <1>0, <2>1, NothingElse
<1>4. CASE OpenConnect
  <2>1. UNCHANGED <<page, tenant, net>>
    BY <1>4 DEF OpenConnect
  <2> QED BY <1>0, <2>1, NothingElse
<1>5. CASE CloseConnect
  <2>1. G(net') /\ UNCHANGED <<page, tenant>>
    BY <1>0, <1>5, AbortedIsGood DEF CloseConnect
  <2> QED BY <1>0, <2>1, NothingElse
<1>6. CASE TypeTenant
  <2>1. UNCHANGED <<page, tenant, net>>
    BY <1>6 DEF TypeTenant
  <2> QED BY <1>0, <2>1, NothingElse
<1>7. CASE ResolveDomain
  <2>1. G(net') /\ UNCHANGED <<page, tenant>>
    BY <1>0, <1>7, <1>p, PlainSentIsGood DEF ResolveDomain
  <2> QED BY <1>0, <2>1, NothingElse
<1>8. CASE SubmitConnect
  <2>1. G(net') /\ UNCHANGED <<page, tenant>>
    BY <1>0, <1>8, <1>p, PlainSentIsGood DEF SubmitConnect
  <2> QED BY <1>0, <2>1, NothingElse
<1> QED BY <1>1, <1>2, <1>3, <1>4, <1>5, <1>6, <1>7, <1>8 DEF SecurityClicks

LEMMA SecurityTakesStep ==
  ASSUME WebInv, NEW s \in Slot, SecurityTakes(s), UNCHANGED <<mainVars, view>>
  PROVE  WebInv'
<1>1. /\ GoodNet(net, page, tenant, view.sel) /\ JobsInv' /\ PoliciesInv'
      /\ UNCHANGED <<view, page, tenant>>
  BY PoliciesStay, JobsStay
  DEF WebInv, NetInv, SecurityTakes, mainVars, policiesVars, jobsVars
<1> DEFINE G(n) == GoodNet(n, page, tenant, view.sel)
<1>2. G(Done(net, s)) /\ G(Aborted(Done(net, s), {"resolve"})) /\ Plain("tenantList")
  BY <1>1, DoneIsGood, AbortedIsGood DEF Plain
<1>3. ASSUME TakeConnection(s) PROVE G(net')
  BY <1>2, <1>3, PlainSentIsGood DEF TakeConnection, MountSecurity
<1>4. G(net')
  BY <1>2, <1>3 DEF SecurityTakes, TakeTenantList, TakeUsers, TakeAccess, TakeResolved
<1> QED BY <1>1, <1>4, NothingElse

\* The catalog's policies of a tenant that is connected.
LEMMA SeededPolicies ==
  ASSUME NEW t
  PROVE  /\ Seeded(t) \in Seq(Range(Seeded(t)))
         /\ \A i \in 1 .. Len(Seeded(t)) : IsPolicy(Seeded(t)[i])
<1> DEFINE types == SetToSeq(Sit)
           q == Seeded(t)
           p(i) == [tenant |-> t, name |-> types[i], enabled |-> FALSE, builtin |-> TRUE,
                    rules |-> SitRules(types[i]), gone |-> FALSE]
<1>1. Len(types) \in Nat
  <2>1. IsFiniteSet(Sit) /\ Cardinality(Sit) \in Nat
    BY FirstPoliciesAssumption, FS_CardinalityType
  <2>2. \E f \in [1 .. Cardinality(Sit) -> Sit] : IsInjective(f)
    <3>1. ExistsBijection(1 .. Cardinality(Sit), Sit)
      BY <2>1, FS_NatBijection, FS_CountingElements
    <3>2. PICK f : f \in Bijection(1 .. Cardinality(Sit), Sit)
      BY <3>1 DEF ExistsBijection
    <3> QED BY <3>2 DEF Bijection, Injection, Surjection, IsInjective
  <2>3. types \in [1 .. Cardinality(Sit) -> Sit]
    BY <2>2 DEF SetToSeq
  <2>4. types \in Seq(Sit)
    BY <2>1, <2>3 DEF Seq
  <2> QED BY <2>4, LenProperties
<1>2. q = [i \in 1 .. Len(types) |-> p(i)]
  BY DEF Seeded
<1> HIDE DEF q, types
<1>3. \A i \in 1 .. Len(types) : IsPolicy(p(i))
  BY DEF IsPolicy, IsRules, SitRules
<1> HIDE DEF p
<1>4. q \in [1 .. Len(types) -> Range(q)]
  BY <1>2 DEF Range
<1>5. q \in Seq(Range(q))
  BY <1>1, <1>4 DEF Seq
<1>6. 1 .. Len(q) = 1 .. Len(types)
  BY <1>4, <1>5, LenProperties
<1> QED BY <1>2, <1>3, <1>5, <1>6 DEF q

LEMMA Joined ==
  ASSUME NEW q, NEW r, q \in Seq(Range(q)), r \in Seq(Range(r))
  PROVE  /\ q \o r \in Seq(Range(q \o r))
         /\ Len(q) \in Nat /\ Len(r) \in Nat /\ Len(q \o r) = Len(q) + Len(r)
         /\ \A i \in 1 .. Len(q) : (q \o r)[i] = q[i]
         /\ \A i \in 1 .. Len(r) : (q \o r)[Len(q) + i] = r[i]
<1> DEFINE S == Range(q) \cup Range(r)
           w == q \o r
<1>1. q \in Seq(S) /\ r \in Seq(S)
  BY SeqMonotonic
<1>2. /\ w \in Seq(S)
      /\ Len(q) \in Nat /\ Len(r) \in Nat /\ Len(w) = Len(q) + Len(r)
      /\ \A i \in 1 .. Len(w) : w[i] = IF i <= Len(q) THEN q[i] ELSE r[i - Len(q)]
  BY <1>1, ConcatProperties, LenProperties
<1> HIDE DEF w, S
<1>3. w \in Seq(Range(w))
  <2>1. w \in [1 .. Len(w) -> S] /\ Len(w) \in Nat
    BY <1>2, LenProperties
  <2>2. w \in [1 .. Len(w) -> Range(w)]
    BY <2>1 DEF Range
  <2> QED BY <2>1, <2>2 DEF Seq
<1>4. \A i \in 1 .. Len(q) : w[i] = q[i]
  BY <1>2
<1>5. ASSUME NEW i \in 1 .. Len(r) PROVE w[Len(q) + i] = r[i]
  <2>1. /\ Len(q) + i \in 1 .. Len(w) /\ ~(Len(q) + i <= Len(q))
        /\ (Len(q) + i) - Len(q) = i
    BY <1>2
  <2> QED BY <1>2, <2>1
<1> QED BY <1>2, <1>3, <1>4, <1>5 DEF w

LEMMA SecurityServesStep ==
  ASSUME WebInv, NEW s \in Slot, SecurityServes(s),
         UNCHANGED <<jobsVars, autoLabelVars, view>>
  PROVE  WebInv'
<1>0. /\ GoodNet(net, page, tenant, view.sel) /\ JobsInv' /\ PoliciesInv
      /\ UNCHANGED <<view, page, tenant, pp, dialog>>
  BY JobsStay DEF WebInv, NetInv, SecurityServes, jobsVars
<1> DEFINE G(n) == GoodNet(n, page, tenant, view.sel)
<1>1. CASE ServeSecurityReads(s)
  <2>1. UNCHANGED policies
    BY <1>1 DEF ServeSecurityReads
  <2>2. net[s].op \notin {"policies", "report"}
    BY <1>1 DEF ServeSecurityReads, Asked, SecurityReads
  <2>3. G(net')
    <3>1. PICK v : Reply(s, v) \/ Refuse(s)
      BY <1>1 DEF ServeSecurityReads
    <3> QED BY <1>0, <2>2, <3>1, AnsweredIsGood
  <2> QED BY <1>0, <2>1, <2>3, PoliciesStay, NothingElse
<1>2. CASE ServeConnect(s)
  <2>1. G(net')
    BY <1>0, <1>2, AnsweredIsGood DEF ServeConnect, Asked
  <2>2. CASE UNCHANGED policies
    BY <1>0, <2>1, <2>2, PoliciesStay, NothingElse
  <2>3. CASE ~ UNCHANGED policies
    <3> DEFINE q == Seeded(net[s].arg.of)
    <3>1. policies' = policies \o q
      BY <1>2, <2>3 DEF ServeConnect
    <3>2. q \in Seq(Range(q)) /\ \A i \in 1 .. Len(q) : IsPolicy(q[i])
      BY SeededPolicies
    <3> HIDE DEF q
    <3>3. policies \in Seq(Range(policies))
      BY <1>0 DEF PoliciesInv
    <3>4. /\ policies' \in Seq(Range(policies'))
          /\ Len(policies) \in Nat /\ Len(q) \in Nat
          /\ Len(policies') = Len(policies) + Len(q)
          /\ \A i \in 1 .. Len(policies) : policies'[i] = policies[i]
          /\ \A i \in 1 .. Len(q) : policies'[Len(policies) + i] = q[i]
      BY <3>1, <3>2, <3>3, Joined
    <3>5. ASSUME NEW i \in 1 .. Len(policies') PROVE IsPolicy(policies'[i])
      <4>1. CASE i \in 1 .. Len(policies)
        BY <1>0, <3>4, <4>1 DEF PoliciesInv
      <4>2. CASE i \notin 1 .. Len(policies)
        <5>1. i - Len(policies) \in 1 .. Len(q) /\ Len(policies) + (i - Len(policies)) = i
          BY <3>4, <4>2
        <5>2. policies'[i] = q[i - Len(policies)]
          BY <3>4, <5>1
        <5> QED BY <3>2, <5>1, <5>2
      <4> QED BY <4>1, <4>2
    <3>6. PoliciesInv'
      BY <1>0, <3>4, <3>5 DEF PoliciesInv, IsPolicy
    <3> QED BY <1>0, <2>1, <3>6, NothingElse
  <2> QED BY <2>2, <2>3
<1>3. CASE ServeDisconnect(s)
  <2>1. G(net')
    BY <1>0, <1>3, AnsweredIsGood DEF ServeDisconnect, Asked
  <2>2. CASE UNCHANGED policies
    BY <1>0, <2>1, <2>2, PoliciesStay, NothingElse
  <2>3. CASE ~ UNCHANGED policies
    <3> DEFINE t == net[s].arg.of
               p(i) == IF policies[i].tenant = t THEN [policies[i] EXCEPT !.gone = TRUE]
                                                 ELSE policies[i]
    <3>1. policies' = [i \in DOMAIN policies |-> p(i)]
      BY <1>3, <2>3 DEF ServeDisconnect
    <3>2. /\ DOMAIN policies = 1 .. Len(policies) /\ Len(policies) \in Nat
          /\ policies \in Seq(Range(policies))
      BY <1>0, LenProperties DEF PoliciesInv
    <3>3. ASSUME NEW i \in 1 .. Len(policies) PROVE IsPolicy(p(i))
      <4>1. IsPolicy(policies[i])
        BY <1>0 DEF PoliciesInv
      <4> QED BY <4>1 DEF IsPolicy
    <3> HIDE DEF p, t
    <3>4. policies' \in [1 .. Len(policies) -> Range(policies')]
      BY <3>1, <3>2 DEF Range
    <3>5. policies' \in Seq(Range(policies'))
      BY <3>2, <3>4 DEF Seq
    <3>6. 1 .. Len(policies') = 1 .. Len(policies)
      BY <3>4, <3>5, LenProperties
    <3>7. \A i \in 1 .. Len(policies') : IsPolicy(policies'[i])
      BY <3>1, <3>2, <3>3, <3>6
    <3>8. PoliciesInv'
      BY <1>0, <3>5, <3>7 DEF PoliciesInv, IsPolicy
    <3> QED BY <1>0, <2>1, <3>8, NothingElse
  <2> QED BY <2>2, <2>3
<1> QED BY <1>1, <1>2, <1>3 DEF SecurityServes

LEMMA CustomerStep ==
  ASSUME WebInv, Customer
  PROVE  WebInv'
<1>1. /\ GoodNet(net, page, tenant, view.sel) /\ JobsInv' /\ PoliciesInv'
      /\ UNCHANGED <<view, page, tenant, net>>
  BY PoliciesStay, JobsStay
  DEF WebInv, NetInv, Customer, ConsentCallback, policiesVars, jobsVars
<1> QED BY <1>1, NothingElse

-----------------------------------------------------------------------------
(* The rule builder.                                                       *)

LEMMA NewConditionFits ==
  ASSUME NEW t \in DOMAIN NewCondition
  PROVE  NewCondition[t] \in Conditions
<1> DEFINE e == << "" >>
<1>1. e \in Seq(Entry)
  BY DEF Entry
<1>2. t \in {"entity_detected", "file_pattern", "keyword_match", "regex_match", "no_label"}
  BY DEF NewCondition
<1>3. CASE t = "entity_detected"
  BY <1>3 DEF NewCondition, Conditions
<1>4. CASE t = "file_pattern"
  BY <1>1, <1>4 DEF NewCondition, Conditions
<1>5. CASE t = "keyword_match"
  <2>1. NewCondition[t] = [type |-> "keyword_match", entries |-> e,
                           case_sensitive |-> FALSE, min_count |-> 1]
    BY <1>5 DEF NewCondition
  <2> HIDE DEF e
  <2> QED BY <1>1, <2>1 DEF Conditions
<1>6. CASE t = "regex_match"
  <2>1. NewCondition[t] = [type |-> "regex_match", entries |-> e, min_count |-> 1]
    BY <1>6 DEF NewCondition
  <2> HIDE DEF e
  <2> QED BY <1>1, <2>1 DEF Conditions
<1>7. CASE t = "no_label"
  BY <1>7 DEF NewCondition, Conditions
<1> QED BY <1>2, <1>3, <1>4, <1>5, <1>6, <1>7

LEMMA Removed ==
  ASSUME NEW S, NEW q \in Seq(S), NEW i \in 1 .. Len(q)
  PROVE  RemoveAt(q, i) \in Seq(S)
<1>1. Len(q) \in Nat
  BY LenProperties
<1>2. i - 1 \in Int /\ i + 1 \in Int /\ i \in Int
  BY <1>1
<1>3. SubSeq(q, 1, i - 1) \in Seq(S)
  BY <1>1, SubSeqProperties
<1>4. SubSeq(q, i + 1, Len(q)) \in Seq(S)
  BY <1>1, SubSeqProperties
<1> QED BY <1>3, <1>4, ConcatProperties DEF RemoveAt

\* The five kinds of conditions.
Positive == Nat \ {0}
EntityConditions ==
  [type : {"entity_detected"}, entity_types : SUBSET EntityType,
   min_confidence : {0, 80}, min_count : Positive]
PatternConditions == [type : {"file_pattern"}, entries : Seq(Entry)]
KeywordConditions ==
  [type : {"keyword_match"}, entries : Seq(Entry), case_sensitive : BOOLEAN,
   min_count : Positive]
RegexConditions == [type : {"regex_match"}, entries : Seq(Entry), min_count : Positive]
LabelConditions == [type : {"no_label"}]

LEMMA Kinds ==
  Conditions = EntityConditions \cup PatternConditions \cup KeywordConditions
                 \cup RegexConditions \cup LabelConditions
BY DEF Conditions, EntityConditions, PatternConditions, KeywordConditions,
       RegexConditions, LabelConditions, Positive

LEMMA ClampedIsPositive ==
  ASSUME NEW n \in 0 .. 2
  PROVE  Clamped(n) \in Positive
BY DEF Clamped, Positive

\* An edit of the entries changes the entries into other entries.
LEMMA EditedFits ==
  ASSUME NEW q \in Seq(Entry)
  PROVE  Edited(q) \subseteq Seq(Entry)
<1>1. Len(q) \in Nat /\ "" \in Entry
  BY LenProperties DEF Entry
<1>2. ASSUME NEW i \in 1 .. Len(q), NEW e \in Entry PROVE [q EXCEPT ![i] = e] \in Seq(Entry)
  OBVIOUS
<1>3. Append(q, "") \in Seq(Entry)
  BY <1>1, AppendProperties
<1>4. \A i \in 1 .. Len(q) : RemoveAt(q, i) \in Seq(Entry)
  BY Removed
<1> DEFINE A == { [q EXCEPT ![i] = e] : i \in 1 .. Len(q), e \in Entry }
           B == { RemoveAt(q, i) : i \in 1 .. Len(q) }
<1>5. A \subseteq Seq(Entry)
  BY <1>2
<1>6. B \subseteq Seq(Entry)
  BY <1>4
<1>7. Edited(q) = A \cup (IF Len(q) < MaxEntries THEN { Append(q, "") } ELSE {})
                    \cup (IF Len(q) > 1 THEN B ELSE {})
  BY DEF Edited
<1> HIDE DEF A, B
<1> QED BY <1>3, <1>5, <1>6, <1>7

LEMMA EntryEditsFit ==
  ASSUME NEW c, c.entries \in Seq(Entry), NEW d \in EntryEdits(c)
  PROVE  \E q \in Seq(Entry) : d = [c EXCEPT !.entries = q]
BY EditedFits DEF EntryEdits

LEMMA CountsFit ==
  ASSUME NEW c, NEW d \in Counts(c)
  PROVE  \E n \in Positive : d = [c EXCEPT !.min_count = n]
BY ClampedIsPositive DEF Counts

\* What the editor of a condition makes of it is a condition of its kind.
LEMMA EditedConditionFits ==
  ASSUME NEW c \in Conditions, NEW d \in ConditionEdits(c)
  PROVE  d \in Conditions
<1>1. CASE c \in EntityConditions
  <2>1. d \in EntityEdits(c)
    BY <1>1 DEF ConditionEdits, EntityConditions
  <2>2. CASE d \in Counts(c)
    <3> PICK n \in Positive : d = [c EXCEPT !.min_count = n]
      BY <2>2, CountsFit
    <3> QED BY <1>1, Kinds DEF EntityConditions
  <2>3. CASE d \in { [c EXCEPT !.min_confidence = p] : p \in {0, 80} }
    BY <1>1, <2>3, Kinds DEF EntityConditions
  <2>4. CASE d \in { [c EXCEPT !.entity_types = IF t \in @ THEN @ \ {t} ELSE @ \cup {t}] :
                       t \in EntityType }
    <3> PICK t \in EntityType :
          d = [c EXCEPT !.entity_types = IF t \in @ THEN @ \ {t} ELSE @ \cup {t}]
      BY <2>4
    <3> DEFINE S == IF t \in c.entity_types THEN c.entity_types \ {t}
                                            ELSE c.entity_types \cup {t}
    <3>1. S \in SUBSET EntityType
      BY <1>1 DEF EntityConditions
    <3>2. d = [c EXCEPT !.entity_types = S]
      BY Zenon
    <3> HIDE DEF S
    <3> QED BY <1>1, <3>1, <3>2, Kinds DEF EntityConditions
  <2> QED BY <2>1, <2>2, <2>3, <2>4 DEF EntityEdits
<1>2. CASE c \in PatternConditions
  <2>1. d \in EntryEdits(c) /\ c.entries \in Seq(Entry)
    BY <1>2 DEF ConditionEdits, PatternConditions, FilePatternEdits
  <2>2. PICK q \in Seq(Entry) : d = [c EXCEPT !.entries = q]
    BY <2>1, EntryEditsFit
  <2> QED BY <1>2, <2>2, Kinds DEF PatternConditions
<1>3. CASE c \in KeywordConditions
  <2>1. d \in KeywordEdits(c) /\ c.entries \in Seq(Entry)
    BY <1>3 DEF ConditionEdits, KeywordConditions
  <2>2. CASE d \in EntryEdits(c)
    <3> PICK q \in Seq(Entry) : d = [c EXCEPT !.entries = q]
      BY <2>1, <2>2, EntryEditsFit
    <3> QED BY <1>3, Kinds DEF KeywordConditions
  <2>3. CASE d = [c EXCEPT !.case_sensitive = ~@]
    BY <1>3, <2>3, Kinds DEF KeywordConditions
  <2>4. CASE d \in Counts(c)
    <3> PICK n \in Positive : d = [c EXCEPT !.min_count = n]
      BY <2>4, CountsFit
    <3> QED BY <1>3, Kinds DEF KeywordConditions
  <2> QED BY <2>1, <2>2, <2>3, <2>4 DEF KeywordEdits
<1>4. CASE c \in RegexConditions
  <2>1. d \in RegexEdits(c) /\ c.entries \in Seq(Entry)
    BY <1>4 DEF ConditionEdits, RegexConditions
  <2>2. CASE d \in EntryEdits(c)
    <3> PICK q \in Seq(Entry) : d = [c EXCEPT !.entries = q]
      BY <2>1, <2>2, EntryEditsFit
    <3> QED BY <1>4, Kinds DEF RegexConditions
  <2>3. CASE d \in Counts(c)
    <3> PICK n \in Positive : d = [c EXCEPT !.min_count = n]
      BY <2>3, CountsFit
    <3> QED BY <1>4, Kinds DEF RegexConditions
  <2> QED BY <2>1, <2>2, <2>3 DEF RegexEdits
<1>5. CASE c \in LabelConditions
  BY <1>5 DEF ConditionEdits, LabelConditions
<1> QED BY <1>1, <1>2, <1>3, <1>4, <1>5, Kinds

\* Whatever control of the builder is used, rules stay rules.
LEMMA BuiltFits ==
  ASSUME NEW r \in CustomRules, NEW b \in Built(r, FALSE)
  PROVE  b \in CustomRules
<1>0. r.conditions \in Seq(Conditions) /\ Len(r.conditions) \in Nat
  BY LenProperties DEF CustomRules
<1>c. ASSUME NEW q \in Seq(Conditions) PROVE [r EXCEPT !.conditions = q] \in CustomRules
  BY DEF CustomRules
<1>1. CASE b \in AddCondition(r)
  <2>1. PICK t \in DOMAIN NewCondition :
          b = [r EXCEPT !.conditions = Append(@, NewCondition[t])]
    BY <1>1 DEF AddCondition
  <2> DEFINE q == Append(r.conditions, NewCondition[t])
  <2>2. q \in Seq(Conditions)
    BY <1>0, NewConditionFits
  <2>3. b = [r EXCEPT !.conditions = q]
    BY <2>1, Zenon
  <2> HIDE DEF q
  <2> QED BY <1>c, <2>2, <2>3
<1>2. CASE b \in UpdateCondition(r)
  <2>1. PICK i \in 1 .. Len(r.conditions) :
          \E c \in ConditionEdits(r.conditions[i]) : b = [r EXCEPT !.conditions[i] = c]
    BY <1>2 DEF UpdateCondition
  <2>2. PICK c \in ConditionEdits(r.conditions[i]) : b = [r EXCEPT !.conditions[i] = c]
    BY <2>1
  <2> DEFINE q == [r.conditions EXCEPT ![i] = c]
  <2>3. r.conditions[i] \in Conditions
    BY <1>0
  <2>4. c \in Conditions
    BY <2>3, EditedConditionFits
  <2>5. q \in Seq(Conditions)
    BY <1>0, <2>4
  <2>6. b = [r EXCEPT !.conditions = q]
    BY <2>2, Zenon
  <2> HIDE DEF q
  <2> QED BY <1>c, <2>5, <2>6
<1>3. CASE b \in RemoveCondition(r)
  <2>1. PICK i \in 1 .. Len(r.conditions) : b = [r EXCEPT !.conditions = RemoveAt(@, i)]
    BY <1>3 DEF RemoveCondition
  <2> DEFINE q == RemoveAt(r.conditions, i)
  <2>2. q \in Seq(Conditions)
    BY <1>0, Removed
  <2>3. b = [r EXCEPT !.conditions = q]
    BY <2>1, Zenon
  <2> HIDE DEF q
  <2> QED BY <1>c, <2>2, <2>3
<1>4. CASE b \in { [r EXCEPT !.match_mode = m] : m \in {"any", "all"} }
  BY <1>4 DEF CustomRules
<1> QED BY <1>1, <1>2, <1>3, <1>4 DEF Built

LEMMA ConditionNeedsEvidence ==
  ASSUME NEW c \in Conditions, c.type # "no_label",
         "entries" \in DOMAIN c => \A j \in 1 .. Len(c.entries) : c.entries[j] # ""
  PROVE  ~Holds(c)
<1>1. CASE c \in EntityConditions
  <2>1. c.type = "entity_detected" /\ c.min_count \in Nat /\ c.min_count # 0
    BY <1>1 DEF EntityConditions, Positive
  <2>2. Holds(c) => 0 >= c.min_count
    BY <2>1 DEF Holds
  <2>3. ~(0 >= c.min_count)
    BY ONLY <2>1
  <2> QED BY <2>2, <2>3
<1>2. CASE c \in PatternConditions
  <2>1. c.type = "file_pattern"
    BY <1>2 DEF PatternConditions
  <2> QED BY <2>1 DEF Holds
<1>3. CASE c \in KeywordConditions
  <2>1. /\ c.type = "keyword_match" /\ c.min_count \in Nat /\ c.min_count # 0
        /\ "entries" \in DOMAIN c
    BY <1>3 DEF KeywordConditions, Positive
  <2>2. Found(c.entries) = 0
    BY <2>1 DEF Found
  <2>3. Holds(c) => Found(c.entries) >= c.min_count
    BY <2>1 DEF Holds
  <2>4. ~(0 >= c.min_count)
    BY ONLY <2>1
  <2> QED BY <2>2, <2>3, <2>4
<1>4. CASE c \in RegexConditions
  <2>1. /\ c.type = "regex_match" /\ c.min_count \in Nat /\ c.min_count # 0
        /\ "entries" \in DOMAIN c
    BY <1>4 DEF RegexConditions, Positive
  <2>2. Found(c.entries) = 0
    BY <2>1 DEF Found
  <2>3. Holds(c) => Found(c.entries) >= c.min_count
    BY <2>1 DEF Holds
  <2>4. ~(0 >= c.min_count)
    BY ONLY <2>1
  <2> QED BY <2>2, <2>3, <2>4
<1>5. CASE c \in LabelConditions
  BY <1>5 DEF LabelConditions
<1> QED BY <1>1, <1>2, <1>3, <1>4, <1>5, Kinds

\* A rule with filled-in entries that asks for something finds nothing in a
\* file that has nothing.
LEMMA RulesNeedEvidence ==
  ASSUME NEW r \in CustomRules, Explicit(r)
  PROVE  ~Matches(r)
<1>0. r.conditions \in Seq(Conditions) /\ Len(r.conditions) \in Nat
  BY LenProperties DEF CustomRules
<1>1. ASSUME NEW i \in 1 .. Len(r.conditions) PROVE ~Holds(r.conditions[i])
  <2> DEFINE c == r.conditions[i]
  <2>1. c \in Conditions
    BY <1>0
  <2>2. /\ c.type # "no_label"
        /\ "entries" \in DOMAIN c => \A j \in 1 .. Len(c.entries) : c.entries[j] # ""
    BY Zenon DEF Explicit
  <2> HIDE DEF c
  <2>3. ~Holds(c)
    BY <2>1, <2>2, ConditionNeedsEvidence
  <2> QED BY <2>3 DEF c
<1> QED BY <1>0, <1>1 DEF Matches

-----------------------------------------------------------------------------
(* The policies page.                                                      *)

LEMMA DialogStays ==
  ASSUME PoliciesInv, UNCHANGED <<policies, dialog>>,
         DOMAIN pp' = {"rows", "loading", "expanded"},
         \A i \in DOMAIN pp'.rows : IsRules(pp'.rows[i].rules)
  PROVE  PoliciesInv'
BY DEF PoliciesInv, IsPolicy

LEMMA NewDialogFits ==
  ASSUME PoliciesInv, UNCHANGED <<policies, pp>>,
         \/ dialog' = NoPolicyDialog
         \/ DOMAIN dialog' = DOMAIN NewDialog /\ IsRules(dialog'.rules)
  PROVE  PoliciesInv'
BY DEF PoliciesInv, IsPolicy

LEMMA LoadPoliciesStep ==
  ASSUME NEW n, NEW t, NEW pg, NEW tn, NEW sel, GoodNet(n, pg, tn, sel), PoliciesInv,
         LoadPolicies(n, t)
  PROVE  /\ GoodNet(net', pg, tn, sel)
         /\ DOMAIN pp' = {"rows", "loading", "expanded"} /\ pp'.rows = pp.rows
<1>1. Plain("policies")
  BY DEF Plain
<1>2. GoodNet(net', pg, tn, sel)
  BY <1>1, PlainSentIsGood DEF LoadPolicies
<1> QED BY <1>2 DEF LoadPolicies, PoliciesInv

LEMMA LoadTenantStep ==
  ASSUME NEW n, NEW t, NEW pg, NEW tn, NEW sel, GoodNet(n, pg, tn, sel), PoliciesInv,
         LoadTenant(n, t)
  PROVE  /\ GoodNet(net', pg, tn, sel)
         /\ DOMAIN pp' = {"rows", "loading", "expanded"} /\ pp'.rows = pp.rows
<1>1. Plain("policyLabels")
  BY DEF Plain
<1>2. GoodNet(Sent(n, "policyLabels", [tenant |-> t]), pg, tn, sel)
  BY <1>1, PlainSentIsGood
<1> QED BY <1>2, LoadPoliciesStep DEF LoadTenant

\* The rows a click can be on.
LEMMA RowsFit ==
  ASSUME PoliciesInv, NEW i \in PolicyRows
  PROVE  i \in DOMAIN pp.rows /\ IsRules(pp.rows[i].rules)
BY DEF PoliciesInv, PolicyRows

LEMMA OpenDialog ==
  ASSUME PoliciesInv, dialog.kind # "none"
  PROVE  DOMAIN dialog = DOMAIN NewDialog /\ IsRules(dialog.rules)
<1>1. NoPolicyDialog.kind = "none"
  BY DEF NoPolicyDialog
<1>2. dialog # NoPolicyDialog
  BY Zenon, <1>1
<1> QED BY Zenon, <1>2 DEF PoliciesInv

LEMMA FilledDialog ==
  ASSUME PoliciesInv, FillDialog
  PROVE  DOMAIN dialog' = DOMAIN NewDialog /\ IsRules(dialog'.rules)
<1>0. DOMAIN dialog = DOMAIN NewDialog /\ IsRules(dialog.rules)
  BY OpenDialog DEF FillDialog
<1>d. DOMAIN NewDialog = {"kind", "mode", "sit", "name", "id", "label", "rules", "catalog"}
  BY DEF NewDialog
<1>1. CASE PickSit
  BY <1>0, <1>d, <1>1 DEF PickSit
<1>2. CASE dialog' = [dialog EXCEPT !.mode = IF @ = "sit" THEN "custom" ELSE "sit"]
  BY <1>0, <1>d, <1>2
<1>3. CASE \E name : dialog' = [dialog EXCEPT !.name = name]
  BY <1>0, <1>d, <1>3
<1>4. CASE dialog' = [dialog EXCEPT !.label = ~@]
  BY <1>0, <1>d, <1>4
<1>5. CASE ~IsSit(dialog.rules) /\
           \E r \in Built(dialog.rules, FALSE) : dialog' = [dialog EXCEPT !.rules = r]
  <2>1. dialog.rules \in CustomRules
    BY <1>0, <1>5 DEF IsRules, IsSit, SitRules
  <2>2. PICK r \in Built(dialog.rules, FALSE) : dialog' = [dialog EXCEPT !.rules = r]
    BY <1>5
  <2>3. r \in CustomRules
    BY <2>1, BuiltFits
  <2>4. DOMAIN dialog' = DOMAIN NewDialog /\ dialog'.rules = r
    BY <1>0, <1>d, <2>2
  <2> QED BY <2>3, <2>4 DEF IsRules
<1> QED BY <1>1, <1>2, <1>3, <1>4, <1>5 DEF FillDialog

LEMMA PoliciesClicksStep ==
  ASSUME WebInv, PoliciesClicks, UNCHANGED <<jobsVars, autoLabelVars, otherVars>>
  PROVE  WebInv'
<1>0. /\ GoodNet(net, page, tenant, view.sel) /\ JobsInv' /\ PoliciesInv
      /\ UNCHANGED view
  BY JobsStay DEF WebInv, NetInv, jobsVars, otherVars, viewVars
<1>r. \A i \in DOMAIN pp.rows : IsRules(pp.rows[i].rules)
  BY <1>0 DEF PoliciesInv
<1> DEFINE G(n) == GoodNet(n, page, tenant, view.sel)
<1>1. CASE PoliciesSelectTenant
  <2>1. page = "policies" /\ UNCHANGED <<page, policies, dialog>>
    BY <1>1 DEF PoliciesSelectTenant
  <2>2. PICK t : LoadTenant(net, t)
    BY <1>1 DEF PoliciesSelectTenant
  <2>3. G(net') /\ DOMAIN pp' = {"rows", "loading", "expanded"} /\ pp'.rows = pp.rows
    BY <1>0, <2>2, LoadTenantStep
  <2>4. PoliciesInv'
    BY <1>0, <1>r, <2>1, <2>3, DialogStays
  <2> QED BY <1>0, <2>1, <2>3, <2>4, NothingElse
<1>2. CASE TogglePolicy
  <2>1. PICK i : Change("patch", i, [enabled |-> ~pp.rows[i].enabled])
    BY <1>2 DEF TogglePolicy
  <2> DEFINE a == [tenant |-> tenant, id |-> i, body |-> [enabled |-> ~pp.rows[i].enabled]]
  <2>2. GoodCall(NewCall("patch", a), page, tenant, view.sel)
    BY DEF GoodCall, SoundCall, TimelyCall, NewCall
  <2>3. net' = Sent(net, "patch", a)
    BY <2>1 DEF Change
  <2> HIDE DEF a
  <2>4. G(net') /\ UNCHANGED <<page, tenant, policies, pp, dialog>>
    BY <1>0, <1>2, <2>2, <2>3, SentIsGood DEF TogglePolicy
  <2> QED BY <1>0, <2>4, PoliciesStay, NothingElse
<1>3. CASE DeletePolicy
  <2>1. PICK i : Change("delete", i, <<>>)
    BY <1>3 DEF DeletePolicy
  <2>2. G(net') /\ UNCHANGED <<page, tenant, policies, pp, dialog>>
    BY <1>0, <1>3, <2>1, PlainSentIsGood DEF DeletePolicy, Change, Plain
  <2> QED BY <1>0, <2>2, PoliciesStay, NothingElse
<1>4. CASE DuplicatePolicy
  <2>1. PICK i \in PolicyRows :
          net' = Sent(net, "newPolicy",
                   [tenant |-> tenant, name |-> pp.rows[i].name,
                    rules |-> pp.rows[i].rules, enabled |-> FALSE, copy |-> TRUE])
    BY <1>4 DEF DuplicatePolicy
  <2> DEFINE a == [tenant |-> tenant, name |-> pp.rows[i].name,
                   rules |-> pp.rows[i].rules, enabled |-> FALSE, copy |-> TRUE]
  <2>2. IsRules(a.rules)
    BY <1>0, RowsFit
  <2> HIDE DEF a
  <2>3. GoodCall(NewCall("newPolicy", a), page, tenant, view.sel)
    BY <2>2 DEF GoodCall, SoundCall, TimelyCall, NewCall
  <2>4. G(net') /\ UNCHANGED <<page, tenant, policies, pp, dialog>>
    BY <1>0, <1>4, <2>1, <2>3, SentIsGood DEF DuplicatePolicy, a
  <2> QED BY <1>0, <2>4, PoliciesStay, NothingElse
<1>5. CASE ExpandRow
  <2>1. UNCHANGED <<page, tenant, net, policies, dialog>>
    BY <1>5 DEF ExpandRow
  <2>2. DOMAIN pp' = {"rows", "loading", "expanded"} /\ pp'.rows = pp.rows
    BY <1>0, <1>5 DEF ExpandRow, PoliciesInv
  <2> QED BY <1>0, <1>r, <2>1, <2>2, DialogStays, NothingElse
<1>6. CASE OpenCreate
  <2>1. UNCHANGED <<page, tenant, policies, pp>> /\ dialog' = NewDialog
    BY <1>6 DEF OpenCreate
  <2>2. G(net')
    BY <1>0, <1>6, PlainSentIsGood DEF OpenCreate, Plain
  <2>3. NewDialog.rules \in CustomRules
    BY DEF NewDialog, DEFAULT_RULES, CustomRules
  <2> QED BY <1>0, <2>1, <2>2, <2>3, NewDialogFits, NothingElse DEF IsRules
<1>7. CASE OpenEdit
  <2>1. PICK i \in PolicyRows :
          dialog' = [NewDialog EXCEPT !.kind = "edit", !.mode = "custom", !.id = i,
                        !.name = pp.rows[i].name, !.label = TRUE,
                        !.rules = pp.rows[i].rules]
    BY <1>7 DEF OpenEdit
  <2>2. DOMAIN dialog' = DOMAIN NewDialog /\ dialog'.rules = pp.rows[i].rules
    BY <2>1 DEF NewDialog
  <2>3. IsRules(pp.rows[i].rules)
    BY <1>0, RowsFit
  <2>4. UNCHANGED <<page, tenant, net, policies, pp>>
    BY <1>7 DEF OpenEdit
  <2> QED BY <1>0, <2>2, <2>3, <2>4, NewDialogFits, NothingElse
<1>8. CASE CloseDialog
  <2>1. G(net') /\ UNCHANGED <<page, tenant, policies, pp>> /\ dialog' = NoPolicyDialog
    BY <1>0, <1>8, AbortedIsGood DEF CloseDialog
  <2> QED BY <1>0, <2>1, NewDialogFits, NothingElse
<1>9. CASE FillDialog
  <2>1. DOMAIN dialog' = DOMAIN NewDialog /\ IsRules(dialog'.rules)
    BY <1>0, <1>9, FilledDialog
  <2>2. UNCHANGED <<page, tenant, net, policies, pp>>
    BY <1>9 DEF FillDialog
  <2> QED BY <1>0, <2>1, <2>2, NewDialogFits, NothingElse
<1>10. CASE SaveDialog
  <2>1. UNCHANGED <<page, tenant, policies, pp, dialog>>
    BY <1>10 DEF SaveDialog
  <2>2. CASE SaveFromSit
    <3> DEFINE a == [tenant |-> tenant, name |-> dialog.name,
                     rules |-> SitRules(dialog.sit), copy |-> FALSE]
    <3>1. net' = Sent(net, "newPolicy", a)
      BY <2>2 DEF SaveFromSit
    <3>2. IsRules(a.rules)
      BY DEF IsRules, SitRules
    <3> HIDE DEF a
    <3>3. GoodCall(NewCall("newPolicy", a), page, tenant, view.sel)
      BY <3>2 DEF GoodCall, SoundCall, TimelyCall, NewCall
    <3>4. G(net')
      BY <1>0, <3>1, <3>3, SentIsGood
    <3> QED BY <1>0, <2>1, <3>4, PoliciesStay, NothingElse
  <2>3. CASE SaveCustom
    <3> DEFINE a == [tenant |-> tenant, name |-> dialog.name,
                     rules |-> dialog.rules, copy |-> FALSE]
    <3>1. net' = Sent(net, "newPolicy", a)
      BY <2>3 DEF SaveCustom
    <3>2. IsRules(a.rules)
      BY <1>0, <2>3, OpenDialog DEF SaveCustom
    <3> HIDE DEF a
    <3>3. GoodCall(NewCall("newPolicy", a), page, tenant, view.sel)
      BY <3>2 DEF GoodCall, SoundCall, TimelyCall, NewCall
    <3>4. G(net')
      BY <1>0, <3>1, <3>3, SentIsGood
    <3> QED BY <1>0, <2>1, <3>4, PoliciesStay, NothingElse
  <2>4. CASE SaveEdit
    <3> DEFINE a == [tenant |-> tenant, id |-> dialog.id,
                     body |-> [name |-> dialog.name, rules |-> dialog.rules]]
    <3>1. net' = Sent(net, "patch", a)
      BY <2>4 DEF SaveEdit
    <3>2. IsRules(a.body.rules)
      BY <1>0, <2>4, OpenDialog DEF SaveEdit
    <3> HIDE DEF a
    <3>3. GoodCall(NewCall("patch", a), page, tenant, view.sel)
      BY <3>2 DEF GoodCall, SoundCall, TimelyCall, NewCall
    <3>4. G(net')
      BY <1>0, <3>1, <3>3, SentIsGood
    <3> QED BY <1>0, <2>1, <3>4, PoliciesStay, NothingElse
  <2> QED BY <1>10, <2>2, <2>3, <2>4 DEF SaveDialog
<1> QED BY <1>1, <1>2, <1>3, <1>4, <1>5, <1>6, <1>7, <1>8, <1>9, <1>10 DEF PoliciesClicks

LEMMA ServeNewPolicyStep ==
  ASSUME NEW s \in Slot, NetInv, PoliciesInv, ServeNewPolicy(s)
  PROVE  PoliciesInv'
<1>1. CASE UNCHANGED policies
  BY <1>1, PoliciesStay DEF ServeNewPolicy
<1>2. CASE ~ UNCHANGED policies
  <2> DEFINE a == net[s].arg
             p == [tenant |-> a.tenant, name |-> a.name, builtin |-> FALSE,
                   enabled |-> IF "enabled" \in DOMAIN a THEN a.enabled ELSE TRUE,
                   rules |-> a.rules, gone |-> FALSE]
  <2>1. policies' = Append(policies, p) /\ UNCHANGED <<pp, dialog>>
    BY <1>2 DEF ServeNewPolicy
  <2>2. IsRules(a.rules)
    BY DEF ServeNewPolicy, Asked, NetInv, GoodNet, GoodCall, SoundCall
  <2>3. IsPolicy(p)
    BY <2>2 DEF IsPolicy
  <2> HIDE DEF p, a
  <2>4. policies \in Seq(Range(policies))
    BY DEF PoliciesInv
  <2>5. /\ policies' \in Seq(Range(policies'))
        /\ Len(policies') = Len(policies) + 1 /\ Len(policies) \in Nat
        /\ \A i \in 1 .. Len(policies) : policies'[i] = policies[i]
        /\ policies'[Len(policies) + 1] = p
    BY <2>1, <2>4, Appended
  <2>6. ASSUME NEW i \in 1 .. Len(policies') PROVE IsPolicy(policies'[i])
    <3>1. CASE i \in 1 .. Len(policies)
      BY <2>5, <3>1 DEF PoliciesInv
    <3>2. CASE i \notin 1 .. Len(policies)
      BY <2>3, <2>5, <3>2
    <3> QED BY <3>1, <3>2
  <2> QED BY <2>1, <2>5, <2>6 DEF PoliciesInv, IsPolicy
<1> QED BY <1>1, <1>2

LEMMA ServeChangeStep ==
  ASSUME NEW s \in Slot, NetInv, PoliciesInv, ServeChange(s)
  PROVE  PoliciesInv'
<1>1. CASE UNCHANGED policies
  BY <1>1, PoliciesStay DEF ServeChange
<1>2. CASE ~ UNCHANGED policies
  <2> DEFINE a == net[s].arg
             j == a.id
             p == policies[j]
             q == IF net[s].op = "delete" THEN [p EXCEPT !.gone = TRUE]
                  ELSE [f \in DOMAIN p |-> IF f \in DOMAIN a.body THEN a.body[f] ELSE p[f]]
  <2>1. /\ policies' = [policies EXCEPT ![j] = q] /\ UNCHANGED <<pp, dialog>>
        /\ j \in 1 .. Len(policies)
    BY <1>2 DEF ServeChange, Live
  <2>2. IsPolicy(p)
    BY <2>1 DEF PoliciesInv
  <2>3. IsPolicy(q)
    <3>1. CASE net[s].op = "delete"
      BY <2>2, <3>1 DEF IsPolicy
    <3>2. CASE net[s].op # "delete"
      <4>1. net[s].op = "patch"
        BY <3>2 DEF ServeChange, Asked
      <4>2. "rules" \in DOMAIN a.body => IsRules(a.body.rules)
        BY <4>1 DEF NetInv, GoodNet, GoodCall, SoundCall
      <4>3. "rules" \in DOMAIN p /\ IsRules(p.rules)
        BY <2>2 DEF IsPolicy
      <4>4. q = [f \in DOMAIN p |-> IF f \in DOMAIN a.body THEN a.body[f] ELSE p[f]]
        BY <3>2
      <4> HIDE DEF a, p, q
      <4> QED BY <4>2, <4>3, <4>4 DEF IsPolicy
    <3> QED BY <3>1, <3>2
  <2> HIDE DEF p, q, j, a
  <2>4. policies \in Seq(Range(policies))
    BY DEF PoliciesInv
  <2>a. j \in 1 .. Len(policies)
    BY <2>1
  <2>b. /\ [policies EXCEPT ![j] = q] \in Seq(Range([policies EXCEPT ![j] = q]))
        /\ Len([policies EXCEPT ![j] = q]) = Len(policies)
        /\ \A i \in 1 .. Len(policies) :
             [policies EXCEPT ![j] = q][i] = IF i = j THEN q ELSE policies[i]
    BY ONLY <2>4, <2>a, Replaced
  <2>5. /\ policies' \in Seq(Range(policies')) /\ Len(policies') = Len(policies)
        /\ \A i \in 1 .. Len(policies) : policies'[i] = IF i = j THEN q ELSE policies[i]
    BY <2>1, <2>b
  <2>6. \A i \in 1 .. Len(policies') : IsPolicy(policies'[i])
    BY <2>3, <2>5 DEF PoliciesInv
  <2> QED BY <2>1, <2>5, <2>6 DEF PoliciesInv, IsPolicy
<1> QED BY <1>1, <1>2

LEMMA PoliciesRunStep ==
  ASSUME WebInv, NEW s \in Slot, PoliciesRun(s),
         UNCHANGED <<jobsVars, autoLabelVars, otherVars>>
  PROVE  WebInv'
<1>0. /\ NetInv /\ GoodNet(net, page, tenant, view.sel) /\ JobsInv' /\ PoliciesInv
      /\ UNCHANGED view
  BY JobsStay DEF WebInv, NetInv, jobsVars, otherVars, viewVars
<1>r. \A i \in DOMAIN pp.rows : IsRules(pp.rows[i].rules)
  BY <1>0 DEF PoliciesInv
<1> DEFINE G(n) == GoodNet(n, page, tenant, view.sel)
<1>d. G(Done(net, s))
  BY <1>0, DoneIsGood
<1>1. CASE ServePolicies(s)
  <2>1. UNCHANGED <<page, tenant, policies, pp, dialog>>
    BY <1>1 DEF ServePolicies, policiesVars
  <2>2. CASE Refuse(s)
    <3>1. G(net')
      BY <1>0, <2>2, RefusedIsGood DEF Refuse
    <3> QED BY <1>0, <2>1, <3>1, PoliciesStay, NothingElse
  <2>3. CASE Reply(s, [i \in Live(net[s].arg.tenant) |-> policies[i]])
    <3> DEFINE v == [i \in Live(net[s].arg.tenant) |-> policies[i]]
    <3>1. \A i \in DOMAIN v : IsRules(v[i].rules)
      BY <1>0 DEF Live, PoliciesInv, IsPolicy
    <3>q. net[s].op = "policies"
      BY <1>1 DEF ServePolicies, Asked
    <3> HIDE DEF v
    <3>2. G(net')
      BY <1>0, <2>3, <3>1, <3>q, RepliedIsGood DEF Reply, v
    <3> QED BY <1>0, <2>1, <3>2, PoliciesStay, NothingElse
  <2> QED BY <1>1, <2>2, <2>3 DEF ServePolicies
<1>2. CASE ServeNewPolicy(s)
  <2>1. G(net') /\ UNCHANGED <<page, tenant>>
    BY <1>0, <1>2, AnsweredIsGood DEF ServeNewPolicy, Asked
  <2> QED BY <1>0, <1>2, <2>1, ServeNewPolicyStep, NothingElse
<1>3. CASE ServeChange(s)
  <2>1. G(net') /\ UNCHANGED <<page, tenant>>
    BY <1>0, <1>3, AnsweredIsGood DEF ServeChange, Asked
  <2> QED BY <1>0, <1>3, <2>1, ServeChangeStep, NothingElse
<1>4. CASE ServeCatalog(s)
  <2>1. UNCHANGED <<page, tenant, policies, pp, dialog>>
    BY <1>4 DEF ServeCatalog, policiesVars
  <2>2. G(net')
    BY <1>0, <1>4, AnsweredIsGood DEF ServeCatalog, Asked
  <2> QED BY <1>0, <2>1, <2>2, PoliciesStay, NothingElse
<1>5. CASE PoliciesTakeTenants(s)
  <2>1. page = "policies" /\ UNCHANGED <<page, policies, dialog>>
    BY <1>5 DEF PoliciesTakeTenants
  <2>2. CASE LoadTenant(Done(net, s), tenant')
    <3>1. G(net') /\ DOMAIN pp' = {"rows", "loading", "expanded"} /\ pp'.rows = pp.rows
      BY <1>0, <1>d, <2>2, LoadTenantStep
    <3>2. PoliciesInv'
      BY <1>0, <1>r, <2>1, <3>1, DialogStays
    <3> QED BY <1>0, <2>1, <3>1, <3>2, NothingElse
  <2>3. CASE net' = Done(net, s) /\ UNCHANGED pp
    BY <1>0, <1>d, <2>1, <2>3, PoliciesStay, NothingElse
  <2> QED BY <1>5, <2>2, <2>3 DEF PoliciesTakeTenants
<1>6. CASE TakePolicies(s)
  <2>1. UNCHANGED <<page, tenant, policies, dialog>> /\ G(net')
    BY <1>d, <1>6 DEF TakePolicies
  <2>2. /\ DOMAIN pp' = {"rows", "loading", "expanded"}
        /\ pp'.rows = IF Succeeded(s) THEN net[s].val ELSE NoRows
    BY <1>0, <1>6 DEF TakePolicies, PoliciesInv
  <2>3. Succeeded(s) => \A i \in DOMAIN net[s].val : IsRules(net[s].val[i].rules)
    BY <1>0, <1>6
    DEF TakePolicies, Answered, Succeeded, NetInv, GoodNet, GoodCall, SoundCall
  <2>4. \A i \in DOMAIN pp'.rows : IsRules(pp'.rows[i].rules)
    BY <2>2, <2>3 DEF NoRows
  <2> QED BY <1>0, <2>1, <2>2, <2>4, DialogStays, NothingElse
<1>7. CASE TakeChange(s)
  <2>1. UNCHANGED <<page, tenant, policies>>
    BY <1>7 DEF TakeChange
  <2>2. G(net') /\ DOMAIN pp' = {"rows", "loading", "expanded"} /\ pp'.rows = pp.rows
    <3>1. CASE LoadPolicies(Done(net, s), net[s].arg.tenant)
      BY <1>0, <1>d, <3>1, LoadPoliciesStep
    <3>2. CASE net' = Done(net, s) /\ UNCHANGED pp
      BY <1>0, <1>d, <3>2 DEF PoliciesInv
    <3> QED BY <1>7, <3>1, <3>2 DEF TakeChange
  <2>3. dialog' = dialog \/ dialog' = NoPolicyDialog
    BY <1>7 DEF TakeChange
  <2>4. PoliciesInv'
    BY <1>0, <1>r, <2>1, <2>2, <2>3 DEF PoliciesInv, IsPolicy
  <2> QED BY <1>0, <2>1, <2>2, <2>4, NothingElse
<1>8. CASE TakeCatalog(s)
  <2>1. UNCHANGED <<page, tenant, policies, pp>> /\ G(net')
    BY <1>d, <1>8 DEF TakeCatalog
  <2>2. dialog' = dialog \/ (dialog.kind = "create" /\
                             \E v : dialog' = [dialog EXCEPT !.catalog = v])
    BY <1>8 DEF TakeCatalog
  <2>3. CASE dialog' = dialog
    BY <1>0, <2>1, <2>3, PoliciesStay, NothingElse
  <2>4. CASE dialog.kind = "create" /\ \E v : dialog' = [dialog EXCEPT !.catalog = v]
    <3>1. DOMAIN dialog = DOMAIN NewDialog /\ IsRules(dialog.rules)
      BY <1>0, <2>4, OpenDialog
    <3>2. DOMAIN dialog' = DOMAIN NewDialog /\ dialog'.rules = dialog.rules
      BY <2>4, <3>1 DEF NewDialog
    <3> QED BY <1>0, <2>1, <3>1, <3>2, NewDialogFits, NothingElse
  <2> QED BY <2>2, <2>3, <2>4
<1> QED BY <1>1, <1>2, <1>3, <1>4, <1>5, <1>6, <1>7, <1>8 DEF PoliciesRun

-----------------------------------------------------------------------------
(* The pages that only read.                                               *)

ViewFields == {"sel", "rows", "of", "ofSel", "overview", "total", "loading"}

LEMMA ViewsStep ==
  ASSUME WebInv, UNCHANGED <<page, jobsVars, policiesVars>>,
         GoodNet(net', page, tenant', view'.sel), ShownInv(view', page, tenant')
  PROVE  WebInv'
<1>1. JobsInv' /\ PoliciesInv'
  BY PoliciesStay, JobsStay DEF WebInv, policiesVars, jobsVars
<1> QED BY <1>1 DEF WebInv, NetInv, ViewInv

\* A tab that loads: the call before it is given up, the new one asks for what
\* is selected, and nothing is shown until it answers.
LEMMA LoadTabShows ==
  ASSUME NEW n, NEW v, NEW t, NEW tn, NEW sel, GoodNet(n, "reports", tn, sel),
         DOMAIN v = ViewFields, t = NoTenant => v.rows = <<>>,
         v.sel.tab \in ReportTab, Tally(v.rows)
  PROVE  /\ GoodNet(LoadTab(n, v, t).net, "reports", t, v.sel)
         /\ LoadTab(n, v, t).view.sel = v.sel
         /\ ShownInv(LoadTab(n, v, t).view, "reports", t)
<1> DEFINE m == Aborted(n, TabData)
           a == [tenant |-> t, sel |-> v.sel]
           w == [v EXCEPT !.loading = TRUE]
<1>1. GoodNet(m, "reports", t, v.sel)
  <2>1. ASSUME NEW s \in Slot PROVE GoodCall(m[s], "reports", t, v.sel)
    <3>1. CASE n[s].op = "report"
      BY <3>1, IdleIsGood DEF Aborted, TabData
    <3>2. CASE n[s].op # "report"
      BY <3>2 DEF Aborted, TabData, GoodNet, GoodCall, TimelyCall
    <3> QED BY <3>1, <3>2
  <2>2. DOMAIN m = Slot
    BY DEF Aborted
  <2> QED BY <2>1, <2>2 DEF GoodNet
<1>2. DOMAIN w = ViewFields /\ w.sel = v.sel /\ w.rows = v.rows /\ w.loading = TRUE
  BY DEF ViewFields
<1>3. CASE t = NoTenant \/ v.sel.tab = "overview"
  <2>1. LoadTab(n, v, t).net = m /\ LoadTab(n, v, t).view = v
    BY <1>3 DEF LoadTab
  <2> HIDE DEF m
  <2>2. ShownInv(v, "reports", t)
    BY <1>3 DEF ShownInv, ViewFields
  <2> QED BY <1>1, <2>1, <2>2
<1>4. CASE ~(t = NoTenant \/ v.sel.tab = "overview")
  <2>1. LoadTab(n, v, t).net = Sent(m, "report", a) /\ LoadTab(n, v, t).view = w
    BY <1>4 DEF LoadTab
  <2>2. GoodCall(NewCall("report", a), "reports", t, v.sel)
    BY <1>4 DEF GoodCall, SoundCall, TimelyCall, NewCall
  <2> HIDE DEF m, a, w
  <2>3. GoodNet(Sent(m, "report", a), "reports", t, v.sel)
    BY <1>1, <2>2, SentIsGood
  <2>4. ShownInv(w, "reports", t)
    BY <1>2, <1>4 DEF ShownInv, ViewFields
  <2> QED BY <1>2, <2>1, <2>3, <2>4
<1> QED BY <1>3, <1>4

\* What a page loads for the tenant that is selected.
LEMMA LoadsShow ==
  ASSUME NEW n, NEW v, NEW t, NEW tn, GoodNet(n, page, tn, v.sel),
         ShownInv(v, page, tn), t = NoTenant => tn = NoTenant,
         page \in TenantViews
  PROVE  /\ GoodNet(Loads(n, v, t).net, page, t, Loads(n, v, t).view.sel)
         /\ ShownInv(Loads(n, v, t).view, page, t)
<1> DEFINE w == [v EXCEPT !.loading = TRUE]
<1>0. DOMAIN v = ViewFields
  BY DEF ShownInv, ViewFields
<1>w. DOMAIN w = ViewFields /\ w.sel = v.sel /\ w.rows = v.rows /\ w.loading = TRUE
  BY <1>0 DEF ViewFields
<1>1. CASE page = "reports"
  <2> DEFINE m == Sent(Aborted(n, {"stats"}), "stats", [tenant |-> t])
  <2>1. GoodNet(m, "reports", tn, v.sel)
    BY <1>1, AbortedIsGood, PlainSentIsGood DEF Plain
  <2>2. Loads(n, v, t) = LoadTab(m, v, t)
    BY <1>1 DEF Loads, LoadReports
  <2>3. /\ t = NoTenant => v.rows = <<>>
        /\ v.sel.tab \in ReportTab /\ Tally(v.rows)
    BY <1>1 DEF ShownInv
  <2> HIDE DEF m
  <2>4. /\ GoodNet(LoadTab(m, v, t).net, "reports", t, v.sel)
        /\ LoadTab(m, v, t).view.sel = v.sel
        /\ ShownInv(LoadTab(m, v, t).view, "reports", t)
    BY <1>0, <2>1, <2>3, LoadTabShows
  <2> QED BY <1>1, <2>2, <2>4
<1>2. CASE page = "dashboard"
  <2> DEFINE m == Aborted(n, {"home"})
             a == [tenant |-> t]
  <2>1. Loads(n, v, t).net = Sent(m, "home", a) /\ Loads(n, v, t).view = w
    BY <1>2 DEF Loads, LoadDashboard
  <2>2. GoodNet(m, page, t, v.sel)
    <3>1. ASSUME NEW s \in Slot PROVE GoodCall(m[s], page, t, v.sel)
      <4>1. CASE n[s].op = "home"
        BY <4>1, IdleIsGood DEF Aborted
      <4>2. CASE n[s].op # "home"
        BY <1>2, <4>2 DEF Aborted, GoodNet, GoodCall, TimelyCall
      <4> QED BY <4>1, <4>2
    <3>2. DOMAIN m = Slot
      BY DEF Aborted
    <3> QED BY <3>1, <3>2 DEF GoodNet
  <2>3. GoodCall(NewCall("home", a), page, t, v.sel)
    BY <1>2 DEF GoodCall, SoundCall, TimelyCall, NewCall
  <2> HIDE DEF m, a, w
  <2>4. GoodNet(Sent(m, "home", a), page, t, v.sel)
    BY <2>2, <2>3, SentIsGood
  <2>5. ShownInv(w, page, t)
    BY <1>2, <1>w DEF ShownInv, ViewFields
  <2> QED BY <1>w, <2>1, <2>4, <2>5
<1>3. CASE page = "labels"
  <2> DEFINE m == WithoutLabelCall(n)
             a == [tenant |-> t, sel |-> v.sel, fresh |-> FALSE]
  <2>1. Loads(n, v, t).net = Sent(m, "labelList", a) /\ Loads(n, v, t).view = w
    BY <1>3 DEF Loads, LoadLabels, LabelCalls
  <2>2. GoodNet(m, page, t, v.sel)
    BY <1>3, WithoutLabelIsGood, ElsewhereIsGood
  <2>3. GoodCall(NewCall("labelList", a), page, t, v.sel)
    BY <1>3 DEF GoodCall, SoundCall, TimelyCall, NewCall
  <2> HIDE DEF m, a, w
  <2>4. GoodNet(Sent(m, "labelList", a), page, t, v.sel)
    BY <2>2, <2>3, SentIsGood
  <2>5. ShownInv(w, page, t)
    BY <1>3, <1>w DEF ShownInv, ViewFields
  <2> QED BY <1>w, <2>1, <2>4, <2>5
<1>4. CASE page = "explorer"
  <2>1. /\ Loads(n, v, t).net = Sent(Aborted(n, {"drives"}), "drives", [tenant |-> t])
        /\ Loads(n, v, t).view = v
    BY <1>4 DEF Loads, LoadDrives
  <2>2. GoodNet(Aborted(n, {"drives"}), page, t, v.sel)
    BY <1>4, AbortedIsGood, ElsewhereIsGood
  <2>3. GoodNet(Sent(Aborted(n, {"drives"}), "drives", [tenant |-> t]), page, t, v.sel)
    BY <2>2, PlainSentIsGood DEF Plain
  <2>4. ShownInv(v, page, t)
    BY <1>4 DEF ShownInv
  <2> QED BY <2>1, <2>3, <2>4
<1> QED BY <1>1, <1>2, <1>3, <1>4 DEF TenantViews

\* On a page that neither charts nor counts, anything may be shown.
LEMMA ShownElsewhere ==
  ASSUME NEW v, DOMAIN v = ViewFields, NEW pg, pg \notin {"reports", "dashboard"}, NEW tn
  PROVE  ShownInv(v, pg, tn)
BY DEF ShownInv, ViewFields

LEMMA ViewsClicksStep ==
  ASSUME WebInv, ViewsClicks, UNCHANGED <<mainVars, sec>>
  PROVE  WebInv'
<1>0. /\ GoodNet(net, page, tenant, view.sel) /\ ShownInv(view, page, tenant)
      /\ DOMAIN view = ViewFields /\ UNCHANGED <<jobsVars, policiesVars>>
  BY DEF WebInv, NetInv, ViewInv, ShownInv, ViewFields, mainVars
<1>1. CASE ViewsSelectTenant
  <2>1. PICK t \in Selectable :
          tenant' = t /\ net' = Loads(net, view, t).net /\ view' = Loads(net, view, t).view
    BY <1>1 DEF ViewsSelectTenant, Goes
  <2>2. page \in TenantViews /\ UNCHANGED page
    BY <1>1 DEF ViewsSelectTenant
  <2>3. t # NoTenant
    BY SessionAssumption DEF Selectable, Tenants
  <2>4. /\ GoodNet(Loads(net, view, t).net, page, t, Loads(net, view, t).view.sel)
        /\ ShownInv(Loads(net, view, t).view, page, t)
    BY <1>0, <2>2, <2>3, LoadsShow
  <2> QED BY <1>0, <2>1, <2>2, <2>4, ViewsStep
<1>2. CASE PickTab
  <2>1. PICK sel : Reselect(sel) /\ sel.tab \in ReportTab
    <3>1. view.sel.tab \in ReportTab
      BY <1>0, <1>2 DEF PickTab, ShownInv
    <3>2. \/ \E t \in ReportTab : Reselect(Sel(t, view.sel.n))
          \/ \E d \in Days : Reselect(Sel(view.sel.tab, d))
      BY <1>2 DEF PickTab
    <3>3. ASSUME NEW t, NEW d PROVE Sel(t, d).tab = t
      BY DEF Sel
    <3> QED BY <3>1, <3>2, <3>3
  <2>2. page = "reports" /\ UNCHANGED <<page, tenant>>
    BY <1>2 DEF PickTab
  <2> DEFINE v == [view EXCEPT !.sel = sel]
  <2>3. DOMAIN v = ViewFields /\ v.sel = sel /\ v.rows = view.rows
    BY <1>0 DEF ViewFields
  <2>4. /\ tenant = NoTenant => v.rows = <<>>
        /\ v.sel.tab \in ReportTab /\ Tally(v.rows)
    BY <1>0, <2>1, <2>2, <2>3 DEF ShownInv
  <2>5. \/ tenant = NoTenant /\ net' = net /\ view' = v
        \/ net' = LoadTab(net, v, tenant).net /\ view' = LoadTab(net, v, tenant).view
    BY <2>1, <2>2 DEF Reselect, Goes
  <2> HIDE DEF v
  <2>6. CASE tenant = NoTenant /\ net' = net /\ view' = v
    <3>1. GoodNet(net, page, tenant, v.sel)
      BY <1>0, <2>6 DEF GoodNet, GoodCall, TimelyCall
    <3>2. ShownInv(v, page, tenant)
      BY <2>2, <2>3, <2>4, <2>6 DEF ShownInv, ViewFields
    <3> QED BY <1>0, <2>2, <2>6, <3>1, <3>2, ViewsStep
  <2>7. CASE net' = LoadTab(net, v, tenant).net /\ view' = LoadTab(net, v, tenant).view
    <3>1. GoodNet(net, "reports", tenant, view.sel)
      BY <1>0, <2>2
    <3>2. /\ GoodNet(LoadTab(net, v, tenant).net, "reports", tenant, v.sel)
          /\ LoadTab(net, v, tenant).view.sel = v.sel
          /\ ShownInv(LoadTab(net, v, tenant).view, "reports", tenant)
      BY <2>3, <2>4, <3>1, LoadTabShows
    <3> QED BY <1>0, <2>2, <2>7, <3>2, ViewsStep
  <2> QED BY <2>5, <2>6, <2>7
<1>3. CASE FilterLabels
  <2>1. PICK sel : Reselect(sel)
    BY <1>3 DEF FilterLabels
  <2>2. page = "labels" /\ UNCHANGED <<page, tenant>>
    BY <1>3 DEF FilterLabels
  <2> DEFINE v == [view EXCEPT !.sel = sel]
  <2>3. DOMAIN v = ViewFields
    BY <1>0 DEF ViewFields
  <2>4. \/ net' = net /\ view' = v
        \/ net' = Loads(net, v, tenant).net /\ view' = Loads(net, v, tenant).view
    BY <2>1, <2>2 DEF Reselect, Goes, Loads
  <2> HIDE DEF v
  <2>5. GoodNet(net, page, tenant, v.sel) /\ ShownInv(v, page, tenant)
    BY <1>0, <2>2, <2>3, ElsewhereIsGood, ShownElsewhere
  <2>6. /\ GoodNet(Loads(net, v, tenant).net, page, tenant, Loads(net, v, tenant).view.sel)
        /\ ShownInv(Loads(net, v, tenant).view, page, tenant)
    BY <2>2, <2>5, LoadsShow DEF TenantViews
  <2> QED BY <1>0, <2>2, <2>4, <2>5, <2>6, ViewsStep
<1>4. CASE Refresh
  <2> DEFINE a == [tenant |-> tenant, sel |-> Sel("all", 0), fresh |-> TRUE]
  <2>1. page = "labels" /\ UNCHANGED <<page, tenant>> /\ net' = Sent(net, "labelList", a)
    BY <1>4 DEF Refresh, LabelCalls
  <2>2. GoodCall(NewCall("labelList", a), page, tenant, view.sel)
    BY <2>1 DEF GoodCall, SoundCall, TimelyCall, NewCall
  <2> HIDE DEF a
  <2>3. GoodNet(net', page, tenant, view'.sel)
    BY <1>0, <2>1, <2>2, SentIsGood, ElsewhereIsGood
  <2>4. DOMAIN view' = ViewFields
    BY <1>0, <1>4 DEF Refresh
  <2> QED BY <1>0, <2>1, <2>3, <2>4, ShownElsewhere, ViewsStep
<1>5. CASE FilterEvents \/ TurnEvents
  <2>1. PICK sel : LoadEvents(sel)
    BY <1>5 DEF FilterEvents, TurnEvents
  <2>2. page = "audit" /\ UNCHANGED <<page, tenant>>
    BY <1>5 DEF FilterEvents, TurnEvents, PageShown
  <2>3. GoodCall(NewCall("audit", sel), page, tenant, view.sel)
    BY <2>2 DEF GoodCall, SoundCall, TimelyCall, NewCall
  <2>4. GoodNet(net', page, tenant, view'.sel)
    BY <1>0, <2>1, <2>2, <2>3, SentIsGood, ElsewhereIsGood DEF LoadEvents
  <2>5. DOMAIN view' = ViewFields
    BY <1>0, <2>1 DEF LoadEvents
  <2> QED BY <1>0, <2>2, <2>4, <2>5, ShownElsewhere, ViewsStep
<1> QED BY <1>1, <1>2, <1>3, <1>4, <1>5 DEF ViewsClicks

LEMMA ViewsTakeStep ==
  ASSUME WebInv, NEW s \in Slot, ViewsTake(s), UNCHANGED <<mainVars, sec>>
  PROVE  WebInv'
<1>0. /\ GoodNet(net, page, tenant, view.sel) /\ ShownInv(view, page, tenant)
      /\ DOMAIN view = ViewFields /\ UNCHANGED <<jobsVars, policiesVars>>
  BY DEF WebInv, NetInv, ViewInv, ShownInv, ViewFields, mainVars
<1>d. GoodNet(Done(net, s), page, tenant, view.sel)
  BY <1>0, DoneIsGood
<1>t. TimelyCall(net[s], page, tenant, view.sel)
  BY <1>0 DEF GoodNet, GoodCall
<1>1. CASE ViewsTakeTenants(s)
  <2>1. page \in TenantViews /\ UNCHANGED page /\ tenant' = ChosenBy(s)
    BY <1>1 DEF ViewsTakeTenants
  <2>2. CASE tenant' # tenant
    <3> DEFINE l == Loads(Done(net, s), view, tenant')
    <3>1. tenant = NoTenant
      BY <2>1, <2>2 DEF ChosenBy
    <3>2. net' = l.net /\ view' = l.view
      BY <1>1, <2>2 DEF ViewsTakeTenants, Goes
    <3>3. GoodNet(l.net, page, tenant', l.view.sel) /\ ShownInv(l.view, page, tenant')
      BY <1>0, <1>d, <2>1, <3>1, LoadsShow
    <3> QED BY <1>0, <2>1, <3>2, <3>3, ViewsStep
  <2>3. CASE tenant' = tenant
    <3>1. net' = Done(net, s) /\ view' = view
      BY <1>1, <2>3 DEF ViewsTakeTenants, Goes
    <3> QED BY <1>0, <1>d, <2>1, <2>3, <3>1, ViewsStep
  <2> QED BY <2>2, <2>3
<1>2. CASE TakeReport(s)
  <2>1. UNCHANGED <<page, tenant>> /\ net' = Done(net, s)
    BY <1>2 DEF TakeReport
  <2>2. /\ DOMAIN view' = ViewFields /\ view'.sel = view.sel
        /\ view'.of = net[s].arg.tenant /\ view'.ofSel = net[s].arg.sel
        /\ view'.rows = IF Succeeded(s) THEN net[s].val ELSE <<>>
    BY <1>0, <1>2 DEF TakeReport, ViewFields
  <2>r. Succeeded(s) => Tally(net[s].val)
    BY <1>0, <1>2 DEF GoodNet, GoodCall, SoundCall, TakeReport, Answered, Succeeded
  <2>3. /\ page = "reports" /\ tenant # NoTenant
        /\ net[s].arg.tenant = tenant /\ net[s].arg.sel = view.sel
    BY <1>2, <1>t DEF TakeReport, Answered, TimelyCall
  <2>5. Tally(view'.rows) /\ view'.sel.tab \in ReportTab
    BY <1>0, <2>2, <2>3, <2>r, NothingToTally DEF ShownInv
  <2>4. ShownInv(view', page, tenant)
    BY <2>2, <2>3, <2>5 DEF ShownInv, ViewFields
  <2> QED BY <1>0, <1>d, <2>1, <2>2, <2>4, ViewsStep
<1>3. CASE TakeStats(s)
  <2>1. UNCHANGED <<page, tenant>> /\ net' = Done(net, s)
    BY <1>3 DEF TakeStats
  <2>2. /\ DOMAIN view' = ViewFields
        /\ \A f \in ViewFields \ {"overview"} : view'[f] = view[f]
    BY <1>0, <1>3 DEF TakeStats, ViewFields
  <2>3. /\ view'.sel = view.sel /\ view'.rows = view.rows /\ view'.of = view.of
        /\ view'.ofSel = view.ofSel /\ view'.loading = view.loading
    BY <2>2 DEF ViewFields
  <2>4. ShownInv(view', page, tenant)
    BY <1>0, <2>2, <2>3 DEF ShownInv, ViewFields
  <2> QED BY <1>0, <1>d, <2>1, <2>3, <2>4, ViewsStep
<1>4. CASE TakeHome(s)
  <2>1. UNCHANGED <<page, tenant>> /\ net' = Done(net, s)
    BY <1>4 DEF TakeHome
  <2>2. /\ DOMAIN view' = ViewFields /\ view'.sel = view.sel
        /\ view'.of \in {net[s].arg.tenant, NoTenant}
    BY <1>0, <1>4 DEF TakeHome, ViewFields
  <2>3. page = "dashboard" /\ net[s].arg.tenant = tenant
    BY <1>4, <1>t DEF TakeHome, Answered, TimelyCall
  <2>4. ShownInv(view', page, tenant)
    BY <2>2, <2>3 DEF ShownInv, ViewFields
  <2> QED BY <1>0, <1>d, <2>1, <2>2, <2>4, ViewsStep
<1>5. CASE TakeDrives(s)
  <2>1. UNCHANGED <<page, tenant, view>> /\ net' = Done(net, s)
    BY <1>5 DEF TakeDrives
  <2> QED BY <1>0, <1>d, <2>1, ViewsStep
<1>6. CASE TakeLabelList(s)
  <2>1. UNCHANGED <<page, tenant>> /\ net' = Done(net, s)
    BY <1>6 DEF TakeLabelList
  <2>2. DOMAIN view' = ViewFields /\ view'.sel = view.sel
    BY <1>0, <1>6 DEF TakeLabelList, ViewFields
  <2>3. page = "labels"
    BY <1>6, <1>t DEF TakeLabelList, Answered, TimelyCall
  <2> QED BY <1>0, <1>d, <2>1, <2>2, <2>3, ShownElsewhere, ViewsStep
<1>7. CASE TakeEvents(s)
  <2>1. UNCHANGED <<page, tenant>> /\ net' = Done(net, s)
    BY <1>7 DEF TakeEvents
  <2>2. DOMAIN view' = ViewFields /\ view'.sel = view.sel
    BY <1>0, <1>7 DEF TakeEvents, ViewFields
  <2>3. page = "audit"
    BY <1>7, <1>t DEF TakeEvents, Answered, TimelyCall
  <2> QED BY <1>0, <1>d, <2>1, <2>2, <2>3, ShownElsewhere, ViewsStep
<1> QED BY <1>1, <1>2, <1>3, <1>4, <1>5, <1>6, <1>7 DEF ViewsTake

LEMMA ViewsServeStep ==
  ASSUME WebInv, NEW s \in Slot, ViewsServe(s), UNCHANGED <<mainVars, sec>>
  PROVE  WebInv'
<1>1. /\ GoodNet(net, page, tenant, view.sel) /\ JobsInv' /\ PoliciesInv'
      /\ UNCHANGED <<view, page, tenant>>
  BY PoliciesStay, JobsStay
  DEF WebInv, NetInv, ViewsServe, mainVars, policiesVars, jobsVars
<1>2. CASE ServeReport(s)
  <2>1. /\ net[s].op = "report" /\ net[s].arg.sel.tab \in ReportTab \ {"overview"}
        /\ Refuse(s) \/ \E rows \in Reports[net[s].arg.sel.tab] : Reply(s, rows)
    BY <1>1, <1>2 DEF ServeReport, Asked, GoodNet, GoodCall, SoundCall
  <2>2. CASE Refuse(s)
    <3>1. GoodNet(net', page, tenant, view.sel)
      BY <1>1, <2>2, RefusedIsGood DEF Refuse
    <3> QED BY <1>1, <3>1, NothingElse
  <2>3. CASE \E rows \in Reports[net[s].arg.sel.tab] : Reply(s, rows)
    <3>1. PICK rows \in Reports[net[s].arg.sel.tab] : Reply(s, rows)
      BY <2>3
    <3>2. Tally(rows)
      BY <2>1, ReportsAssumption DEF Tally
    <3>3. GoodNet(net', page, tenant, view.sel)
      BY <1>1, <2>1, <3>1, <3>2, RepliedIsGood DEF Reply
    <3> QED BY <1>1, <3>3, NothingElse
  <2> QED BY <2>1, <2>2, <2>3
<1>3. CASE ServeStats(s) \/ ServeAudit(s) \/ ServeDrives(s)
  <2>1. /\ net[s].op \notin {"policies", "report"}
        /\ \E v : Reply(s, v) \/ Refuse(s)
    BY <1>3 DEF ServeStats, ServeAudit, ServeDrives, Asked
  <2>2. GoodNet(net', page, tenant, view.sel)
    BY <1>1, <2>1, AnsweredIsGood
  <2> QED BY <1>1, <2>2, NothingElse
<1> QED BY <1>2, <1>3 DEF ViewsServe

-----------------------------------------------------------------------------
(* The session.                                                            *)

LEMMA MountsAreGood ==
  ASSUME NEW n, NEW p \in Pages, NEW tn, NEW sel, GoodNet(n, p, tn, sel)
  PROVE  GoodNet(Mounts(n, p), p, tn, sel)
<1>p. Plain("tenantList") /\ Plain("tenants")
  BY DEF Plain
<1>1. CASE p = "audit"
  <2>1. GoodCall(NewCall("audit", FirstSel[p]), p, tn, sel)
    BY <1>1 DEF GoodCall, SoundCall, TimelyCall, NewCall
  <2>2. Mounts(n, p) = Sent(n, "audit", FirstSel[p])
    BY <1>1 DEF Mounts, MountView
  <2> QED BY <2>1, <2>2, SentIsGood
<1>2. CASE p # "audit"
  <2>1. \/ Mounts(n, p) = n
        \/ Mounts(n, p) = Sent(n, "tenantList", <<>>)
        \/ Mounts(n, p) = Sent(n, "tenants", <<>>)
    BY <1>2 DEF Mounts, MountView, MountSecurity
  <2> QED BY <1>p, <2>1, PlainSentIsGood
<1> QED BY <1>1, <1>2

LEMMA NewViewShows ==
  ASSUME NEW p
  PROVE  ShownInv(NewView(p), p, NoTenant)
BY NothingToTally DEF ShownInv, NewView, FirstSel, Sel, Pages, ReportTab

LEMMA LeaveStep ==
  ASSUME WebInv, Leave
  PROVE  WebInv'
<1>1. /\ GoodNet(net, page, tenant, view.sel) /\ JobsInv /\ PoliciesInv
      /\ tenant' = NoTenant /\ view' = NewView(page')
      /\ net' = Mounts(Left(net, Writes), page')
      /\ form' = Closed /\ pp' = NewPolicyPage /\ dialog' = NoPolicyDialog
      /\ UNCHANGED <<jobs, policies>>
  BY DEF WebInv, NetInv, Leave
<1>2. page' \in Pages
  BY DEF Leave, Routes
<1>3. GoodNet(Left(net, Writes), page', tenant', view'.sel)
  BY <1>1, LeftIsGood
<1>4. GoodNet(net', page', tenant', view'.sel)
  BY <1>1, <1>2, <1>3, MountsAreGood
<1>5. ShownInv(view', page', tenant')
  BY <1>1, NewViewShows
<1>6. JobsInv'
  BY <1>1 DEF JobsInv, IsJob
<1>7. PoliciesInv'
  BY <1>1 DEF PoliciesInv, IsPolicy, NewPolicyPage, NoRows
<1> QED BY <1>4, <1>5, <1>6, <1>7 DEF WebInv, NetInv, ViewInv

LEMMA SessionStep ==
  ASSUME WebInv,
         \/ Network
         \/ \E s \in Slot : (ServeTenants(s) \/ DropAnswer(s)) /\ UNCHANGED pageVars
  PROVE  WebInv'
<1>1. /\ GoodNet(net, page, tenant, view.sel) /\ JobsInv' /\ PoliciesInv'
      /\ UNCHANGED <<view, page, tenant>>
  BY PoliciesStay, JobsStay
  DEF WebInv, NetInv, Network, LoseCall, TokenExpires, ServeTenants, DropAnswer,
      pageVars, mainVars, otherVars, viewVars, policiesVars, jobsVars
<1> DEFINE G(n) == GoodNet(n, page, tenant, view.sel)
<1>2. CASE Network
  <2>1. UNCHANGED net \/ \E s \in Slot : Refuse(s)
    BY <1>2 DEF Network, LoseCall, TokenExpires
  <2>2. G(net')
    BY <1>1, <2>1, RefusedIsGood DEF Refuse
  <2> QED BY <1>1, <2>2, NothingElse
<1>3. CASE \E s \in Slot : (ServeTenants(s) \/ DropAnswer(s)) /\ UNCHANGED pageVars
  <2> PICK s \in Slot : ServeTenants(s) \/ DropAnswer(s)
    BY <1>3
  <2>1. CASE ServeTenants(s)
    <3>1. G(net')
      BY <1>1, <2>1, AnsweredIsGood DEF ServeTenants, Asked
    <3> QED BY <1>1, <3>1, NothingElse
  <2>2. CASE DropAnswer(s)
    <3>1. G(net')
      BY <1>1, <2>2, DoneIsGood DEF DropAnswer
    <3> QED BY <1>1, <3>1, NothingElse
  <2> QED BY <2>1, <2>2
<1> QED BY <1>2, <1>3

-----------------------------------------------------------------------------
(* The theorems.                                                           *)

LEMMA InitWebInv == Init => WebInv
<1> SUFFICES ASSUME Init PROVE WebInv
  OBVIOUS
<1>1. page \in Pages /\ tenant = NoTenant /\ view = NewView(page)
  BY DEF Init, SessionInit, Routes, ViewsInit
<1>2. GoodNet(IdleNet, page, tenant, view.sel)
  BY IdleIsGood DEF GoodNet, IdleNet
<1>3. NetInv
  BY <1>1, <1>2, MountsAreGood DEF Init, NetInv
<1>4. ViewInv
  BY <1>1, NewViewShows DEF ViewInv
<1>5. JobsInv
  BY FirstJobsAssumption DEF Init, JobsInit, JobsInv, IsJob
<1>6. PoliciesInv
  <2>1. /\ policies \in FirstPolicies
        /\ pp = NewPolicyPage /\ dialog = NoPolicyDialog
    BY DEF Init, PoliciesInit
  <2>2. policies \in Seq(Range(policies))
    BY <2>1, FirstPoliciesAssumption
  <2>3. ASSUME NEW i \in 1 .. Len(policies) PROVE IsPolicy(policies[i])
    <3>1. /\ "rules" \in DOMAIN policies[i]
          /\ policies[i].rules \in [patterns : Sit] \cup CustomRules
      BY <2>1, FirstPoliciesAssumption
    <3>2. ASSUME NEW r \in [patterns : Sit] PROVE r = SitRules(r.patterns)
      BY DEF SitRules
    <3> QED BY <3>1, <3>2 DEF IsPolicy, IsRules
  <2> QED BY <2>1, <2>2, <2>3 DEF PoliciesInv, NewPolicyPage, NoRows
<1> QED BY <1>3, <1>4, <1>5, <1>6 DEF WebInv

LEMMA NextWebInv == WebInv /\ BoxInv /\ [Next]_vars => WebInv'
<1> SUFFICES ASSUME WebInv, BoxInv, [Next]_vars PROVE WebInv'
  OBVIOUS
<1>1. CASE Clicks
  BY <1>1, JobsClicksStep, PoliciesClicksStep, AutoLabelClicksStep, ViewsClicksStep,
     SecurityClicksStep, LeaveStep DEF Clicks
<1>2. CASE Network
  BY <1>2, SessionStep
<1>3. CASE SearchSites /\ UNCHANGED <<policiesVars, autoLabelVars, otherVars>>
  BY <1>3, SearchSitesStep
<1>4. ASSUME NEW s \in Slot, Serves(s) PROVE WebInv'
  BY <1>4, SessionStep, JobsServesStep, ServeOverviewStep, ServeSheetsStep,
     ViewsServeStep, SecurityServesStep DEF Serves
<1>5. ASSUME NEW s \in Slot, Takes(s) PROVE WebInv'
  BY <1>5, SessionStep, JobsTakesStep, PoliciesRunStep, AutoLabelTakesStep,
     ViewsTakeStep, SecurityTakesStep DEF Takes
<1>6. CASE Worker
  BY <1>6, WorkerStep
<1>7. CASE Customer
  BY <1>7, CustomerStep
<1>8. CASE UNCHANGED vars
  <2>1. /\ GoodNet(net, page, tenant, view.sel) /\ JobsInv' /\ PoliciesInv'
        /\ UNCHANGED <<net, view, page, tenant>>
    BY <1>8, PoliciesStay, JobsStay
    DEF WebInv, NetInv, vars, session, pageVars, mainVars, otherVars, viewVars,
        policiesVars, jobsVars
  <2> QED BY <2>1, NothingElse
<1> QED BY <1>1, <1>2, <1>3, <1>4, <1>5, <1>6, <1>7, <1>8 DEF Next, Runs

LEMMA FreshBox ==
  ASSUME NEW b
  PROVE  Fresh(b).kind # "none" => "file" \in DOMAIN Fresh(b) /\ Fresh(b).file \in 0 .. Len(Sheets)
BY DEF Fresh, NewUpload, NewRemove, NoBox

\* Only Auto-Label and leaving a page change the dialog, ...
LEMMA BoxOrElse ==
  ASSUME [Next]_vars
  PROVE  UNCHANGED box \/ AutoLabelClicks \/ (\E s \in Slot : AutoLabelTakes(s)) \/ box' = NoBox
<1>1. CASE Clicks
  BY <1>1 DEF Clicks, Leave, autoLabelVars, mainVars
<1>2. CASE Network
  BY <1>2 DEF Network, pageVars, mainVars, autoLabelVars
<1>3. CASE Runs
  <2>1. ASSUME NEW s \in Slot, Serves(s) PROVE UNCHANGED box
    BY <2>1 DEF Serves, pageVars, mainVars, autoLabelVars, ServeOverview, ServeSheets
  <2>2. ASSUME NEW s \in Slot, Takes(s) PROVE UNCHANGED box \/ AutoLabelTakes(s)
    BY <2>2 DEF Takes, pageVars, mainVars, autoLabelVars
  <2> QED BY <1>3, <2>1, <2>2 DEF Runs, autoLabelVars
<1>4. CASE Worker \/ Customer \/ UNCHANGED vars
  BY <1>4 DEF Worker, Customer, autoLabelVars, vars, pageVars, mainVars
<1> QED BY <1>1, <1>2, <1>3, <1>4 DEF Next

LEMMA NextBoxInv == BoxInv /\ [Next]_vars => BoxInv'
<1> SUFFICES ASSUME BoxInv, [Next]_vars PROVE BoxInv'
  OBVIOUS
<1> DEFINE Same == box.kind # "none" /\ "file" \in DOMAIN box' /\ box'.file = box.file
<1>e. ASSUME box.kind # "none"
      PROVE  /\ "file" \in DOMAIN box /\ box.file \in 0 .. Len(Sheets)
  BY <1>e DEF BoxInv
<1>1. CASE AutoLabelClicks
  <2>1. CASE AutoLabelSelectTenant
    BY <2>1, FreshBox DEF AutoLabelSelectTenant, LoadOverview, BoxInv
  <2>2. CASE QuickStartJob
    BY <2>2 DEF QuickStartJob, BoxInv
  <2>3. CASE OpenBox
    BY <2>3 DEF OpenBox, NewUpload, NewRemove, BoxInv
  <2>4. CASE CloseBox
    BY <2>4, FreshBox DEF CloseBox, LoadOverview, BoxInv, NoBox
  <2>5. CASE FillBox
    <3>1. box.kind # "none"
      BY <2>5 DEF FillBox
    <3>2. \/ \E i \in 1 .. Len(Sheets) : box' = [box EXCEPT !.file = i]
          \/ \E m : box' = [box EXCEPT !.mode = m]
      BY <2>5 DEF FillBox
    <3>3. ASSUME NEW i \in 1 .. Len(Sheets), box' = [box EXCEPT !.file = i]
          PROVE  "file" \in DOMAIN box' /\ box'.file \in 0 .. Len(Sheets)
      BY <1>e, <3>1, <3>3
    <3>4. ASSUME NEW m, box' = [box EXCEPT !.mode = m]
          PROVE  "file" \in DOMAIN box' /\ box'.file \in 0 .. Len(Sheets)
      BY <1>e, <3>1, <3>4
    <3> QED BY <3>2, <3>3, <3>4 DEF BoxInv
  <2>6. CASE SendBox
    <3>1. box.kind # "none" /\ (UNCHANGED box \/ box' = [box EXCEPT !.busy = TRUE])
      BY <2>6 DEF SendBox
    <3>2. "file" \in DOMAIN box' /\ box'.file \in 0 .. Len(Sheets)
      BY <1>e, <3>1
    <3> QED BY <3>2 DEF BoxInv
  <2> QED BY <1>1, <2>1, <2>2, <2>3, <2>4, <2>5, <2>6 DEF AutoLabelClicks
<1>2. ASSUME NEW s \in Slot, AutoLabelTakes(s) PROVE BoxInv'
  <2>1. CASE AutoLabelTakeTenants(s)
    BY <2>1, FreshBox DEF AutoLabelTakeTenants, LoadOverview, BoxInv
  <2>2. CASE TakeOverview(s)
    BY <2>2 DEF TakeOverview, BoxInv
  <2>3. CASE TakeQuickStart(s)
    BY <2>3, FreshBox DEF TakeQuickStart, LoadOverview, BoxInv
  <2>4. CASE TakeBox(s)
    <3>1. \/ UNCHANGED box
          \/ box.kind # "none" /\ box' = [box EXCEPT !.busy = FALSE, !.done = Succeeded(s)]
      BY <2>4 DEF TakeBox
    <3>2. ASSUME box.kind # "none", box' = [box EXCEPT !.busy = FALSE, !.done = Succeeded(s)]
          PROVE  "file" \in DOMAIN box' /\ box'.file \in 0 .. Len(Sheets)
      BY <1>e, <3>2
    <3> QED BY <3>1, <3>2 DEF BoxInv
  <2> QED BY <1>2, <2>1, <2>2, <2>3, <2>4 DEF AutoLabelTakes
<1>3. CASE UNCHANGED box \/ box' = NoBox
  BY <1>3 DEF BoxInv, NoBox
<1> QED BY <1>1, <1>2, <1>3, BoxOrElse

LEMMA SpecBoxInv == Spec => []BoxInv
<1>1. Init => BoxInv
  BY DEF Init, AutoLabelInit, BoxInv, NoBox
<1> QED BY <1>1, NextBoxInv, PTL DEF Spec

\* Every call in flight is one the mounted page stands for, and the server's
\* tables, the rows, the dialogs and the reports agree with it: the invariant
\* the other theorems rest on.
THEOREM SpecWebInv == Spec => []WebInv
<1>1. Init => WebInv
  BY InitWebInv
<1>2. WebInv /\ BoxInv /\ [Next]_vars => WebInv'
  BY NextWebInv
<1> QED BY <1>1, <1>2, SpecBoxInv, PTL DEF Spec

\* A job does what its dialog showed when it was submitted, whatever had been
\* filled in and hidden again before, from the jobs page as from Auto-Label,
\* and so does every copy of it. (handleSubmit of CreateJobDialog)
THEOREM SpecJobsAreAsShown == Spec => []JobsAreAsShown
<1>1. WebInv => JobsAreAsShown
  BY DEF WebInv, JobsInv, IsJob, JobsAreAsShown
<1> QED BY <1>1, SpecWebInv, PTL

\* No sequence of edits, saves, copies and toggles makes a filled-in policy that
\* labels a file in which it finds nothing. (RuleBuilder's editors)
THEOREM SpecPoliciesNeedEvidence == Spec => []PoliciesNeedEvidence
<1>1. ASSUME WebInv PROVE PoliciesNeedEvidence
  <2> SUFFICES ASSUME NEW i \in 1 .. Len(policies), ~IsSit(policies[i].rules),
                      Explicit(policies[i].rules)
               PROVE  ~Matches(policies[i].rules)
    BY DEF PoliciesNeedEvidence
  <2>1. IsRules(policies[i].rules)
    BY <1>1 DEF WebInv, PoliciesInv, IsPolicy
  <2>2. policies[i].rules \in CustomRules
    BY <2>1 DEF IsRules, IsSit, SitRules
  <2> QED BY <2>2, RulesNeedEvidence
<1> QED BY <1>1, SpecWebInv, PTL

\* The charts and the dashboard show the tenant, the tab and the days that are
\* selected, in whatever order the answers arrive. (the effects' clean-ups)
THEOREM SpecViewsShowWhatIsSelected == Spec => []ViewsShowWhatIsSelected
<1>1. WebInv => ViewsShowWhatIsSelected
  BY DEF WebInv, ViewInv, ShownInv, ViewsShowWhatIsSelected, ChartShown
<1> QED BY <1>1, SpecWebInv, PTL

\* Only an accepted removal is added to the log of removals.
LEMMA RemovedOrElse ==
  ASSUME [Next]_vars
  PROVE  UNCHANGED removed \/ \E s \in Slot : ServeSheets(s)
<1>1. CASE Clicks
  BY <1>1 DEF Clicks, Leave, autoLabelVars, mainVars, AutoLabelClicks, AutoLabelSelectTenant,
              QuickStartJob, OpenBox, CloseBox, FillBox, SendBox
<1>2. CASE Network
  BY <1>2 DEF Network, pageVars, mainVars, autoLabelVars
<1>3. CASE Runs
  <2>1. ASSUME NEW s \in Slot, Serves(s) PROVE UNCHANGED removed \/ ServeSheets(s)
    BY <2>1 DEF Serves, pageVars, mainVars, autoLabelVars, ServeOverview
  <2>2. ASSUME NEW s \in Slot, Takes(s) PROVE UNCHANGED removed
    BY <2>2 DEF Takes, pageVars, mainVars, autoLabelVars, AutoLabelTakes, AutoLabelTakeTenants,
                TakeOverview, TakeQuickStart, TakeBox
  <2> QED BY <1>3, <2>1, <2>2 DEF Runs, autoLabelVars
<1>4. CASE Worker \/ Customer \/ UNCHANGED vars
  BY <1>4 DEF Worker, Customer, autoLabelVars, vars, pageVars, mainVars
<1> QED BY <1>1, <1>2, <1>3, <1>4 DEF Next

\* A bulk removal names the drive and the item of every row of the chosen
\* spreadsheet that has both, and no other, for any spreadsheet whose cells hold
\* no line break, whatever the order of its columns and whatever else its cells
\* hold. (parseCsvLine, handleRemove)
THEOREM SpecRemovesWhatTheSheetLists == Spec => []RemovesWhatTheSheetLists
<1>1. Init => RemovesWhatTheSheetLists
  BY DEF Init, AutoLabelInit, RemovesWhatTheSheetLists
<1>2. ASSUME WebInv, RemovesWhatTheSheetLists, [Next]_vars PROVE RemovesWhatTheSheetLists'
  <2>1. CASE UNCHANGED removed
    BY <1>2, <2>1 DEF RemovesWhatTheSheetLists
  <2>2. ASSUME NEW s \in Slot, ServeSheets(s) PROVE RemovesWhatTheSheetLists'
    <3> DEFINE a == net[s].arg
               r == [items |-> a.items, mode |-> a.mode, sheet |-> a.sheet]
    <3>1. UNCHANGED removed \/ (net[s].op = "remove" /\ removed' = removed \cup {r})
      BY <2>2 DEF ServeSheets, Asked
    <3>2. net[s].op = "remove" =>
            (OneLineCells(Sheets[r.sheet]) => r.items = Listed(Sheets[r.sheet]))
      BY <1>2 DEF WebInv, NetInv, GoodNet, GoodCall, SoundCall
    <3> HIDE DEF r
    <3> QED BY <1>2, <3>1, <3>2 DEF RemovesWhatTheSheetLists
  <2> QED BY <1>2, <2>1, <2>2, RemovedOrElse
<1> QED BY <1>1, <1>2, SpecWebInv, PTL DEF Spec

\* Every job, label and batch a report counts is drawn once, and a chart of
\* detections draws no more than there are, for any rows the queries return,
\* whichever of them share a mark on the axis. (the pivots of ReportsPage)
THEOREM SpecChartsAddUp == Spec => []ChartsAddUp
<1>1. ASSUME WebInv PROVE ChartsAddUp
  <2> SUFFICES ASSUME ChartShown
               PROVE  LET drawn == Drawn(ChartPanel(view.sel.tab, view.rows))
                          counted == Counted(view.rows)
                      IN  IF view.sel.tab = "detections" THEN drawn <= counted
                                                         ELSE drawn = counted
    BY DEF ChartsAddUp
  <2>1. Tally(view.rows) /\ view.sel.tab \in {"summary", "detections", "labels", "throughput"}
    BY <1>1 DEF WebInv, ViewInv, ShownInv, ChartShown, ReportTab
  <2> QED BY <2>1, ChartsOfRows
<1> QED BY <1>1, SpecWebInv, PTL
=============================================================================
