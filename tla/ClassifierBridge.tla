--------------------------- MODULE ClassifierBridge ----------------------------
(***************************************************************************)
(* ClassifierBridge of classifier-bridge.ts: one Python process is started *)
(* on demand, requests are written to it one at a time, and answers find   *)
(* their request by its id.  A step is one task of Node's event loop; the  *)
(* clients are those of DesktopMain.                                       *)
(***************************************************************************)
EXTENDS Integers, Sequences, FiniteSets

CONSTANTS
  Id,            \* ids of requests
  MaxProcs,      \* bound: processes that come up
  MaxCrashes     \* bound: crashes of a process

ASSUME ClassifierAssumption == MaxProcs \in Nat \ {0} /\ MaxCrashes \in Nat

\* An id is random, and nothing else that a result may be.
ASSUME IdsAreUnique == Id \cap {"none", "error", "rejected", "ready"} = {}

CProc == 1 .. MaxProcs
NoProc == 0
NoId == "none"

VARIABLES
  cb,       \* the fields of the bridge
  cps,      \* the processes
  ask,      \* the requests
  crashes

cvars == <<cb, cps, ask, crashes>>

\* startup: '__startup__' is pending, and the requests in waiting await it.
\* cur: the one request that is written and pending; none while not writing.
CBridge ==
  [proc : CProc \cup {NoProc}, init : BOOLEAN, startup : BOOLEAN,
   waiting : Seq(Id), queue : Seq(Id), cur : Id \cup {NoId}]

\* The result of a request: the analysis of the text of some request, a
\* structured error, or a rejected promise.
Ask ==
  [pc : {"idle", "sent", "done"}, result : Id \cup {"none", "error", "rejected"}]

CProcess ==
  [state : {"none", "booting", "up", "dead", "closed"}, doomed : BOOLEAN,
   todo : Seq(Id), out : Seq(Id \cup {"ready"})]

\* What is queued waits for a request that is written.
ClassifierTypeOK ==
  /\ cb \in CBridge
  /\ cb.queue # <<>> => cb.cur # NoId /\ cb.proc # NoProc
  /\ cps \in [CProc -> CProcess]
  /\ ask \in [Id -> Ask]
  /\ crashes \in 0 .. MaxCrashes

ClassifierInit ==
  /\ cb = [proc |-> NoProc, init |-> FALSE, startup |-> FALSE,
           waiting |-> <<>>, queue |-> <<>>, cur |-> NoId]
  /\ cps = [p \in CProc |-> [state |-> "none", doomed |-> FALSE, todo |-> <<>>,
                             out |-> <<>>]]
  /\ ask = [i \in Id |-> [pc |-> "idle", result |-> "none"]]
  /\ crashes = 0

CNow == [cb |-> cb, cps |-> cps, ask |-> ask]
CBecome(s) == cb' = s.cb /\ cps' = s.cps /\ ask' = s.ask

Members(q) == { q[k] : k \in DOMAIN q }
Pending == IF cb.cur = NoId THEN {} ELSE {cb.cur}

CSettle(s, ids, result) ==
  [s EXCEPT !.ask = [i \in Id |->
     IF i \in ids THEN [pc |-> "done", result |-> result] ELSE s.ask[i]]]

\* The next command of the queue is written; without a process all are told so.
CProcessQueue(s) ==
  IF s.cb.cur # NoId \/ s.cb.queue = <<>> THEN s
  ELSE IF s.cb.proc = NoProc
    THEN [CSettle(s, Members(s.cb.queue), "error") EXCEPT !.cb.queue = <<>>]
    ELSE [s EXCEPT !.cb.queue = Tail(@), !.cb.cur = Head(s.cb.queue),
                   !.cps[s.cb.proc].todo = Append(@, Head(s.cb.queue))]

Done(s) == CProcessQueue([s EXCEPT !.cb.cur = NoId])

-----------------------------------------------------------------------------

Unstarted == { p \in CProc : cps[p].state = "none" }

\* invoke, and ensureInitialized: a start under way is waited for.
CInvoke(i) ==
  /\ ask[i].pc = "idle"
  /\ LET s == [CNow EXCEPT !.ask[i].pc = "sent"]
     IN  \/ /\ cb.init /\ cb.proc # NoProc
            /\ CBecome(CProcessQueue([s EXCEPT !.cb.queue = Append(@, i)]))
         \/ /\ ~cb.init /\ cb.startup
            /\ CBecome([s EXCEPT !.cb.waiting = Append(@, i)])
         \/ /\ ~cb.init /\ ~cb.startup
            /\ Unstarted # {}
            /\ LET p == CHOOSE q \in Unstarted : \A o \in Unstarted : q <= o
               IN  CBecome([s EXCEPT !.cb.proc = p, !.cb.startup = TRUE,
                              !.cb.waiting = <<i>>, !.cps[p].state = "booting"])
         \/ \* The new process closes before it has said anything.
            /\ ~cb.init /\ ~cb.startup
            /\ CBecome([CSettle(s, {i}, "error") EXCEPT !.cb.proc = NoProc])
  /\ UNCHANGED crashes

\* Mutant: a line settles whatever request is pending.
OnLineInOrder(p) ==
  /\ cps[p].out # <<>>
  /\ LET line == Head(cps[p].out)
         s == [CNow EXCEPT !.cps[p].out = Tail(@)]
     IN  CBecome(
           CASE line = "ready" /\ cb.startup ->
                  CProcessQueue([s EXCEPT !.cb.startup = FALSE, !.cb.init = TRUE,
                     !.cb.queue = @ \o cb.waiting, !.cb.waiting = <<>>])
             [] line # "ready" /\ cb.cur # NoId -> Done(CSettle(s, {cb.cur}, line))
             [] OTHER -> s)
  /\ UNCHANGED crashes

\* _processBuffer with a line: the answer to a pending request, the "ready" that
\* a startup awaits, of whatever process, or nothing that is pending any more.
OnLine(p) ==
  /\ cps[p].out # <<>>
  /\ LET line == Head(cps[p].out)
         s == [CNow EXCEPT !.cps[p].out = Tail(@)]
     IN  CBecome(
           CASE line = "ready" /\ cb.startup ->
                  CProcessQueue([s EXCEPT !.cb.startup = FALSE, !.cb.init = TRUE,
                     !.cb.queue = @ \o cb.waiting, !.cb.waiting = <<>>])
             [] line = cb.cur -> Done(CSettle(s, {line}, line))
             [] OTHER -> s)
  /\ UNCHANGED crashes

\* The request is given up, not the process nor the work it does on it.
CTimeOut ==
  /\ cb.cur # NoId
  /\ CBecome(Done(CSettle(CNow, {cb.cur}, "error")))
  /\ UNCHANGED crashes

\* Nobody kills the process that is slow to start.
StartupTimeOut ==
  /\ cb.startup
  /\ CBecome([CSettle(CNow, Members(cb.waiting), "error") EXCEPT
                !.cb.startup = FALSE, !.cb.waiting = <<>>])
  /\ UNCHANGED crashes

\* What 'close' and dispose do: the pending request is rejected, a startup
\* fails, and what is queued finds no process.
Gone(s) ==
  LET t == CSettle(CSettle(s, Pending, "rejected"), Members(cb.waiting), "error")
  IN  Done([t EXCEPT !.cb.proc = NoProc, !.cb.init = FALSE,
                     !.cb.startup = FALSE, !.cb.waiting = <<>>])

\* Mutant: only the pending request hears of it.
COnCloseKeepsWaiting(p) ==
  /\ cps[p].state = "dead" /\ cps[p].out = <<>>
  /\ LET t == CSettle(CNow, Pending, "rejected")
     IN  CBecome([t EXCEPT !.cb.proc = NoProc, !.cb.init = FALSE, !.cb.cur = NoId,
                           !.cb.startup = FALSE, !.cps[p].state = "closed"])
  /\ UNCHANGED crashes

\* It need not be the process in use.
COnClose(p) ==
  /\ cps[p].state = "dead" /\ cps[p].out = <<>>
  /\ CBecome(Gone([CNow EXCEPT !.cps[p].state = "closed"]))
  /\ UNCHANGED crashes

CDispose ==
  IF cb.proc = NoProc
    THEN UNCHANGED cvars
    ELSE CBecome(Gone([CNow EXCEPT !.cps[cb.proc].doomed = TRUE]))
         /\ UNCHANGED crashes

CHandlers(p) == OnLine(p) \/ COnClose(p)

-----------------------------------------------------------------------------
(* The process.                                                            *)

Boot(p) ==
  /\ cps[p].state = "booting"
  /\ cps' = [cps EXCEPT ![p].state = "up", ![p].out = Append(@, "ready")]
  /\ UNCHANGED <<cb, ask, crashes>>

Work(p) ==
  /\ cps[p].state = "up" /\ cps[p].todo # <<>>
  /\ cps' = [cps EXCEPT ![p].todo = Tail(@), ![p].out = Append(@, Head(cps[p].todo))]
  /\ UNCHANGED <<cb, ask, crashes>>

Exit(p) == cps' = [cps EXCEPT ![p].state = "dead", ![p].todo = <<>>]

CCrash(p) ==
  /\ cps[p].state \in {"booting", "up"}
  /\ crashes < MaxCrashes /\ crashes' = crashes + 1
  /\ Exit(p)
  /\ UNCHANGED <<cb, ask>>

\* stdin has ended, or the timer of dispose has killed it.
CKill(p) ==
  /\ cps[p].doomed /\ cps[p].state \in {"booting", "up"}
  /\ Exit(p)
  /\ UNCHANGED <<cb, ask, crashes>>

Classifier(p) == Boot(p) \/ Work(p) \/ CCrash(p) \/ CKill(p)

=============================================================================
