--------------------------- MODULE RendererSession ----------------------------
(***************************************************************************)
(* What every page of the desktop renderer stands on: App.tsx mounts one   *)
(* page at a time, and a page asks the main process to run commands        *)
(* (usePowerShell).  The main process refuses what buildCommand does not   *)
(* build; the rest waits in the queue of the PowerShell bridge, one at a   *)
(* time, a throttled command joining the end of it again.                  *)
(***************************************************************************)
EXTENDS Naturals, Sequences, FiniteSets, SequencesExt, CommandRegistry

CONSTANTS
  LabelId,      \* external: the sensitivity labels
  Sittings      \* bound: what one use of the application may be: the pages
                \* it goes to, the kinds of things the user does, how often
                \* and how many commands ahead of the answers, and how many
                \* commands fail or are throttled: a set of
                \* [pages, does, clicks, ahead, faults, throttles]

ASSUME RendererAssumption ==
  \A s \in Sittings :
    /\ s.clicks \in Nat /\ s.ahead \in Nat \ {0}
    /\ s.faults \in Nat /\ s.throttles \in Nat

VARIABLES
  page,      \* the page that is mounted
  mount,     \* how many pages have been mounted before it
  calls,     \* the commands in flight, in the order of the bridge's queue
  sitting, clicks, faults, throttled

session == <<page, mount, calls, sitting, clicks, faults, throttled>>

Pages == { "labels", "classify-label", "settings" }

\* Array.filter.  (SelectSeq would do, but nothing can be proved about it.)
Filtered(s, Test(_)) ==
  FlattenSeq([i \in DOMAIN s |-> IF Test(s[i]) THEN <<s[i]>> ELSE <<>>])

\* A command: its parameters by kind, what they say, and which continuation of
\* which page takes its answer.
Call(cmdlet, params, what, for) ==
  [cmdlet |-> cmdlet, params |-> params, what |-> what, for |-> for, at |-> mount,
   st |-> "sent", val |-> <<>>]

Answered(op) ==
  /\ calls # <<>> /\ Head(calls).st # "sent"
  /\ Head(calls).for.op = op
Took == Tail(calls)
Stale == Head(calls).at # mount
Succeeded == Head(calls).st = "ok"

\* The command that PowerShell runs next, once what it is has been let through.
Waiting == { i \in DOMAIN calls : calls[i].st = "sent" }
Next1 == CHOOSE i \in Waiting : \A j \in Waiting : i <= j
Running(cmdlet) ==
  /\ Waiting # {}
  /\ calls[Next1].cmdlet = cmdlet
  /\ Builds(cmdlet, calls[Next1].params)
Answer(st, val) == calls' = [calls EXCEPT ![Next1].st = st, ![Next1].val = val]
\* Whether a parameter has made it into the command that runs.
Says(key) == key \in Rendered(calls[Next1].cmdlet, calls[Next1].params)

\* invokeStructured: buildCommand throws.
RefuseCall ==
  /\ Waiting # {}
  /\ ~Builds(calls[Next1].cmdlet, calls[Next1].params)
  /\ Answer("failed", <<>>)
  /\ UNCHANGED <<page, mount, sitting, clicks, faults, throttled>>

\* A command fails without having had an effect.
FailCall ==
  /\ Waiting # {}
  /\ faults < sitting.faults /\ faults' = faults + 1
  /\ Answer("failed", <<>>)
  /\ UNCHANGED <<page, mount, sitting, clicks, throttled>>

\* invokeWithRetry: it is sent again after those that have been waiting.
ThrottleCall ==
  /\ Waiting # {}
  /\ throttled < sitting.throttles /\ throttled' = throttled + 1
  /\ calls' = Append(RemoveAt(calls, Next1), calls[Next1])
  /\ UNCHANGED <<page, mount, sitting, clicks, faults>>

Click(kind) ==
  /\ kind \in sitting.does /\ clicks < sitting.clicks
  /\ Len(calls) < sitting.ahead
  /\ clicks' = clicks + 1
  /\ UNCHANGED <<sitting, faults, throttled>>

Kept == UNCHANGED <<page, mount, sitting, clicks, faults, throttled>>

SessionInit ==
  /\ sitting \in Sittings
  /\ page \in sitting.pages
  /\ mount = 0 /\ clicks = 0 /\ faults = 0 /\ throttled = 0

SessionTypeOK ==
  /\ page \in Pages /\ mount \in Nat
  /\ \A i \in DOMAIN calls :
       /\ calls[i].st \in {"sent", "ok", "failed"} /\ calls[i].at \in 0 .. mount
       /\ \A key \in DOMAIN calls[i].params : calls[i].params[key] \in Kinds
  /\ sitting \in Sittings
  /\ clicks \in 0 .. sitting.clicks /\ faults \in 0 .. sitting.faults
  /\ throttled \in 0 .. sitting.throttles

\* Every command a page sends names a cmdlet of the registry, none but its
\* parameters and all that it requires: the renderer and the main process are
\* checked against each other nowhere else.
CallsKeepTheContract ==
  \A i \in DOMAIN calls : KeepsContract(calls[i].cmdlet, calls[i].params)
=============================================================================
