------------------------------- MODULE Scheduler -------------------------------
(***************************************************************************)
(* Scheduled jobs: the cron task trigger_scheduled_jobs of                 *)
(* app/worker/settings.py.  Every minute arq queues one tick; it runs once *)
(* one of the worker's slots is free, which may be later, and beside other *)
(* ticks.  A tick clones each scheduled job that is due and dispatches the *)
(* clone.                                                                  *)
(***************************************************************************)
EXTENDS Integers, FiniteSets

CONSTANTS
  Source,     \* jobs that have a schedule_cron
  Due,        \* set of <<source, minute>>: when is_cron_due holds
  Broken,     \* sources whose expression makes is_cron_due raise ("*/0 ...")
  Slots,      \* WorkerSettings.max_jobs
  MaxMinute,  \* bound: minutes that pass
  MaxCopies,  \* bound: copies users make
  MaxFaults   \* bound: ticks that are cut short

Minute == 0 .. MaxMinute

ASSUME SchedulerAssumption ==
  /\ MaxMinute \in Nat
  /\ Due \subseteq Source \X Minute
  /\ Broken \subseteq Source
  /\ Slots \in Nat \ {0}
  /\ MaxCopies \in Nat
  /\ MaxFaults \in Nat

VARIABLES
  minute,    \* the clock
  eligible,  \* sources that are completed or pending
  tick,      \* the tick queued for each minute
  clones,    \* the jobs created by ticks
  copies,    \* <<source, minute>> of the copies users made of a source
  busy,      \* slots taken by other tasks
  overlaps,  \* history: pairs of ticks that ran at the same time
  faults

vars == <<minute, eligible, tick, clones, copies, busy, overlaps, faults>>

\* now is what the tick read when it began; txn the minute its database
\* transaction began, which is what PostgreSQL's now() yields; found the jobs
\* its query found, todo those it has not looked at yet, cur the one it is
\* cloning; cut tells that it was cut short.
Tick ==
  [state : {"none", "queued", "running", "done"},
   pc : {"next", "create", "enqueue"}, now : Minute, txn : Minute,
   found : SUBSET Source, todo : SUBSET Source, cur : SUBSET Source,
   cut : BOOLEAN]

\* A clone: its source_job_id, the minute it is for, its created_at, the
\* tick that created it, and whether its run_job has been enqueued.
Clone ==
  [source : Source, due : Minute, born : Minute, tick : Minute,
   sent : BOOLEAN]

\* arq's accounts of its slots.
Running(m) == tick[m].state = "running"
Used == busy + Cardinality({ m \in Minute : Running(m) })

TypeOK ==
  /\ minute \in Minute
  /\ eligible \subseteq Source
  /\ tick \in [Minute -> Tick]
  /\ clones \subseteq Clone
  /\ copies \subseteq Source \X Minute
  /\ busy \in 0 .. Slots /\ Used <= Slots
  /\ overlaps \subseteq SUBSET Minute
  /\ faults \in 0 .. MaxFaults

NewTick == [state |-> "none", pc |-> "next", now |-> 0, txn |-> 0,
            found |-> {}, todo |-> {}, cur |-> {}, cut |-> FALSE]

Init ==
  /\ minute = 0
  /\ eligible = Source
  /\ tick = [m \in Minute |->
               IF m = 0 THEN [NewTick EXCEPT !.state = "queued"] ELSE NewTick]
  /\ clones = {}
  /\ copies = {}
  /\ busy = 0
  /\ overlaps = {}
  /\ faults = 0

-----------------------------------------------------------------------------
(* Surroundings.                                                           *)

\* arq queues the tick of the next minute, under an id of its own.
ClockAdvances ==
  /\ minute < MaxMinute
  /\ minute' = minute + 1
  /\ tick' = [tick EXCEPT ![minute + 1].state = "queued"]
  /\ UNCHANGED <<eligible, clones, copies, busy, overlaps, faults>>

\* Users start, cancel or roll back a scheduled job like any other.
SourceChanges(s) ==
  /\ eligible' = IF s \in eligible THEN eligible \ {s} ELSE eligible \cup {s}
  /\ UNCHANGED <<minute, tick, clones, copies, busy, overlaps, faults>>

\* job_action's copy of a job that has ended: source_job_id is set as in a
\* clone, but the copy is pending and nothing is dispatched.  That s has
\* ended is not told apart from its being pending.
Copy(s) ==
  /\ Cardinality(copies) < MaxCopies
  /\ copies' = copies \cup { <<s, minute>> }
  /\ UNCHANGED <<minute, eligible, tick, clones, busy, overlaps, faults>>

\* The labelling jobs themselves hold slots, for up to an hour each.
OthersChange ==
  /\ \E b \in 0 .. Slots :
       /\ b # busy
       /\ b > busy => Used + (b - busy) <= Slots
       /\ busy' = b
  /\ UNCHANGED <<minute, eligible, tick, clones, copies, overlaps, faults>>

-----------------------------------------------------------------------------
(* A tick.                                                                 *)

BeginTick(m) ==
  /\ tick[m].state = "queued"
  /\ Used < Slots
  /\ tick' = [tick EXCEPT ![m] =
       [NewTick EXCEPT !.state = "running", !.now = minute, !.txn = minute,
                       !.found = eligible, !.todo = eligible]]
  /\ overlaps' = overlaps \cup { {m, n} : n \in { n \in Minute : Running(n) } }
  /\ UNCHANGED <<minute, eligible, clones, copies, busy, faults>>

At(m, pc) == Running(m) /\ tick[m].pc = pc

Become(m, t) == tick' = [tick EXCEPT ![m] = t]

\* The rows come in any order.  This one is not due.
SkipNotDue(m) ==
  /\ At(m, "next")
  /\ \E s \in tick[m].todo \ Broken :
       /\ <<s, tick[m].now>> \notin Due
       /\ Become(m, [tick[m] EXCEPT !.todo = @ \ {s}])
  /\ UNCHANGED <<minute, eligible, clones, copies, busy, overlaps, faults>>

\* A row with source_job_id s has been created since minute m.
Recent(s, m) ==
  \/ \E c \in clones : c.source = s /\ c.born >= m
  \/ \E n \in Minute : <<s, n>> \in copies /\ n >= m

\* This one is due: unless there is a recent row for it, it is taken.
GuardSince(m, after) ==
  /\ At(m, "next")
  /\ \E s \in tick[m].todo \ Broken :
       /\ <<s, tick[m].now>> \in Due
       /\ Become(m,
            IF Recent(s, after)
              THEN [tick[m] EXCEPT !.todo = @ \ {s}]
              ELSE [tick[m] EXCEPT !.todo = @ \ {s}, !.cur = {s},
                                   !.pc = "create"])
  /\ UNCHANGED <<minute, eligible, clones, copies, busy, overlaps, faults>>

\* Mutants: a clone of the minute itself is overlooked; any clone will do.
GuardTooLate(m) == GuardSince(m, tick[m].now + 1)
GuardEver(m) == GuardSince(m, 0)

\* recent_stmt: created_at >= the start of the minute of now.
Guard(m) == GuardSince(m, tick[m].now)

\* The clone is committed, and db.refresh begins the next transaction.
CreateClone(m) ==
  /\ At(m, "create")
  /\ \E s \in tick[m].cur :
       clones' = clones \cup { [source |-> s, due |-> tick[m].now,
                                born |-> tick[m].txn, tick |-> m,
                                sent |-> FALSE] }
  /\ Become(m, [tick[m] EXCEPT !.pc = "enqueue", !.txn = minute])
  /\ UNCHANGED <<minute, eligible, copies, busy, overlaps, faults>>

\* Only then is its run_job enqueued.
EnqueueRun(m) ==
  /\ At(m, "enqueue")
  /\ clones' = { IF c.tick = m /\ c.source \in tick[m].cur
                   THEN [c EXCEPT !.sent = TRUE] ELSE c : c \in clones }
  /\ Become(m, [tick[m] EXCEPT !.pc = "next", !.cur = {}])
  /\ UNCHANGED <<minute, eligible, copies, busy, overlaps, faults>>

Over(m, cut) == Become(m, [tick[m] EXCEPT !.state = "done", !.pc = "next",
                                          !.todo = {}, !.cur = {},
                                          !.cut = cut])

EndTick(m) ==
  /\ At(m, "next")
  /\ tick[m].todo = {}
  /\ Over(m, FALSE)
  /\ UNCHANGED <<minute, eligible, clones, copies, busy, overlaps, faults>>

\* is_cron_due divides by zero: nothing catches it, and the tick is over for
\* the jobs behind this one as well.
RaiseOnBroken(m) ==
  /\ At(m, "next")
  /\ tick[m].todo \cap Broken # {}
  /\ Over(m, FALSE)
  /\ UNCHANGED <<minute, eligible, clones, copies, busy, overlaps, faults>>

\* The worker dies or Redis refuses: arq does not deliver a cron task again.
CutShort(m) ==
  /\ Running(m)
  /\ faults < MaxFaults
  /\ faults' = faults + 1
  /\ Over(m, TRUE)
  /\ UNCHANGED <<minute, eligible, clones, copies, busy, overlaps>>

TickStep(m) ==
  \/ BeginTick(m) \/ SkipNotDue(m) \/ Guard(m) \/ CreateClone(m)
  \/ EnqueueRun(m) \/ EndTick(m) \/ RaiseOnBroken(m)

Next ==
  \/ ClockAdvances \/ OthersChange
  \/ \E s \in Source : SourceChanges(s) \/ Copy(s)
  \/ \E m \in Minute : TickStep(m) \/ CutShort(m)

Spec == Init /\ [][Next]_vars

-----------------------------------------------------------------------------
(* Properties.                                                             *)

\* Two clones of one job for the same minute.
Twins(c, d) == c # d /\ c.source = d.source /\ c.due = d.due

\* The guard prevents duplicates: two ticks clone a job for the same minute
\* only if they run at the same time, however late either of them starts
\* (trigger_scheduled_jobs).
NoTwinsInTurn ==
  \A c, d \in clones : Twins(c, d) => {c.tick, d.tick} \in overlaps

\* Tick m has served s: a clone of it was born since, and it is dispatched
\* unless the tick that created it is still at it or was cut short.
Served(m, s) ==
  \E c \in clones : /\ c.source = s
                    /\ c.born >= tick[m].now
                    /\ c.sent \/ Running(c.tick) \/ tick[c.tick].cut

\* The due jobs that tick m has found.
Wanted(m) == { s \in tick[m].found : <<s, tick[m].now>> \in Due }

Undisturbed(m) == tick[m].state = "done" /\ ~ tick[m].cut
Sound(m) == tick[m].found \cap Broken = {}

\* A tick that has ended undisturbed has left no due job behind, unless it
\* met an expression that cannot be evaluated or a copy hid the job
\* (trigger_scheduled_jobs).
TickServesSoundJobs ==
  \A m \in Minute : Undisturbed(m) /\ Sound(m) =>
    \A s \in Wanted(m) :
      Served(m, s) \/ \E n \in Minute : <<s, n>> \in copies /\ n >= tick[m].now

=============================================================================
