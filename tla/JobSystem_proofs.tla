--------------------------- MODULE JobSystem_proofs ---------------------------
(***************************************************************************)
(* Proofs about JobSystem, for every set of sites and files, every         *)
(* listing, number of requests, crashes and faults, and either scope of    *)
(* the checkpoint constraint. The first part is about the tasks, the       *)
(* executors and the enumeration checkpoints; the second is about what the *)
(* checkpoint log says of the job's row, of the lists the executors hold   *)
(* and of the files they have labelled, what a completed job has           *)
(* processed, what a rollback restores and how an undisturbed job          *)
(* progresses. Induction over sequences is by the least counterexample.    *)
(***************************************************************************)
EXTENDS JobSystem, SequenceTheorems, WellFoundedInduction, TLAPS

\* A queued task has a try left.
TriesLeft ==
  \A t \in Task : task[t].state = "queued" => task[t].tries < MaxTries

\* The control points of a phase.
PhaseFits(e) ==
  /\ e.pc \in { "enum", "list" } => e.phase = "enumeration"
  /\ e.pc \in { "label", "capture", "apply", "labelCommit" } =>
       e.phase = "labelling"
  /\ e.pc \in { "rb", "undo", "rbCommit" } => e.phase = "rollback"

\* The executor e may still write an enumeration checkpoint.
MayList(e) ==
  \/ e.pc \in { "enum", "list" }
  \/ e.pc \in { "ack", "stop" } /\ e.phase = "enumeration"

\* The enumeration checkpoints are numbered without gaps or repetitions.
Numbered ==
  /\ \A c, d \in CpsOf("enumeration") : c.batch = d.batch => c = d
  /\ \A c \in CpsOf("enumeration") : \A n \in Nat :
       n < c.batch => \E d \in CpsOf("enumeration") : d.batch = n

\* What e has read covers every checkpoint before its own next one, and all
\* of these are there: a checkpoint that another executor adds is not one
\* of them, and if it has the number of e's next one, e is fenced off.
Positioned(e) ==
  MayList(e) =>
    /\ e.todo \cap e.sites = {}
    /\ \A c \in CpsOf("enumeration") :
         c.batch < e.batch => c.sites \subseteq e.sites
    /\ \A n \in Nat :
         n < e.batch => \E c \in CpsOf("enumeration") : c.batch = n

\* The inductive invariant of SitesListedOnce.
EnumInv ==
  /\ ControlOK
  /\ TriesLeft
  /\ Numbered
  /\ SitesListedOnce
  /\ \A t \in Task : PhaseFits(w[t]) /\ Positioned(w[t])

\* Initially the row and the executors have their types.
THEOREM InitControl == Init => ControlOK /\ TriesLeft
<1>. SUFFICES ASSUME Init PROVE ControlOK /\ TriesLeft
  OBVIOUS
<1>1. MaxTries \in Nat \ {0} /\ MaxRequests \in Nat /\ MaxCrashes \in Nat /\ MaxFaults \in Nat
  BY StoreAssumption
<1>2. job \in [status : Statuses, total : Nat, processed : Nat, dry : BOOLEAN]
  <2>1. job.status \in Statuses /\ job.total = 0 /\ job.processed = 0
    BY DEF Init, Created, Statuses
  <2>2. job \in [status : {job.status}, total : {0}, processed : {0}, dry : DryRuns]
    BY DEF Init, Created
  <2>. QED
    BY <2>1, <2>2, StoreAssumption
<1>3. owed \in [Debts -> Nat]
  BY DEF Init, Created
<1>4. NewExecutor \in Executor
  BY DEF NewExecutor, Executor, PCs, Statuses, CheckpointTypes, Signals
<1>5. w \in [Task -> Executor]
  BY <1>4 DEF Init
<1>6. task \in [Task -> TaskRow]
  BY <1>1 DEF Init, TaskRow
<1>. QED
  BY <1>1, <1>2, <1>3, <1>5, <1>6 DEF Init, ControlOK, TriesLeft

-----------------------------------------------------------------------------
(* The rows, counters and control records keep their types.                *)

\* The parts of ControlOK, and what the sets hold.
LEMMA ConstantTypes ==
  /\ MaxTries \in Nat \ {0} /\ MaxRequests \in Nat
  /\ MaxCrashes \in Nat /\ MaxFaults \in Nat
  /\ BatchSize \in Nat \ {0}
  /\ Listing \in [Site -> SUBSET Seq(File)]
  /\ NewExecutor \in Executor
BY StoreAssumption
   DEF NewExecutor, Executor, PCs, Statuses, CheckpointTypes, Signals

\* A request of the user: the row takes a status of the diagram.
LEMMA ControlRequest ==
  ASSUME ControlOK, TriesLeft, UserRequest
  PROVE  ControlOK' /\ TriesLeft'
<1>1. \E a \in UserActions, s \in Statuses : Accept(a, s)
  BY DEF UserRequest, Start, Pause, Resume, Cancel, Rollback, UserActions,
         Statuses
<1>2. \/ \E d \in Debts : Owe(d)
      \/ UNCHANGED owed
  BY DEF UserRequest, Start, Pause, Resume, Cancel, Rollback, Debts
<1>3. owed' \in [Debts -> Nat]
  BY <1>2 DEF ControlOK, Owe
<1>4. job' \in [status : Statuses, total : Nat, processed : Nat, dry : BOOLEAN]
  BY <1>1 DEF ControlOK, Accept
<1>. QED
  BY <1>1, <1>3, <1>4, ConstantTypes DEF ControlOK, TriesLeft, Accept

\* What follows a request's commit.
LEMMA ControlApi ==
  ASSUME ControlOK, TriesLeft,
         ApiSettle \/ (\E d \in Debts : LoseDispatch(d)) \/ SignalExpires
  PROVE  ControlOK' /\ TriesLeft'
<1>1. CASE \E d \in Debts : Dispatch(d)
  <2>1. owed' \in [Debts -> Nat]
    BY <1>1 DEF Dispatch, Settle, ControlOK
  <2>2. PICK t \in Task, kind \in {"run", "rollback"} :
          task' = [task EXCEPT ![t] = [kind |-> kind, state |-> "queued",
                                       tries |-> 0]]
    BY <1>1 DEF Dispatch
  <2>3. task' \in [Task -> TaskRow]
    BY <2>2, ConstantTypes DEF ControlOK, TaskRow
  <2>4. TriesLeft'
    BY <2>2, ConstantTypes DEF ControlOK, TriesLeft
  <2>. QED
    BY <1>1, <2>1, <2>3, <2>4 DEF Dispatch, ControlOK
<1>2. CASE \E d \in Debts : SendSignal(d)
  <2>1. owed' \in [Debts -> Nat]
    BY <1>2 DEF SendSignal, Settle, ControlOK
  <2>. QED
    BY <1>2, <2>1 DEF SendSignal, ControlOK, TriesLeft
<1>3. CASE \E d \in Debts : LoseDispatch(d)
  <2>1. owed' \in [Debts -> Nat]
    BY <1>3 DEF LoseDispatch, Settle, ControlOK
  <2>. QED
    BY <1>3, <2>1, ConstantTypes DEF LoseDispatch, ControlOK, TriesLeft
<1>4. CASE SignalExpires
  BY <1>4, ConstantTypes DEF SignalExpires, ControlOK, TriesLeft
<1>. QED
  BY <1>1, <1>2, <1>3, <1>4 DEF ApiSettle

\* A task that is over or back in the queue, and its executor with it.
LEMMA ControlLeave ==
  ASSUME ControlOK, NEW t \in Task, NEW state \in {"queued", "done"},
         Leave(t, state)
  PROVE  /\ task' \in [Task -> TaskRow]
         /\ w' \in [Task -> Executor]
         /\ state = "done" /\ TriesLeft => TriesLeft'
<1>1. w' \in [Task -> Executor]
  BY ConstantTypes DEF ControlOK, Leave, Become
<1>2. task' \in [Task -> TaskRow]
  BY DEF ControlOK, Leave, TaskRow
<1>3. ASSUME state = "done", TriesLeft PROVE TriesLeft'
  BY <1>3 DEF ControlOK, Leave, TaskRow, TriesLeft
<1>. QED
  BY <1>1, <1>2, <1>3

\* arq: delivery, crash, timeout, and the handler of an exception.
LEMMA ControlTask ==
  ASSUME ControlOK, TriesLeft, NEW t \in Task, BeginTask(t) \/ Disrupt(t)
  PROVE  ControlOK' /\ TriesLeft'
<1>1. CASE BeginTask(t)
  <2>1. w' \in [Task -> Executor]
    BY <1>1, ConstantTypes
       DEF BeginTask, Become, ControlOK, Executor, PCs
  <2>2. task[t].tries + 1 \in 0 .. MaxTries /\ task[t].tries \in Nat
    BY <1>1, ConstantTypes DEF BeginTask, TriesLeft, ControlOK, TaskRow
  <2>3. task' \in [Task -> TaskRow]
    BY <1>1, <2>2 DEF BeginTask, ControlOK, TaskRow
  <2>4. TriesLeft'
    BY <1>1, <2>2 DEF BeginTask, ControlOK, TaskRow, TriesLeft
  <2>. QED
    BY <1>1, <2>1, <2>3, <2>4 DEF BeginTask, ControlOK
<1>2. CASE Crash(t)
  <2>1. crashes' \in 0 .. MaxCrashes
    BY <1>2, ConstantTypes DEF Crash, Die, ControlOK
  <2>2. task' \in [Task -> TaskRow] /\ w' \in [Task -> Executor]
    BY <1>2, ControlLeave DEF Crash, Die, Abandon
  <2>3. TriesLeft'
    BY <1>2, ConstantTypes
       DEF Crash, Die, Abandon, Leave, TriesLeft, ControlOK, TaskRow
  <2>. QED
    BY <1>2, <2>1, <2>2, <2>3 DEF Crash, Die, ControlOK
<1>3. CASE Timeout(t)
  <2>1. faults' \in 0 .. MaxFaults
    BY <1>3, ConstantTypes DEF Timeout, Fault, ControlOK
  <2>2. /\ task' \in [Task -> TaskRow] /\ w' \in [Task -> Executor]
        /\ TriesLeft'
    BY <1>3, ControlLeave DEF Timeout, Abandon
  <2>. QED
    BY <1>3, <2>1, <2>2 DEF Timeout, ControlOK
<1>4. CASE Raise(t)
  <2>1. faults' \in 0 .. MaxFaults
    BY <1>4, ConstantTypes DEF Raise, Fault, ControlOK
  <2>2. /\ task' \in [Task -> TaskRow] /\ w' \in [Task -> Executor]
        /\ TriesLeft'
    BY <1>4, ControlLeave DEF Raise, Abandon
  <2>. QED
    BY <1>4, <2>1, <2>2 DEF Raise, ControlOK, Statuses
<1>. QED
  BY <1>1, <1>2, <1>3, <1>4 DEF Disrupt

\* A commit, whether the constraint lets it pass or not.
LEMMA ControlCommit ==
  ASSUME ControlOK, TriesLeft, NEW t \in Task, NEW c, NEW r, NEW e, NEW m,
         Commit(t, c, r, e, m), UNCHANGED faults,
         e \in Executor,
         r \in [status : Statuses, total : Nat, processed : Nat, dry : BOOLEAN],
         c.type \in CheckpointTypes, c.batch \in Nat, c.total \in Nat,
         c.index \in Nat, c.counted \in Nat, c.sites \subseteq Site,
         c.files \in Seq(File)
  PROVE  ControlOK' /\ TriesLeft'
<1>1. CASE Insertable(c.type, c.batch)
  <2>1. /\ cps' = cps \cup {c} /\ job' = r
        /\ w' = [w EXCEPT ![t] = e] /\ UNCHANGED task
    BY <1>1 DEF Commit, Become
  <2>2. w' \in [Task -> Executor]
    BY <2>1 DEF ControlOK
  <2>. QED
    BY <2>1, <2>2 DEF Commit, ControlOK, TriesLeft
<1>2. CASE ~Insertable(c.type, c.batch)
  <2>1. Leave(t, "done") /\ UNCHANGED <<cps, job>>
    BY <1>2 DEF Commit, Abandon
  <2>2. /\ task' \in [Task -> TaskRow] /\ w' \in [Task -> Executor]
        /\ TriesLeft'
    BY <2>1, ControlLeave
  <2>. QED
    BY <2>1, <2>2 DEF Commit, ControlOK
<1>. QED
  BY <1>1, <1>2

\* A step of an executor that touches neither the row, the log nor the task.
LEMMA ControlLocal ==
  ASSUME ControlOK, TriesLeft, NEW t \in Task, NEW e \in Executor,
         Become(t, e), UNCHANGED <<job, cps, task, requests, owed, crashes>>,
         signal' \in {signal, NoSignal}, Fault \/ UNCHANGED faults
  PROVE  ControlOK' /\ TriesLeft'
<1>1. faults' \in 0 .. MaxFaults
  BY ConstantTypes DEF Fault, ControlOK
<1>2. w' \in [Task -> Executor]
  BY DEF Become, ControlOK
<1>. QED
  BY <1>1, <1>2 DEF ControlOK, TriesLeft

\* Looking at the signal key and stopping on it.
LEMMA ControlSignalled ==
  ASSUME ControlOK, TriesLeft, NEW t \in Task, Signalled(t)
  PROVE  ControlOK' /\ TriesLeft'
<1>w. w[t] \in Executor
  BY DEF ControlOK
<1>1. CASE SeeSignal(t)
  <2>1. [w[t] EXCEPT !.pc = "ack", !.seen = signal] \in Executor
    BY <1>1, <1>w DEF SeeSignal, ControlOK, Executor, PCs
  <2>. QED
    BY <1>1, <2>1, ControlLocal DEF SeeSignal
<1>2. CASE AckSignal(t)
  <2>1. [w[t] EXCEPT !.pc = "stop"] \in Executor
    BY <1>w DEF Executor, PCs
  <2>. QED
    BY <1>2, <2>1, ControlLocal DEF AckSignal, Goto
<1>3. CASE StopOnSignal(t)
  <2> DEFINE e == w[t]
             s == IF e.seen = "pause" THEN "paused" ELSE "failed"
             c == [type |-> e.phase, batch |-> e.batch,
                   sites |-> e.sites, total |-> e.total, files |-> <<>>,
                   index |-> IF e.phase = "rollback" THEN e.counted
                             ELSE e.index,
                   counted |-> e.counted, applied |-> <<>>]
             r == [job EXCEPT !.status = WithStatus(t, s)]
             f == [e EXCEPT !.st = s,
                            !.pc = CASE e.phase = "enumeration" -> "enumEnd"
                                     [] e.phase = "labelling" -> "final"
                                     [] OTHER -> "rbEnd"]
  <2>1. Commit(t, c, r, f, mem[t]) /\ UNCHANGED faults
    BY <1>3 DEF StopOnSignal
  <2>2. f \in Executor
    BY <1>w DEF Executor, PCs, Statuses
  <2>3. r \in [status : Statuses, total : Nat, processed : Nat, dry : BOOLEAN]
    BY DEF ControlOK, WithStatus, Statuses
  <2>4. /\ c.type \in CheckpointTypes /\ c.batch \in Nat /\ c.total \in Nat
        /\ c.index \in Nat /\ c.counted \in Nat /\ c.sites \subseteq Site
        /\ c.files \in Seq(File)
    BY <1>w DEF Executor
  <2> HIDE DEF c, r, f
  <2>. QED
    BY <2>1, <2>2, <2>3, <2>4, ControlCommit
<1>. QED
  BY <1>1, <1>2, <1>3 DEF Signalled

\* The steps of enumeration keep the types.
LEMMA ControlEnumerate ==
  ASSUME ControlOK, TriesLeft, NEW t \in Task, Enumerate(t)
  PROVE  ControlOK' /\ TriesLeft'
<1>w. w[t] \in Executor
  BY DEF ControlOK
<1>1. CASE EnumInit(t)
  <2>1. PICK sites \in SUBSET Site, total \in Nat, batch \in Nat :
          EnumFrom(t, sites, total, batch)
    BY <1>1 DEF EnumInit, Latest, CpsOf, ControlOK
  <2> DEFINE e == [w[t] EXCEPT !.pc = "enum", !.phase = "enumeration",
                               !.todo = Site \ sites, !.sites = sites,
                               !.total = total, !.batch = batch]
  <2>2. e \in Executor
    BY <1>w DEF Executor, PCs, CheckpointTypes
  <2>3. Become(t, e)
    BY <2>1 DEF EnumFrom
  <2> HIDE DEF e
  <2>. QED
    BY <1>1, <2>2, <2>3, ControlLocal DEF EnumInit
<1>2. CASE NextSite(t)
  <2>1. [w[t] EXCEPT !.pc = "list"] \in Executor
    BY <1>w DEF Executor, PCs
  <2>. QED
    BY <1>2, <2>1, ControlLocal DEF NextSite, Goto
<1>3. CASE SkipSite(t)
  <2>1. \A s : [w[t] EXCEPT !.pc = "enum", !.todo = @ \ {s}] \in Executor
    BY <1>w DEF Executor, PCs
  <2>. QED
    BY <1>3, <2>1, ControlLocal DEF SkipSite
<1>4. CASE ListSite(t)
  <2>0. PICK s \in w[t].todo : \E fs \in Listing[s] :
          LET e == [w[t] EXCEPT !.sites = @ \cup {s}, !.total = @ + Len(fs)]
              c == [type |-> "enumeration", batch |-> e.batch,
                    sites |-> e.sites, total |-> e.total, files |-> fs,
                    index |-> 0, counted |-> 0, applied |-> <<>>]
          IN Commit(t, c, [job EXCEPT !.total = e.total],
                    [e EXCEPT !.pc = "enum", !.todo = @ \ {s},
                              !.batch = @ + 1],
                    mem[t])
    BY <1>4 DEF ListSite
  <2>1. PICK fs \in Listing[s] :
          LET e == [w[t] EXCEPT !.sites = @ \cup {s}, !.total = @ + Len(fs)]
              c == [type |-> "enumeration", batch |-> e.batch,
                    sites |-> e.sites, total |-> e.total, files |-> fs,
                    index |-> 0, counted |-> 0, applied |-> <<>>]
          IN Commit(t, c, [job EXCEPT !.total = e.total],
                    [e EXCEPT !.pc = "enum", !.todo = @ \ {s},
                              !.batch = @ + 1],
                    mem[t])
    BY <2>0
  <2>2. s \in Site /\ fs \in Seq(File) /\ Len(fs) \in Nat
    BY <1>w, ConstantTypes DEF Executor
  <2> DEFINE e == [w[t] EXCEPT !.sites = @ \cup {s}, !.total = @ + Len(fs)]
             c == [type |-> "enumeration", batch |-> e.batch,
                   sites |-> e.sites, total |-> e.total, files |-> fs,
                   index |-> 0, counted |-> 0, applied |-> <<>>]
             r == [job EXCEPT !.total = e.total]
             f == [e EXCEPT !.pc = "enum", !.todo = @ \ {s},
                            !.batch = @ + 1]
  <2>a. /\ w[t].sites \cup {s} \in SUBSET Site
        /\ w[t].todo \ {s} \in SUBSET Site
        /\ w[t].total + Len(fs) \in Nat
    BY <1>w, <2>2 DEF Executor
  <2>3. e \in Executor
    BY <1>w, <2>a DEF Executor
  <2>b. e.todo \ {s} \in SUBSET Site /\ e.batch + 1 \in Nat
    BY <1>w, <2>a, <2>3 DEF Executor
  <2>4. f \in Executor
    <3> HIDE DEF e
    <3>. QED
      BY <2>3, <2>b DEF Executor, PCs
  <2>5. r \in [status : Statuses, total : Nat, processed : Nat, dry : BOOLEAN]
    BY <2>3 DEF ControlOK, Executor
  <2>6. /\ c.type \in CheckpointTypes /\ c.batch \in Nat /\ c.total \in Nat
        /\ c.index \in Nat /\ c.counted \in Nat /\ c.sites \subseteq Site
        /\ c.files \in Seq(File)
    BY <2>2, <2>3 DEF Executor, CheckpointTypes
  <2>7. Commit(t, c, r, f, mem[t]) /\ UNCHANGED faults
    BY <1>4, <2>1 DEF ListSite
  <2> HIDE DEF c, r, f
  <2>. QED
    BY <2>4, <2>5, <2>6, <2>7, ControlCommit
<1>5. CASE AfterEnum(t)
  <2> DEFINE e == [w[t] EXCEPT
                     !.st = job.status,
                     !.pc = CASE job.status = "enumerating" -> "toRunning"
                              [] job.status = "running" -> "labelInit"
                              [] OTHER -> "final"]
  <2>1. e \in Executor
    BY <1>w DEF Executor, PCs, ControlOK
  <2>2. Become(t, e)
    BY <1>5 DEF AfterEnum
  <2> HIDE DEF e
  <2>. QED
    BY <1>5, <2>1, <2>2, ControlLocal DEF AfterEnum
<1>6. CASE ToRunning(t)
  <2>1. w' \in [Task -> Executor]
    BY <1>6, <1>w
       DEF ToRunning, RunAndGoto, Become, ControlOK, Executor, PCs, Statuses
  <2>. QED
    BY <1>6, <2>1
       DEF ToRunning, RunAndGoto, ControlOK, TriesLeft, Statuses
<1>. QED
  BY <1>1, <1>2, <1>3, <1>4, <1>5, <1>6 DEF Enumerate

\* Handling a file or an entry changes only the counts and the control point.
LEMMA FileStep ==
  ASSUME ControlOK, NEW t \in Task, NEW n \in {0, 1},
         FileDone(t, n) \/ EntryDone(t, n)
  PROVE  \E e \in Executor :
           /\ Become(t, e)
           /\ e.sites = w[t].sites /\ e.todo = w[t].todo
           /\ e.batch = w[t].batch /\ e.phase = w[t].phase
           /\ \/ FileDone(t, n) /\ e.pc \in {"labelCommit", "capture"}
              \/ EntryDone(t, n) /\ e.pc \in {"rbCommit", "undo"}
<1>w. w[t] \in Executor
  BY DEF ControlOK
<1>n. w[t].k + 1 \in Nat /\ w[t].counted + n \in Nat
  BY <1>w DEF Executor
<1> DEFINE e(p) == [w[t] EXCEPT !.k = @ + 1, !.counted = @ + n, !.pc = p]
<1>1. \A p \in PCs : /\ e(p) \in Executor /\ e(p).pc = p
                     /\ e(p).sites = w[t].sites /\ e(p).todo = w[t].todo
                     /\ e(p).batch = w[t].batch /\ e(p).phase = w[t].phase
  BY <1>w, <1>n DEF Executor
<1>2. FileDone(t, n) => Become(t, e("labelCommit")) \/ Become(t, e("capture"))
  BY DEF FileDone
<1>3. EntryDone(t, n) => Become(t, e("rbCommit")) \/ Become(t, e("undo"))
  BY DEF EntryDone
<1> HIDE DEF e
<1>. QED
  BY <1>1, <1>2, <1>3 DEF PCs

\* So do the ways to handle a file,
LEMMA ControlLabelFile ==
  ASSUME ControlOK, TriesLeft, NEW t \in Task, LabelFile(t)
  PROVE  ControlOK' /\ TriesLeft'
<1>w. w[t] \in Executor
  BY DEF ControlOK
<1>1. CASE Capture(t)
  <2>1. [w[t] EXCEPT !.pc = "apply"] \in Executor
    BY <1>w DEF Executor, PCs
  <2>. QED
    BY <1>1, <2>1, ControlLocal DEF Capture, Goto
<1>2. CASE ~Capture(t)
  <2>1. /\ \E n \in {0, 1} : FileDone(t, n)
        /\ UNCHANGED <<job, cps, signal, task, requests, owed, crashes>>
        /\ Fault \/ UNCHANGED faults
    BY <1>2 DEF LabelFile, NoteDryRun, ApplyLabel, ApplyRefused, ApplyUnknown
  <2>2. \E e \in Executor : Become(t, e)
    BY <2>1, FileStep
  <2>. QED
    BY <2>1, <2>2, ControlLocal
<1>. QED
  BY <1>1, <1>2

\* the steps of labelling,
LEMMA ControlLabel ==
  ASSUME ControlOK, TriesLeft, NEW t \in Task, LabelPhase(t)
  PROVE  ControlOK' /\ TriesLeft'
<1>w. w[t] \in Executor
  BY DEF ControlOK
<1>1. CASE LabelConfigFails(t)
  <2>1. w' \in [Task -> Executor]
    BY <1>1, <1>w
       DEF LabelConfigFails, Become, ControlOK, Executor, PCs, Statuses
  <2>2. faults' \in 0 .. MaxFaults
    BY <1>1, ConstantTypes DEF LabelConfigFails, Fault, ControlOK
  <2>. QED
    BY <1>1, <2>1, <2>2 DEF LabelConfigFails, ControlOK, TriesLeft, Statuses
<1>2. CASE LabelInit(t)
  <2>1. \E e \in Executor : Become(t, e)
    <3>1. \/ Goto(t, "final")
          \/ \E index, counted, batch \in Nat :
               LabelFrom(t, index, counted, batch)
      BY <1>2 DEF LabelInit, StartLabelling, Latest, CpsOf, ControlOK
    <3>2. [w[t] EXCEPT !.pc = "final"] \in Executor
      BY <1>w DEF Executor, PCs
    <3>3. \A index, counted, batch \in Nat :
            [w[t] EXCEPT !.pc = "label", !.phase = "labelling",
                         !.index = index, !.counted = counted,
                         !.batch = batch, !.k = 0] \in Executor
      BY <1>w DEF Executor, PCs, CheckpointTypes
    <3>. QED
      BY <3>1, <3>2, <3>3 DEF Goto, LabelFrom
  <2>. QED
    BY <1>2, <2>1, ControlLocal DEF LabelInit, StartLabelling, LabelFrom
<1>3. CASE NextBatch(t)
  <2>1. [w[t] EXCEPT !.pc = "capture"] \in Executor
    BY <1>w DEF Executor, PCs
  <2>. QED
    BY <1>3, <2>1, ControlLocal DEF NextBatch, Goto
<1>4. CASE LabelFile(t)
  BY <1>4, ControlLabelFile
<1>5. CASE CommitBatch(t)
  <2> DEFINE e == w[t]
             end == e.index + e.k
             c == [type |-> "labelling", batch |-> e.batch, sites |-> {},
                   total |-> 0, files |-> <<>>, index |-> end,
                   counted |-> e.counted, applied |-> mem[t].applied]
             r == [job EXCEPT !.processed = e.counted]
             f == [e EXCEPT !.pc = "label", !.index = end, !.k = 0,
                            !.batch = @ + 1]
             m == [mem[t] EXCEPT !.applied = <<>>]
  <2>1. Commit(t, c, r, f, m) /\ UNCHANGED faults
    BY <1>5 DEF CommitBatch, CommitBatchLeaving
  <2>2. end \in Nat /\ e.batch + 1 \in Nat
    BY <1>w DEF Executor
  <2>3. f \in Executor
    BY <1>w, <2>2 DEF Executor, PCs
  <2>4. r \in [status : Statuses, total : Nat, processed : Nat, dry : BOOLEAN]
    BY <1>w DEF ControlOK, Executor
  <2>5. /\ c.type \in CheckpointTypes /\ c.batch \in Nat /\ c.total \in Nat
        /\ c.index \in Nat /\ c.counted \in Nat /\ c.sites \subseteq Site
        /\ c.files \in Seq(File)
    BY <1>w, <2>2 DEF Executor, CheckpointTypes
  <2> HIDE DEF c, r, f, m
  <2>. QED
    BY <2>1, <2>3, <2>4, <2>5, ControlCommit
<1>6. CASE AfterLabel(t)
  <2>1. CASE job.status = "running"
    <3>1. [w[t] EXCEPT !.pc = "complete", !.st = "running"] \in Executor
      BY <1>w DEF Executor, PCs, Statuses
    <3>. QED
      BY <1>6, <2>1, <3>1, ControlLocal DEF AfterLabel
  <2>2. CASE job.status # "running"
    <3>1. /\ task' \in [Task -> TaskRow] /\ w' \in [Task -> Executor]
          /\ TriesLeft'
      BY <1>6, <2>2, ControlLeave DEF AfterLabel
    <3>. QED
      BY <1>6, <3>1 DEF AfterLabel, ControlOK
  <2>. QED
    BY <2>1, <2>2
<1>7. CASE Complete(t)
  <2>1. /\ task' \in [Task -> TaskRow] /\ w' \in [Task -> Executor]
        /\ TriesLeft'
    BY <1>7, ControlLeave DEF Complete
  <2>. QED
    BY <1>7, <2>1 DEF Complete, ControlOK, Statuses
<1>. QED
  BY <1>1, <1>2, <1>3, <1>4, <1>5, <1>6, <1>7 DEF LabelPhase

\* those of rollback,
LEMMA ControlRollBack ==
  ASSUME ControlOK, TriesLeft, NEW t \in Task, RollBack(t)
  PROVE  ControlOK' /\ TriesLeft'
<1>w. w[t] \in Executor
  BY DEF ControlOK
<1>1. CASE RollbackInit(t)
  <2>0. \/ Goto(t, "rbEnd")
        \/ RollbackFrom(t, 0, 0)
        \/ \E c \in cps : RollbackFrom(t, c.index + 0, c.batch + 1)
    BY <1>1 DEF RollbackInit, RollbackInitAhead, Latest, CpsOf
  <2>1. \/ Goto(t, "rbEnd")
        \/ \E index, batch \in Nat : RollbackFrom(t, index, batch)
    BY <2>0 DEF ControlOK
  <2>2. [w[t] EXCEPT !.pc = "rbEnd"] \in Executor
    BY <1>w DEF Executor, PCs
  <2>3. \A index, batch \in Nat :
          [w[t] EXCEPT !.pc = "rb", !.phase = "rollback",
                       !.index = index, !.counted = index,
                       !.batch = batch, !.k = 0] \in Executor
    BY <1>w DEF Executor, PCs, CheckpointTypes
  <2>4. \E e \in Executor : Become(t, e)
    BY <2>1, <2>2, <2>3 DEF Goto, RollbackFrom
  <2>. QED
    BY <1>1, <2>4, ControlLocal DEF RollbackInit, RollbackInitAhead
<1>2. CASE NextUndoBatch(t)
  <2>1. [w[t] EXCEPT !.pc = "undo"] \in Executor
    BY <1>w DEF Executor, PCs
  <2>. QED
    BY <1>2, <2>1, ControlLocal DEF NextUndoBatch, Goto
<1>3. CASE Undo(t) \/ UndoFails(t)
  <2>1. /\ \E n \in {0, 1} : EntryDone(t, n)
        /\ UNCHANGED <<job, cps, signal, task, requests, owed, crashes>>
        /\ Fault \/ UNCHANGED faults
    BY <1>3 DEF Undo, UndoUnless, UndoFails
  <2>2. \E e \in Executor : Become(t, e)
    BY <2>1, FileStep
  <2>. QED
    BY <2>1, <2>2, ControlLocal
<1>4. CASE CommitUndo(t)
  <2> DEFINE e == w[t]
             c == [type |-> "rollback", batch |-> e.batch, sites |-> {},
                   total |-> 0, files |-> <<>>, index |-> e.counted,
                   counted |-> e.counted, applied |-> <<>>]
             f == [e EXCEPT !.pc = "rb", !.index = @ + e.k, !.k = 0,
                            !.batch = @ + 1]
  <2>1. Commit(t, c, job, f, mem[t]) /\ UNCHANGED faults
    BY <1>4 DEF CommitUndo
  <2>2. e.index + e.k \in Nat /\ e.batch + 1 \in Nat
    BY <1>w DEF Executor
  <2>3. f \in Executor
    BY <1>w, <2>2 DEF Executor, PCs
  <2>4. /\ c.type \in CheckpointTypes /\ c.batch \in Nat /\ c.total \in Nat
        /\ c.index \in Nat /\ c.counted \in Nat /\ c.sites \subseteq Site
        /\ c.files \in Seq(File)
    BY <1>w, <2>2 DEF Executor, CheckpointTypes
  <2>5. job \in [status : Statuses, total : Nat, processed : Nat, dry : BOOLEAN]
    BY DEF ControlOK
  <2> HIDE DEF c, f
  <2>. QED
    BY <2>1, <2>3, <2>4, <2>5, ControlCommit
<1>5. CASE AfterRollback(t)
  <2>1. CASE job.status = "rolling_back"
    <3>1. [w[t] EXCEPT !.pc = "rbComplete", !.st = "rolling_back"]
            \in Executor
      BY <1>w DEF Executor, PCs, Statuses
    <3>. QED
      BY <1>5, <2>1, <3>1, ControlLocal DEF AfterRollback, AfterRollbackIf
  <2>2. CASE job.status # "rolling_back"
    <3>1. /\ task' \in [Task -> TaskRow] /\ w' \in [Task -> Executor]
          /\ TriesLeft'
      BY <1>5, <2>2, ControlLeave DEF AfterRollback, AfterRollbackIf
    <3>. QED
      BY <1>5, <3>1 DEF AfterRollback, AfterRollbackIf, ControlOK
  <2>. QED
    BY <2>1, <2>2
<1>6. CASE RollbackComplete(t)
  <2>1. /\ task' \in [Task -> TaskRow] /\ w' \in [Task -> Executor]
        /\ TriesLeft'
    BY <1>6, ControlLeave DEF RollbackComplete
  <2>. QED
    BY <1>6, <2>1 DEF RollbackComplete, ControlOK, Statuses
<1>. QED
  BY <1>1, <1>2, <1>3, <1>4, <1>5, <1>6 DEF RollBack

\* and with them every step.
LEMMA ControlStep ==
  ASSUME ControlOK, TriesLeft, [Next]_vars
  PROVE  ControlOK' /\ TriesLeft'
<1>1. CASE UserRequest
  BY <1>1, ControlRequest
<1>2. CASE ApiSettle \/ (\E d \in Debts : LoseDispatch(d)) \/ SignalExpires
  BY <1>2, ControlApi
<1>3. ASSUME NEW t \in Task, Work(t) \/ Disrupt(t)
      PROVE  ControlOK' /\ TriesLeft'
  <2>1. CASE BeginTask(t) \/ Disrupt(t)
    BY <2>1, ControlTask
  <2>2. CASE Signalled(t)
    BY <2>2, ControlSignalled
  <2>3. CASE Enumerate(t)
    BY <2>3, ControlEnumerate
  <2>4. CASE LabelPhase(t)
    BY <2>4, ControlLabel
  <2>5. CASE RollBack(t)
    BY <2>5, ControlRollBack
  <2>. QED
    BY <1>3, <2>1, <2>2, <2>3, <2>4, <2>5 DEF Work
<1>4. CASE UNCHANGED vars
  BY <1>4 DEF vars, ControlOK, TriesLeft
<1>. QED
  BY <1>1, <1>2, <1>3, <1>4 DEF Next, ApiNext, ExecutorNext

\* The rows, counters, queue and executors of JobStore keep their types: no
\* task is delivered more often than max_tries, no executor gets lost.
THEOREM SpecControl == Spec => []ControlOK
<1>1. Init => ControlOK /\ TriesLeft
  BY InitControl
<1>2. (ControlOK /\ TriesLeft) /\ [Next]_vars => (ControlOK /\ TriesLeft)'
  BY ControlStep
<1>. QED
  BY <1>1, <1>2, PTL DEF Spec

-----------------------------------------------------------------------------
(* The enumeration log.                                                    *)

\* A step that leaves the enumeration log and changes at most the executor
\* of t, to one that may not list or stands where it did.
LEMMA LogKept ==
  ASSUME EnumInv, CpsOf("enumeration")' = CpsOf("enumeration"),
         NEW t \in Task, NEW e, w' = [w EXCEPT ![t] = e],
         PhaseFits(e), Positioned(e)
  PROVE  /\ Numbered' /\ SitesListedOnce'
         /\ \A u \in Task : PhaseFits(w'[u]) /\ Positioned(w[u])'
<1>1. Numbered'
  BY DEF EnumInv, Numbered
<1>2. SitesListedOnce'
  BY DEF EnumInv, SitesListedOnce
<1>3. ASSUME NEW u \in Task PROVE w'[u] = IF u = t THEN e ELSE w[u]
  BY DEF EnumInv, ControlOK
<1>4. ASSUME NEW u \in Task PROVE PhaseFits(w'[u])
  BY <1>3 DEF EnumInv
<1>5. ASSUME NEW u \in Task PROVE Positioned(w[u])'
  <2>1. CASE u = t
    BY <1>3, <2>1 DEF Positioned
  <2>2. CASE u # t
    BY <1>3, <2>2 DEF EnumInv, Positioned
  <2>. QED
    BY <2>1, <2>2
<1>. QED
  BY <1>1, <1>2, <1>4, <1>5

\* The same for a step that changes no executor.
LEMMA LogUntouched ==
  ASSUME EnumInv, UNCHANGED <<cps, w>>
  PROVE  /\ Numbered' /\ SitesListedOnce'
         /\ \A u \in Task : PhaseFits(w'[u]) /\ Positioned(w[u])'
BY DEF EnumInv, Numbered, SitesListedOnce, Positioned, CpsOf

\* A session that is closed may not list.
LEMMA LogLeave ==
  ASSUME EnumInv, UNCHANGED cps, NEW t \in Task, NEW state, Leave(t, state)
  PROVE  /\ Numbered' /\ SitesListedOnce'
         /\ \A u \in Task : PhaseFits(w'[u]) /\ Positioned(w[u])'
<1>1. PhaseFits(NewExecutor) /\ Positioned(NewExecutor)
  BY DEF NewExecutor, PhaseFits, Positioned, MayList
<1>. QED
  BY <1>1, LogKept DEF Leave, Become, CpsOf

\* A commit of another type.
LEMMA LogOther ==
  ASSUME EnumInv, NEW t \in Task, NEW c, NEW r, NEW e, NEW m,
         Commit(t, c, r, e, m), c.type # "enumeration",
         PhaseFits(e), ~MayList(e)
  PROVE  /\ Numbered' /\ SitesListedOnce'
         /\ \A u \in Task : PhaseFits(w'[u]) /\ Positioned(w[u])'
<1>1. CASE Insertable(c.type, c.batch)
  BY <1>1, LogKept DEF Commit, Become, CpsOf, Positioned
<1>2. CASE ~Insertable(c.type, c.batch)
  BY <1>2, LogLeave DEF Commit, Abandon
<1>. QED
  BY <1>1, <1>2

\* An enumeration checkpoint: the executor's number is free, so no other
\* executor has passed it, and the log reaches just up to it.
LEMMA LogGrows ==
  ASSUME EnumInv, NEW t \in Task, NEW c, NEW r, NEW e, NEW m,
         Commit(t, c, r, e, m), c.type = "enumeration", MayList(w[t]),
         c.batch = w[t].batch, w[t].batch \in Nat,
         w[t].sites \subseteq c.sites,
         c.files # <<>> => \E s \in w[t].todo : s \in c.sites,
         PhaseFits(e),
         MayList(e) => /\ e.todo \cap e.sites = {}
                       /\ e.sites = c.sites
                       /\ e.batch = c.batch + 1
  PROVE  /\ Numbered' /\ SitesListedOnce'
         /\ \A u \in Task : PhaseFits(w'[u]) /\ Positioned(w[u])'
<1>1. CASE ~Insertable(c.type, c.batch)
  BY <1>1, LogLeave DEF Commit, Abandon
<1>2. CASE Insertable(c.type, c.batch)
  <2> DEFINE E == CpsOf("enumeration")
  <2>1. /\ CpsOf("enumeration")' = E \cup {c}
        /\ w' = [w EXCEPT ![t] = e]
    BY <1>2 DEF Commit, Become, CpsOf
  <2>2. \A d \in E : d.batch \in Nat /\ d.batch # c.batch
    BY <1>2 DEF Insertable, CpsOf, EnumInv, ControlOK
  <2>3. /\ w[t].todo \cap w[t].sites = {}
        /\ \A d \in E : d.batch < c.batch => d.sites \subseteq w[t].sites
        /\ \A n \in Nat : n < c.batch => \E d \in E : d.batch = n
    BY DEF EnumInv, Positioned
  <2>4. \A d \in E : d.batch < c.batch
    BY <2>2 DEF EnumInv, Numbered
  <2>5. Numbered'
    <3>1. \A x, y \in E \cup {c} : x.batch = y.batch => x = y
      BY <2>2 DEF EnumInv, Numbered
    <3>2. \A x \in E \cup {c} : \A n \in Nat :
            n < x.batch => \E d \in E \cup {c} : d.batch = n
      BY <2>3 DEF EnumInv, Numbered
    <3>. QED
      BY <2>1, <3>1, <3>2 DEF Numbered
  <2>6. SitesListedOnce'
    <3>1. ASSUME NEW x \in E \cup {c}, NEW y \in E \cup {c},
                 x.batch < y.batch
          PROVE  /\ x.sites \subseteq y.sites
                 /\ y.files # <<>> => x.sites # y.sites
      <4>1. CASE x \in E /\ y \in E
        BY <3>1, <4>1 DEF EnumInv, SitesListedOnce
      <4>2. CASE x \in E /\ y = c
        BY <2>3, <2>4, <4>2
      <4>3. CASE x = c
        BY <2>2, <2>4, <3>1, <4>3
      <4>. QED
        BY <4>1, <4>2, <4>3
    <3>. QED
      BY <2>1, <3>1 DEF SitesListedOnce
  <2>7. ASSUME NEW u \in Task PROVE PhaseFits(w'[u]) /\ Positioned(w[u])'
    <3>1. CASE u = t
      <4>1. w'[u] = e
        BY <2>1, <3>1 DEF EnumInv, ControlOK
      <4>2. ASSUME MayList(e), NEW n \in Nat, n < e.batch
            PROVE  \E d \in E \cup {c} : d.batch = n
        BY <2>3, <4>2
      <4>3. ASSUME MayList(e), NEW d \in E \cup {c}, d.batch < e.batch
            PROVE  d.sites \subseteq e.sites
        BY <2>3, <2>4, <4>3
      <4>. QED
        BY <2>1, <4>1, <4>2, <4>3 DEF Positioned
    <3>2. CASE u # t
      <4>1. w'[u] = w[u] /\ w[u].batch \in Nat
        BY <2>1, <3>2 DEF EnumInv, ControlOK, Executor
      <4>2. PhaseFits(w[u]) /\ Positioned(w[u])
        BY DEF EnumInv
      <4>3. MayList(w[u]) => ~(c.batch < w[u].batch)
        BY <2>2, <4>2 DEF Positioned
      <4>. QED
        BY <2>1, <4>1, <4>2, <4>3 DEF Positioned
    <3>. QED
      BY <3>1, <3>2
  <2>. QED
    BY <2>5, <2>6, <2>7
<1>. QED
  BY <1>1, <1>2

\* Reacting to a signal lists no site twice and puts nobody behind the log.
LEMMA LogSignalled ==
  ASSUME EnumInv, NEW t \in Task, Signalled(t)
  PROVE  /\ Numbered' /\ SitesListedOnce'
         /\ \A u \in Task : PhaseFits(w'[u]) /\ Positioned(w[u])'
<1>w. w[t] \in Executor /\ PhaseFits(w[t]) /\ Positioned(w[t])
  BY DEF EnumInv, ControlOK
<1>1. CASE SeeSignal(t)
  <2> DEFINE e == [w[t] EXCEPT !.pc = "ack", !.seen = signal]
  <2>1. /\ e.pc = "ack" /\ e.phase = w[t].phase /\ e.todo = w[t].todo
        /\ e.sites = w[t].sites /\ e.batch = w[t].batch
    BY <1>w DEF Executor
  <2>2. PhaseFits(e)
    BY <2>1 DEF PhaseFits
  <2>3. MayList(e) => MayList(w[t])
    BY <1>1, <1>w, <2>1 DEF SeeSignal, At, PhaseFits, MayList
  <2>4. w' = [w EXCEPT ![t] = e] /\ UNCHANGED cps
    BY <1>1 DEF SeeSignal, Become
  <2> HIDE DEF e
  <2>5. Positioned(e)
    BY <1>w, <2>1, <2>3 DEF Positioned
  <2>. QED
    BY <2>2, <2>4, <2>5, LogKept DEF CpsOf
<1>2. CASE AckSignal(t)
  <2> DEFINE e == [w[t] EXCEPT !.pc = "stop"]
  <2>1. /\ e.pc = "stop" /\ e.phase = w[t].phase /\ e.todo = w[t].todo
        /\ e.sites = w[t].sites /\ e.batch = w[t].batch
    BY <1>w DEF Executor
  <2>2. PhaseFits(e)
    BY <2>1 DEF PhaseFits
  <2>3. MayList(e) => MayList(w[t])
    BY <1>2, <2>1 DEF AckSignal, At, MayList
  <2>4. w' = [w EXCEPT ![t] = e] /\ UNCHANGED cps
    BY <1>2 DEF AckSignal, Become, Goto
  <2> HIDE DEF e
  <2>5. Positioned(e)
    BY <1>w, <2>1, <2>3 DEF Positioned
  <2>. QED
    BY <2>2, <2>4, <2>5, LogKept DEF CpsOf
<1>3. CASE StopOnSignal(t)
  <2> DEFINE e == w[t]
             s == IF e.seen = "pause" THEN "paused" ELSE "failed"
             c == [type |-> e.phase, batch |-> e.batch,
                   sites |-> e.sites, total |-> e.total, files |-> <<>>,
                   index |-> IF e.phase = "rollback" THEN e.counted
                             ELSE e.index,
                   counted |-> e.counted, applied |-> <<>>]
             r == [job EXCEPT !.status = WithStatus(t, s)]
             f == [e EXCEPT !.st = s,
                            !.pc = CASE e.phase = "enumeration" -> "enumEnd"
                                     [] e.phase = "labelling" -> "final"
                                     [] OTHER -> "rbEnd"]
  <2>1. Commit(t, c, r, f, mem[t])
    BY <1>3 DEF StopOnSignal
  <2>2. f.pc \in {"enumEnd", "final", "rbEnd"}
    BY <1>w DEF Executor
  <2>3. PhaseFits(f) /\ ~MayList(f)
    BY <2>2 DEF PhaseFits, MayList
  <2>4. /\ c.type = e.phase /\ c.batch = e.batch /\ c.sites = e.sites
        /\ c.files = <<>>
    OBVIOUS
  <2>5. e.phase = "enumeration" => MayList(w[t])
    BY <1>3 DEF StopOnSignal, At, MayList
  <2>6. w[t].batch \in Nat
    BY <1>w DEF Executor
  <2> HIDE DEF c, r, f
  <2>7. CASE e.phase = "enumeration"
    BY <2>1, <2>3, <2>4, <2>5, <2>6, <2>7, LogGrows
  <2>8. CASE e.phase # "enumeration"
    BY <2>1, <2>3, <2>4, <2>8, LogOther
  <2>. QED
    BY <2>7, <2>8
<1>. QED
  BY <1>1, <1>2, <1>3 DEF Signalled

\* The steps of enumeration: a checkpoint of a site takes the next free
\* number, or the commit is refused.
LEMMA LogEnumerate ==
  ASSUME EnumInv, NEW t \in Task, Enumerate(t)
  PROVE  /\ Numbered' /\ SitesListedOnce'
         /\ \A u \in Task : PhaseFits(w'[u]) /\ Positioned(w[u])'
<1>w. w[t] \in Executor /\ PhaseFits(w[t]) /\ Positioned(w[t])
  BY DEF EnumInv, ControlOK
<1>1. CASE EnumInit(t)
  <2> DEFINE E == CpsOf("enumeration")
             e(sites, total, batch) ==
               [w[t] EXCEPT !.pc = "enum", !.phase = "enumeration",
                            !.todo = Site \ sites, !.sites = sites,
                            !.total = total, !.batch = batch]
  <2>1. \A sites, total, batch :
          /\ e(sites, total, batch).pc = "enum"
          /\ e(sites, total, batch).phase = "enumeration"
          /\ e(sites, total, batch).todo = Site \ sites
          /\ e(sites, total, batch).sites = sites
          /\ e(sites, total, batch).batch = batch
    BY <1>w DEF Executor
  <2>2. UNCHANGED cps /\ CpsOf("enumeration")' = E
    BY <1>1 DEF EnumInit, CpsOf
  <2>3. CASE E = {} /\ EnumFrom(t, {}, 0, 0)
    <3>1. w' = [w EXCEPT ![t] = e({}, 0, 0)]
      BY <2>3 DEF EnumFrom, Become
    <3> HIDE DEF e
    <3>2. PhaseFits(e({}, 0, 0))
      BY <2>1 DEF PhaseFits
    <3>3. Positioned(e({}, 0, 0))
      BY <2>1, <2>3 DEF Positioned
    <3>. QED
      BY <2>2, <3>1, <3>2, <3>3, LogKept
  <2>4. ASSUME NEW c \in Latest(E),
               EnumFrom(t, c.sites, c.total, c.batch + 1)
        PROVE  /\ Numbered' /\ SitesListedOnce'
               /\ \A u \in Task : PhaseFits(w'[u]) /\ Positioned(w[u])'
    <3> DEFINE f == e(c.sites, c.total, c.batch + 1)
    <3>1. w' = [w EXCEPT ![t] = f]
      BY <2>4 DEF EnumFrom, Become
    <3>2. /\ f.pc = "enum" /\ f.phase = "enumeration"
          /\ f.todo = Site \ c.sites /\ f.sites = c.sites
          /\ f.batch = c.batch + 1
      BY <2>1
    <3> HIDE DEF f, e
    <3>3. c \in E /\ c.batch \in Nat /\ \A d \in E : d.batch \in Nat
      BY DEF Latest, CpsOf, EnumInv, ControlOK
    <3>4. \A d \in E : d = c \/ d.batch < c.batch
      BY <3>3 DEF Latest, EnumInv, Numbered
    <3>5. \A d \in E : d.sites \subseteq c.sites
      BY <3>3, <3>4 DEF EnumInv, SitesListedOnce
    <3>6. \A n \in Nat : n < c.batch + 1 => \E d \in E : d.batch = n
      <4>1. \A n \in Nat : n < c.batch + 1 => n < c.batch \/ n = c.batch
        BY <3>3
      <4>. QED
        BY <3>3, <4>1 DEF EnumInv, Numbered
    <3>7. Positioned(f)
      BY <3>2, <3>5, <3>6 DEF Positioned
    <3>8. PhaseFits(f)
      BY <3>2 DEF PhaseFits
    <3>. QED
      BY <2>2, <3>1, <3>7, <3>8, LogKept
  <2>. QED
    BY <1>1, <2>3, <2>4 DEF EnumInit
<1>2. CASE NextSite(t)
  <2> DEFINE e == [w[t] EXCEPT !.pc = "list"]
  <2>1. /\ e.pc = "list" /\ e.phase = w[t].phase /\ e.todo = w[t].todo
        /\ e.sites = w[t].sites /\ e.batch = w[t].batch
    BY <1>w DEF Executor
  <2>2. w[t].pc = "enum" /\ UNCHANGED cps /\ w' = [w EXCEPT ![t] = e]
    BY <1>2 DEF NextSite, At, Goto, Become
  <2> HIDE DEF e
  <2>3. PhaseFits(e) /\ Positioned(e)
    BY <1>w, <2>1, <2>2 DEF PhaseFits, Positioned, MayList
  <2>. QED
    BY <2>2, <2>3, LogKept DEF CpsOf
<1>3. CASE SkipSite(t)
  <2>1. PICK s \in w[t].todo :
          Become(t, [w[t] EXCEPT !.pc = "enum", !.todo = @ \ {s}])
    BY <1>3 DEF SkipSite
  <2> DEFINE e == [w[t] EXCEPT !.pc = "enum", !.todo = @ \ {s}]
  <2>2. /\ e.pc = "enum" /\ e.phase = w[t].phase
        /\ e.todo = w[t].todo \ {s}
        /\ e.sites = w[t].sites /\ e.batch = w[t].batch
    BY <1>w DEF Executor
  <2>3. w[t].pc = "list" /\ UNCHANGED cps /\ w' = [w EXCEPT ![t] = e]
    BY <1>3, <2>1 DEF SkipSite, At, Become
  <2> HIDE DEF e
  <2>4. PhaseFits(e) /\ Positioned(e)
    BY <1>w, <2>2, <2>3 DEF PhaseFits, Positioned, MayList
  <2>. QED
    BY <2>3, <2>4, LogKept DEF CpsOf
<1>4. CASE ListSite(t)
  <2>0. PICK s \in w[t].todo : \E fs \in Listing[s] :
          LET e == [w[t] EXCEPT !.sites = @ \cup {s}, !.total = @ + Len(fs)]
              c == [type |-> "enumeration", batch |-> e.batch,
                    sites |-> e.sites, total |-> e.total, files |-> fs,
                    index |-> 0, counted |-> 0, applied |-> <<>>]
          IN Commit(t, c, [job EXCEPT !.total = e.total],
                    [e EXCEPT !.pc = "enum", !.todo = @ \ {s},
                              !.batch = @ + 1],
                    mem[t])
    BY <1>4 DEF ListSite
  <2>1. PICK fs \in Listing[s] :
          LET e == [w[t] EXCEPT !.sites = @ \cup {s}, !.total = @ + Len(fs)]
              c == [type |-> "enumeration", batch |-> e.batch,
                    sites |-> e.sites, total |-> e.total, files |-> fs,
                    index |-> 0, counted |-> 0, applied |-> <<>>]
          IN Commit(t, c, [job EXCEPT !.total = e.total],
                    [e EXCEPT !.pc = "enum", !.todo = @ \ {s},
                              !.batch = @ + 1],
                    mem[t])
    BY <2>0
  <2> DEFINE e == [w[t] EXCEPT !.sites = @ \cup {s}, !.total = @ + Len(fs)]
             c == [type |-> "enumeration", batch |-> e.batch,
                   sites |-> e.sites, total |-> e.total, files |-> fs,
                   index |-> 0, counted |-> 0, applied |-> <<>>]
             r == [job EXCEPT !.total = e.total]
             f == [e EXCEPT !.pc = "enum", !.todo = @ \ {s},
                            !.batch = @ + 1]
  <2>2. Commit(t, c, r, f, mem[t])
    BY <2>1
  <2>3. /\ e.sites = w[t].sites \cup {s} /\ e.todo = w[t].todo
        /\ e.batch = w[t].batch /\ e.phase = w[t].phase
    BY <1>w DEF Executor
  <2>4. /\ f.pc = "enum" /\ f.phase = e.phase /\ f.todo = e.todo \ {s}
        /\ f.sites = e.sites /\ f.batch = e.batch + 1
    BY <1>w DEF Executor
  <2>5. /\ c.type = "enumeration" /\ c.batch = e.batch
        /\ c.sites = e.sites
    OBVIOUS
  <2> HIDE DEF e, c, r, f
  <2>6. w[t].pc = "list" /\ MayList(w[t]) /\ w[t].phase = "enumeration"
    BY <1>4, <1>w DEF ListSite, At, MayList, PhaseFits
  <2>7. w[t].todo \cap w[t].sites = {} /\ w[t].batch \in Nat
    BY <1>w, <2>6 DEF Positioned, Executor
  <2>8. /\ f.todo \cap f.sites = {} /\ f.sites = c.sites
        /\ f.batch = c.batch + 1
    BY <2>3, <2>4, <2>5, <2>7
  <2>9. PhaseFits(f)
    BY <2>3, <2>4, <2>6 DEF PhaseFits
  <2>10. w[t].sites \subseteq c.sites /\ s \in c.sites
         /\ c.batch = w[t].batch
    BY <2>3, <2>5
  <2>. QED
    BY <2>2, <2>5, <2>6, <2>7, <2>8, <2>9, <2>10, LogGrows
<1>5. CASE AfterEnum(t)
  <2> DEFINE e == [w[t] EXCEPT
                     !.st = job.status,
                     !.pc = CASE job.status = "enumerating" -> "toRunning"
                              [] job.status = "running" -> "labelInit"
                              [] OTHER -> "final"]
  <2>1. e.pc \in {"toRunning", "labelInit", "final"}
    BY <1>w DEF Executor
  <2>2. UNCHANGED cps /\ w' = [w EXCEPT ![t] = e]
    BY <1>5 DEF AfterEnum, Become
  <2> HIDE DEF e
  <2>3. PhaseFits(e) /\ Positioned(e)
    BY <2>1 DEF PhaseFits, Positioned, MayList
  <2>. QED
    BY <2>2, <2>3, LogKept DEF CpsOf
<1>6. CASE ToRunning(t)
  <2> DEFINE e == [w[t] EXCEPT !.pc = "labelInit", !.st = "running"]
  <2>1. e.pc = "labelInit"
    BY <1>w DEF Executor
  <2>2. UNCHANGED cps /\ w' = [w EXCEPT ![t] = e]
    BY <1>6 DEF ToRunning, RunAndGoto, Become
  <2> HIDE DEF e
  <2>3. PhaseFits(e) /\ Positioned(e)
    BY <2>1 DEF PhaseFits, Positioned, MayList
  <2>. QED
    BY <2>2, <2>3, LogKept DEF CpsOf
<1>. QED
  BY <1>1, <1>2, <1>3, <1>4, <1>5, <1>6 DEF Enumerate

\* A step to a control point that may not list.
LEMMA LogElsewhere ==
  ASSUME EnumInv, UNCHANGED cps, NEW t \in Task, NEW e, Become(t, e),
         PhaseFits(e), ~MayList(e)
  PROVE  /\ Numbered' /\ SitesListedOnce'
         /\ \A u \in Task : PhaseFits(w'[u]) /\ Positioned(w[u])'
BY LogKept DEF Become, Positioned, CpsOf

\* Labelling writes no checkpoint of the enumeration.
LEMMA LogLabel ==
  ASSUME EnumInv, NEW t \in Task, LabelPhase(t)
  PROVE  /\ Numbered' /\ SitesListedOnce'
         /\ \A u \in Task : PhaseFits(w'[u]) /\ Positioned(w[u])'
<1>w. w[t] \in Executor /\ PhaseFits(w[t])
  BY DEF EnumInv, ControlOK
<1>1. CASE LabelConfigFails(t)
  <2>1. [w[t] EXCEPT !.pc = "final", !.st = "failed"].pc = "final"
    BY <1>w DEF Executor
  <2>. QED
    BY <1>1, <2>1, LogElsewhere DEF LabelConfigFails, PhaseFits, MayList
<1>2. CASE LabelInit(t)
  <2>1. UNCHANGED cps
    BY <1>2 DEF LabelInit, StartLabelling, LabelFrom
  <2>2. \/ Goto(t, "final")
        \/ \E index, counted, batch : LabelFrom(t, index, counted, batch)
    BY <1>2 DEF LabelInit, StartLabelling
  <2>3. [w[t] EXCEPT !.pc = "final"].pc = "final"
    BY <1>w DEF Executor
  <2>4. \A index, counted, batch :
          LET e == [w[t] EXCEPT !.pc = "label", !.phase = "labelling",
                                !.index = index, !.counted = counted,
                                !.batch = batch, !.k = 0]
          IN e.pc = "label" /\ e.phase = "labelling"
    BY <1>w DEF Executor
  <2>5. \E e : Become(t, e) /\ PhaseFits(e) /\ ~MayList(e)
    BY <2>2, <2>3, <2>4 DEF Goto, LabelFrom, PhaseFits, MayList
  <2>. QED
    BY <2>1, <2>5, LogElsewhere
<1>3. CASE NextBatch(t) \/ Capture(t)
  <2>1. PICK pc \in {"capture", "apply"} : Goto(t, pc)
    BY <1>3 DEF NextBatch, Capture
  <2>2. /\ [w[t] EXCEPT !.pc = pc].pc = pc
        /\ [w[t] EXCEPT !.pc = pc].phase = w[t].phase
    BY <1>w DEF Executor
  <2>3. w[t].phase = "labelling" /\ UNCHANGED cps
    BY <1>3, <1>w DEF NextBatch, Capture, At, PhaseFits
  <2>. QED
    BY <2>1, <2>2, <2>3, LogElsewhere DEF Goto, PhaseFits, MayList
<1>4. CASE LabelFile(t) /\ ~Capture(t)
  <2>1. PICK n \in {0, 1} : FileDone(t, n)
    BY <1>4 DEF LabelFile, NoteDryRun, ApplyLabel, ApplyRefused, ApplyUnknown
  <2>2. w[t].phase = "labelling" /\ UNCHANGED cps
    BY <1>4, <1>w DEF LabelFile, NoteDryRun, ApplyLabel, ApplyRefused,
                      ApplyUnknown, At, PhaseFits
  <2> DEFINE e(pc) == [w[t] EXCEPT !.k = @ + 1, !.counted = @ + n, !.pc = pc]
  <2>3. Become(t, e("labelCommit")) \/ Become(t, e("capture"))
    BY <2>1 DEF FileDone
  <2>4. \A pc : e(pc).pc = pc /\ e(pc).phase = w[t].phase
    BY <1>w DEF Executor
  <2> HIDE DEF e
  <2>5. \A pc \in {"labelCommit", "capture"} :
          PhaseFits(e(pc)) /\ ~MayList(e(pc))
    BY <2>2, <2>4 DEF PhaseFits, MayList
  <2>. QED
    BY <2>2, <2>3, <2>5, LogElsewhere
<1>5. CASE CommitBatch(t)
  <2> DEFINE e == w[t]
             end == e.index + e.k
             c == [type |-> "labelling", batch |-> e.batch, sites |-> {},
                   total |-> 0, files |-> <<>>, index |-> end,
                   counted |-> e.counted, applied |-> mem[t].applied]
             r == [job EXCEPT !.processed = e.counted]
             f == [e EXCEPT !.pc = "label", !.index = end, !.k = 0,
                            !.batch = @ + 1]
             m == [mem[t] EXCEPT !.applied = <<>>]
  <2>1. Commit(t, c, r, f, m)
    BY <1>5 DEF CommitBatch, CommitBatchLeaving
  <2>2. f.pc = "label" /\ f.phase = e.phase /\ c.type = "labelling"
    BY <1>w DEF Executor
  <2>3. e.phase = "labelling"
    BY <1>5, <1>w DEF CommitBatch, CommitBatchLeaving, At, PhaseFits
  <2> HIDE DEF c, r, f, m
  <2>. QED
    BY <2>1, <2>2, <2>3, LogOther DEF PhaseFits, MayList
<1>6. CASE AfterLabel(t)
  <2>1. [w[t] EXCEPT !.pc = "complete", !.st = "running"].pc = "complete"
    BY <1>w DEF Executor
  <2>. QED
    BY <1>6, <2>1, LogElsewhere, LogLeave DEF AfterLabel, PhaseFits, MayList
<1>7. CASE Complete(t)
  BY <1>7, LogLeave DEF Complete
<1>. QED
  BY <1>1, <1>2, <1>3, <1>4, <1>5, <1>6, <1>7 DEF LabelPhase

\* Neither does rollback.
LEMMA LogRollBack ==
  ASSUME EnumInv, NEW t \in Task, RollBack(t)
  PROVE  /\ Numbered' /\ SitesListedOnce'
         /\ \A u \in Task : PhaseFits(w'[u]) /\ Positioned(w[u])'
<1>w. w[t] \in Executor /\ PhaseFits(w[t])
  BY DEF EnumInv, ControlOK
<1>1. CASE RollbackInit(t)
  <2>1. UNCHANGED cps
    BY <1>1 DEF RollbackInit, RollbackInitAhead
  <2>2. \/ Goto(t, "rbEnd")
        \/ \E index, batch : RollbackFrom(t, index, batch)
    BY <1>1 DEF RollbackInit, RollbackInitAhead
  <2>3. [w[t] EXCEPT !.pc = "rbEnd"].pc = "rbEnd"
    BY <1>w DEF Executor
  <2>4. \A index, batch :
          LET e == [w[t] EXCEPT !.pc = "rb", !.phase = "rollback",
                                !.index = index, !.counted = index,
                                !.batch = batch, !.k = 0]
          IN e.pc = "rb" /\ e.phase = "rollback"
    BY <1>w DEF Executor
  <2>5. \E e : Become(t, e) /\ PhaseFits(e) /\ ~MayList(e)
    BY <2>2, <2>3, <2>4 DEF Goto, RollbackFrom, PhaseFits, MayList
  <2>. QED
    BY <2>1, <2>5, LogElsewhere
<1>2. CASE NextUndoBatch(t)
  <2>1. /\ [w[t] EXCEPT !.pc = "undo"].pc = "undo"
        /\ [w[t] EXCEPT !.pc = "undo"].phase = w[t].phase
    BY <1>w DEF Executor
  <2>2. w[t].phase = "rollback" /\ UNCHANGED cps
    BY <1>2, <1>w DEF NextUndoBatch, At, PhaseFits
  <2>. QED
    BY <1>2, <2>1, <2>2, LogElsewhere
       DEF NextUndoBatch, Goto, PhaseFits, MayList
<1>3. CASE Undo(t) \/ UndoFails(t)
  <2>1. PICK n \in {0, 1} : EntryDone(t, n)
    BY <1>3 DEF Undo, UndoUnless, UndoFails
  <2>2. w[t].phase = "rollback" /\ UNCHANGED cps
    BY <1>3, <1>w DEF Undo, UndoUnless, UndoFails, At, PhaseFits
  <2> DEFINE e(pc) == [w[t] EXCEPT !.k = @ + 1, !.counted = @ + n, !.pc = pc]
  <2>3. Become(t, e("rbCommit")) \/ Become(t, e("undo"))
    BY <2>1 DEF EntryDone
  <2>4. \A pc : e(pc).pc = pc /\ e(pc).phase = w[t].phase
    BY <1>w DEF Executor
  <2> HIDE DEF e
  <2>5. \A pc \in {"rbCommit", "undo"} :
          PhaseFits(e(pc)) /\ ~MayList(e(pc))
    BY <2>2, <2>4 DEF PhaseFits, MayList
  <2>. QED
    BY <2>2, <2>3, <2>5, LogElsewhere
<1>4. CASE CommitUndo(t)
  <2> DEFINE e == w[t]
             c == [type |-> "rollback", batch |-> e.batch, sites |-> {},
                   total |-> 0, files |-> <<>>, index |-> e.counted,
                   counted |-> e.counted, applied |-> <<>>]
             f == [e EXCEPT !.pc = "rb", !.index = @ + e.k, !.k = 0,
                            !.batch = @ + 1]
  <2>1. Commit(t, c, job, f, mem[t])
    BY <1>4 DEF CommitUndo
  <2>2. f.pc = "rb" /\ f.phase = e.phase /\ c.type = "rollback"
    BY <1>w DEF Executor
  <2>3. e.phase = "rollback"
    BY <1>4, <1>w DEF CommitUndo, At, PhaseFits
  <2> HIDE DEF c, f
  <2>. QED
    BY <2>1, <2>2, <2>3, LogOther DEF PhaseFits, MayList
<1>5. CASE AfterRollback(t)
  <2>1. [w[t] EXCEPT !.pc = "rbComplete", !.st = "rolling_back"].pc
          = "rbComplete"
    BY <1>w DEF Executor
  <2>. QED
    BY <1>5, <2>1, LogElsewhere, LogLeave
       DEF AfterRollback, AfterRollbackIf, PhaseFits, MayList
<1>6. CASE RollbackComplete(t)
  BY <1>6, LogLeave DEF RollbackComplete
<1>. QED
  BY <1>1, <1>2, <1>3, <1>4, <1>5, <1>6 DEF RollBack

\* Every step keeps EnumInv.
LEMMA LogStep ==
  ASSUME EnumInv, [Next]_vars
  PROVE  EnumInv'
<1>c. ControlOK' /\ TriesLeft'
  BY ControlStep DEF EnumInv
<1>1. CASE ApiNext \/ UNCHANGED vars
  <2>1. UNCHANGED <<cps, w>>
    BY <1>1 DEF ApiNext, UserRequest, Start, Pause, Resume, Cancel, Rollback,
                Accept, ApiSettle, Dispatch, SendSignal, LoseDispatch,
                SignalExpires, vars
  <2>. QED
    BY <1>c, <2>1, LogUntouched DEF EnumInv
<1>2. ASSUME NEW t \in Task, Work(t) \/ Disrupt(t) PROVE EnumInv'
  <2>1. CASE BeginTask(t)
    <3> DEFINE e == [NewExecutor EXCEPT
                  !.st = job.status,
                  !.pc = IF task[t].kind = "rollback" THEN "rbInit"
                         ELSE CASE job.status = "enumerating" -> "enumInit"
                                [] job.status = "running" -> "labelInit"
                                [] OTHER -> "final"]
    <3>1. e.pc \in {"rbInit", "enumInit", "labelInit", "final"}
      BY DEF NewExecutor
    <3>2. Become(t, e) /\ UNCHANGED cps
      BY <2>1 DEF BeginTask
    <3> HIDE DEF e
    <3>3. PhaseFits(e) /\ ~MayList(e)
      BY <3>1 DEF PhaseFits, MayList
    <3>. QED
      BY <1>c, <3>2, <3>3, LogElsewhere DEF EnumInv
  <2>2. CASE Disrupt(t)
    <3>1. UNCHANGED cps /\ \E state : Leave(t, state)
      BY <2>2 DEF Disrupt, Crash, Die, Timeout, Raise, Abandon
    <3>. QED
      BY <1>c, <3>1, LogLeave DEF EnumInv
  <2>3. CASE Signalled(t)
    BY <1>c, <2>3, LogSignalled DEF EnumInv
  <2>4. CASE Enumerate(t)
    BY <1>c, <2>4, LogEnumerate DEF EnumInv
  <2>5. CASE LabelPhase(t)
    BY <1>c, <2>5, LogLabel DEF EnumInv
  <2>6. CASE RollBack(t)
    BY <1>c, <2>6, LogRollBack DEF EnumInv
  <2>. QED
    BY <1>2, <2>1, <2>2, <2>3, <2>4, <2>5, <2>6 DEF Work
<1>. QED
  BY <1>1, <1>2 DEF Next, ExecutorNext

\* Initially the log is empty.
LEMMA LogInit == Init => EnumInv
<1>. SUFFICES ASSUME Init PROVE EnumInv
  OBVIOUS
<1>1. Numbered /\ SitesListedOnce
  BY DEF Init, Numbered, SitesListedOnce, CpsOf
<1>2. \A t \in Task : PhaseFits(w[t]) /\ Positioned(w[t])
  BY DEF Init, NewExecutor, PhaseFits, Positioned, MayList
<1>. QED
  BY <1>1, <1>2, InitControl DEF EnumInv

\* Whatever the API, the queue and the crashes do, and however many
\* executors enumerate one job at the same time, no site is completed by two
\* checkpoints: _collect_enumerated_files never sees a site's files twice.
THEOREM SpecSitesListedOnce == Spec => []SitesListedOnce
<1>1. Init => EnumInv
  BY LogInit
<1>2. EnumInv /\ [Next]_vars => EnumInv'
  BY LogStep
<1>3. EnumInv => SitesListedOnce
  BY DEF EnumInv
<1>. QED
  BY <1>1, <1>2, <1>3, PTL DEF Spec
-----------------------------------------------------------------------------
(* The inductive invariant of the log.                                     *)

\* The checkpoints of a type are numbered from 0 without gaps or repetition.
Dense(type) ==
  /\ Batches(type) \in Nat
  /\ \A c \in CpsOf(type) : c.batch \in 0 .. Batches(type) - 1
  /\ \A n \in 0 .. Batches(type) - 1 : \E c \in CpsOf(type) : c.batch = n
  /\ \A c, d \in CpsOf(type) : c.batch = d.batch => c = d

\* c is the latest checkpoint of its type.
Newest(c) == c.batch = Batches(c.type) - 1

Prefix(s, t) == Len(s) <= Len(t) /\ \A i \in 1 .. Len(s) : s[i] = t[i]

\* The row's counters are those of the log.
RowFits ==
  /\ job.total = Len(Manifest)
  /\ \A c \in CpsOf("enumeration") : Newest(c) => c.total = Len(Manifest)
  /\ Batches("labelling") = 0 => job.processed = 0
  /\ \A c \in CpsOf("labelling") :
       /\ c.counted <= c.index /\ c.index <= Len(Manifest)
       /\ Newest(c) => c.counted = job.processed

\* An executor that lists counts on from the checkpoint before its own.
ListFits(e) ==
  MayList(e) =>
    /\ e.batch <= Batches("enumeration")
    /\ e.batch = 0 => e.total = 0
    /\ \A c \in CpsOf("enumeration") :
         c.batch = e.batch - 1 => c.total = e.total

\* The executor e is in its labelling phase.
Labels(e) ==
  \/ e.pc \in { "label", "capture", "apply", "labelCommit" }
  \/ e.pc \in { "ack", "stop" } /\ e.phase = "labelling"

\* Its files are the manifest, or were when it began; it goes on where the
\* checkpoint before its own stopped, and stays within its batch.
LabelFits(e, m) ==
  Labels(e) =>
    /\ Prefix(m.files, Manifest)
    /\ e.batch <= Batches("labelling")
    /\ e.batch = 0 => e.index = 0
    /\ \A c \in CpsOf("labelling") : c.batch = e.batch - 1 =>
         c.index = e.index /\ c.counted <= e.counted
         /\ (e.k = 0 => c.counted = e.counted)
    /\ e.batch = 0 /\ e.k = 0 => e.counted = 0
    /\ e.counted <= e.index + e.k
    /\ e.index + e.k <= Len(m.files)
    /\ e.pc \in { "label", "ack", "stop" } => e.k = 0 /\ m.applied = <<>>
    /\ e.pc \in { "capture", "apply" } =>
         e.index < Len(m.files) /\ e.k < BatchLen(e.index, m.files)

\* An executor that undoes an entry has one to undo.
UndoFits(e, m) ==
  /\ e.pc = "rb" => e.k = 0
  /\ e.pc = "undo" => /\ e.index < Len(m.applied)
                      /\ e.k < BatchLen(e.index, m.applied)

\* Entries carry the row's dry_run, and a dry run applies no label.
DryFits(e, m) ==
  /\ \A i \in 1 .. Len(m.applied) : m.applied[i].dry = job.dry
  /\ e.pc = "apply" => ~job.dry

Fits(e, m) == ListFits(e) /\ LabelFits(e, m) /\ UndoFits(e, m) /\ DryFits(e, m)

\* The types that ControlOK leaves out.
DataOK ==
  /\ cps \subseteq Checkpoint
  /\ mem \in [Task -> Memory]
  /\ label \in [File -> LabelId]
  /\ excused \subseteq File

LogFits ==
  /\ Dense("enumeration") /\ Dense("labelling")
  /\ RowFits
  /\ \A i \in 1 .. Len(AllApplied) : AllApplied[i].dry = job.dry
  /\ \A t \in Task : Fits(w[t], mem[t])

StoreOK == DataOK /\ LogFits /\ DryRunTouchesNothing

LogInv == EnumInv /\ StoreOK

-----------------------------------------------------------------------------
(* Each file is logged once.                                               *)

\* Walking a tenant finds a file in one place: once, and in one site.
FilesInOnePlace ==
  \A s, t \in Site : \A fs \in Listing[s], gs \in Listing[t] :
    \A i \in 1 .. Len(fs), j \in 1 .. Len(gs) :
      fs[i] = gs[j] => s = t /\ (fs = gs => i = j)

Distinct(s) == \A i, j \in 1 .. Len(s) : s[i] = s[j] => i = j

\* The files of the batch that e has in hand.
InHand(e, m) ==
  Labels(e) =>
    /\ \A i, j \in 1 .. Len(m.applied) :
         m.applied[i].file = m.applied[j].file => i = j
    /\ \A i \in 1 .. Len(m.applied) :
         \E p \in e.index + 1 .. e.index + e.k : m.applied[i].file = m.files[p]

OnceInv ==
  /\ LogInv
  /\ Distinct(Manifest)
  /\ \A p \in 1 .. Len(Manifest) :
       \E c \in CpsOf("enumeration") : \E s \in c.sites : \E fs \in Listing[s] :
         \E i \in 1 .. Len(fs) : Manifest[p] = fs[i]
  /\ \A c, d \in CpsOf("labelling") : c.batch < d.batch => c.index <= d.index
  /\ Batches("labelling") = 0 => AllApplied = <<>>
  /\ \A i, j \in 1 .. Len(AllApplied) :
       AllApplied[i].file = AllApplied[j].file => i = j
  /\ \A i \in 1 .. Len(AllApplied) : \A c \in CpsOf("labelling") :
       Newest(c) => \E p \in 1 .. c.index : AllApplied[i].file = Manifest[p]
  /\ \A t \in Task : InHand(w[t], mem[t])

-----------------------------------------------------------------------------
(* What FlattenSeq returns.                                               *)

\* A set of numbers has a least one: the library states it for well-founded
\* relations, and it stands for induction in the proofs below.
LEMMA Least ==
  ASSUME NEW T \in SUBSET Nat, T # {}
  PROVE \E n \in T : \A m \in T : n <= m
<1> DEFINE R == OpToRel(<, Nat)
<1>1. IsWellFoundedOn(R, Nat)
  BY NatLessThanWellFounded
<1>2. \A x, y \in Nat : x < y => <<x,y>> \in R
  BY DEF OpToRel
<1> HIDE DEF R
<1>3. PICK n \in T : \A y \in T : ~ (<<y, n>> \in R)
  BY <1>1, WFMin
<1>4. \A m \in T : n \in Nat /\ m \in Nat /\ ~(m < n)
  BY <1>2, <1>3
<1>5. \A m \in T : n <= m
  BY <1>4
<1>. QED
  BY <1>5

\* g[i] is the concatenation of the first i sequences of s, for i up to n.
Flattens(s, n, g) ==
  g = [i \in 1 .. n |-> IF i = 1 THEN s[i] ELSE g[i-1] \o s[i]]

\* Two such functions agree where their sequences do.
LEMMA FlattensSame ==
  ASSUME NEW s, NEW t, NEW g, NEW h, NEW m \in Nat, NEW n \in Nat, n <= m,
         Flattens(s, m, g), Flattens(t, n, h),
         \A i \in 1 .. n : s[i] = t[i]
  PROVE  \A i \in 1 .. n : g[i] = h[i]
<1> DEFINE T == { i \in 1 .. n : g[i] # h[i] }
<1>1. SUFFICES ASSUME T # {} PROVE FALSE
  OBVIOUS
<1>2. T \in SUBSET Nat
  OBVIOUS
<1>3. PICK k \in T : \A j \in T : k <= j
  <2> HIDE DEF T
  <2>. QED
    BY <1>1, <1>2, Least
<1>4. k \in 1 .. n /\ k \in 1 .. m
  OBVIOUS
<1>5. /\ g[k] = IF k = 1 THEN s[k] ELSE g[k-1] \o s[k]
      /\ h[k] = IF k = 1 THEN t[k] ELSE h[k-1] \o t[k]
  BY <1>4 DEF Flattens
<1>6. k # 1 => g[k-1] = h[k-1]
  <2>1. k # 1 => k - 1 \in 1 .. n /\ k - 1 \notin T
    BY <1>3, <1>4
  <2>. QED
    BY <2>1
<1>. QED
  BY <1>4, <1>5, <1>6

\* There is such a function for every n, and it holds sequences.
LEMMA FlattensExists ==
  ASSUME NEW U, NEW s \in Seq(Seq(U))
  PROVE  \E g \in [1 .. Len(s) -> Seq(U)] : Flattens(s, Len(s), g)
<1> DEFINE T == { n \in 0 .. Len(s) :
                    ~ \E g \in [1 .. n -> Seq(U)] : Flattens(s, n, g) }
<1>1. ASSUME T # {} PROVE FALSE
  <2>1. T \in SUBSET Nat
    OBVIOUS
  <2>2. PICK n \in T : \A j \in T : n <= j
    <3> HIDE DEF T
    <3>. QED
      BY <1>1, <2>1, Least
  <2>3. n # 0
    <3>1. Flattens(s, 0, <<>>) /\ <<>> \in [1 .. 0 -> Seq(U)]
      BY DEF Flattens
    <3>. QED
      BY <3>1
  <2>4. n \in 1 .. Len(s) /\ n - 1 \in 0 .. Len(s)
    BY <2>3
  <2>5. n - 1 \notin T
    <3>. HIDE DEF T
    <3>. QED
      BY <2>2, <2>4
  <2>6. PICK g \in [1 .. n-1 -> Seq(U)] : Flattens(s, n-1, g)
    BY <2>4, <2>5
  <2> DEFINE last == IF n = 1 THEN s[n] ELSE g[n-1] \o s[n]
             h == [i \in 1 .. n |-> IF i = n THEN last ELSE g[i]]
  <2>7. \A i \in 1 .. n : s[i] \in Seq(U)
    BY <2>4
  <2>8. last \in Seq(U)
    BY <2>4, <2>6, <2>7
  <2>9. h \in [1 .. n -> Seq(U)]
    <3> HIDE DEF last
    <3>. QED
      BY <2>4, <2>6, <2>8
  <2>10. \A i \in 1 .. n-1 :
           g[i] = IF i = 1 THEN s[i] ELSE g[i-1] \o s[i]
    BY <2>6 DEF Flattens
  <2>11. \A i \in 1 .. n :
           h[i] = IF i = 1 THEN s[i] ELSE h[i-1] \o s[i]
    <3> TAKE i \in 1 .. n
    <3>1. CASE i = n
      BY <3>1, <2>4
    <3>2. CASE i # n
      <4>1. i \in 1 .. n-1 /\ (i # 1 => i - 1 \in 1 .. n-1)
        BY <3>2, <2>4
      <4>2. h[i] = g[i] /\ (i # 1 => h[i-1] = g[i-1])
        BY <3>2, <4>1, <2>4
      <4>3. g[i] = IF i = 1 THEN s[i] ELSE g[i-1] \o s[i]
        BY <4>1, <2>10
      <4> HIDE DEF h
      <4>. QED
        BY <4>2, <4>3
    <3>. QED
      BY <3>1, <3>2
  <2>12. Flattens(s, n, h)
    <3> HIDE DEF h
    <3>. QED
      BY <2>9, <2>11 DEF Flattens
  <2>. QED
    BY <2>9, <2>12
<1>. QED
  BY <1>1

\* Hence the function that the library chooses is one.
LEMMA FlattenValue ==
  ASSUME NEW U, NEW s \in Seq(Seq(U)), Len(s) # 0
  PROVE  \E g \in [1 .. Len(s) -> Seq(U)] :
           Flattens(s, Len(s), g) /\ FlattenSeq(s) = g[Len(s)]
<1> DEFINE f == CHOOSE g : Flattens(s, Len(s), g)
<1>1. PICK g \in [1 .. Len(s) -> Seq(U)] : Flattens(s, Len(s), g)
  BY FlattensExists
<1>2. Flattens(s, Len(s), f)
  BY <1>1
<1>3. FlattenSeq(s) = f[Len(s)]
  BY DEF FlattenSeq, Flattens
<1> HIDE DEF f
<1>4. \A i \in 1 .. Len(s) : g[i] = f[i]
  BY <1>1, <1>2, FlattensSame
<1>5. Len(s) \in 1 .. Len(s)
  OBVIOUS
<1>6. FlattenSeq(s) = g[Len(s)]
  BY <1>3, <1>4, <1>5
<1>. QED
  BY <1>1, <1>6

\* FlattenSeq of no sequence, and of one more sequence.
LEMMA FlattenType ==
  ASSUME NEW U, NEW s \in Seq(Seq(U))
  PROVE  FlattenSeq(s) \in Seq(U)
<1>1. CASE Len(s) = 0
  BY <1>1 DEF FlattenSeq
<1>2. CASE Len(s) # 0
  <2>1. PICK g \in [1 .. Len(s) -> Seq(U)] : FlattenSeq(s) = g[Len(s)]
    BY <1>2, FlattenValue
  <2>2. Len(s) \in 1 .. Len(s)
    BY <1>2
  <2>. QED
    BY <2>1, <2>2
<1>. QED
  BY <1>1, <1>2

LEMMA FlattenAppend ==
  ASSUME NEW U, NEW s \in Seq(Seq(U)), NEW x \in Seq(U)
  PROVE  FlattenSeq(Append(s, x)) = FlattenSeq(s) \o x
<1> DEFINE t == Append(s, x)
<1>1. /\ t \in Seq(Seq(U)) /\ Len(t) = Len(s) + 1 /\ t[Len(t)] = x
      /\ \A i \in 1 .. Len(s) : t[i] = s[i]
      /\ Len(s) \in Nat
  OBVIOUS
<1> HIDE DEF t
<1>2. PICK h \in [1 .. Len(t) -> Seq(U)] :
        Flattens(t, Len(t), h) /\ FlattenSeq(t) = h[Len(t)]
  BY <1>1, FlattenValue
<1>3. h[Len(t)] = IF Len(t) = 1 THEN x ELSE h[Len(s)] \o x
  <2>1. Len(t) \in 1 .. Len(t) /\ Len(t) - 1 = Len(s)
    BY <1>1
  <2>2. h[Len(t)] = IF Len(t) = 1 THEN t[Len(t)]
                    ELSE h[Len(t)-1] \o t[Len(t)]
    BY <1>2, <2>1 DEF Flattens
  <2>. QED
    BY <1>1, <2>1, <2>2
<1>4. CASE Len(s) = 0
  <2>1. FlattenSeq(s) = <<>> /\ s = <<>>
    BY <1>4 DEF FlattenSeq
  <2>. QED
    BY <1>1, <1>2, <1>3, <1>4, <2>1 DEF t
<1>5. CASE Len(s) # 0
  <2>1. PICK g \in [1 .. Len(s) -> Seq(U)] :
          Flattens(s, Len(s), g) /\ FlattenSeq(s) = g[Len(s)]
    BY <1>5, FlattenValue
  <2>2. \A i \in 1 .. Len(s) : h[i] = g[i]
    <3> DEFINE m == Len(t)
               n == Len(s)
    <3>1. /\ m \in Nat /\ n \in Nat /\ n <= m
          /\ \A i \in 1 .. n : t[i] = s[i]
      BY <1>1
    <3>2. Flattens(t, m, h) /\ Flattens(s, n, g)
      BY <1>2, <2>1
    <3> HIDE DEF m, n
    <3>3. \A i \in 1 .. n : h[i] = g[i]
      BY <3>1, <3>2, FlattensSame
    <3>. QED
      BY <3>3 DEF n
  <2>3. Len(s) \in 1 .. Len(s) /\ Len(t) # 1
    BY <1>1, <1>5
  <2>4. FlattenSeq(t) = FlattenSeq(s) \o x
    BY <1>2, <1>3, <2>1, <2>2, <2>3
  <2>. QED
    BY <2>4 DEF t
<1>. QED
  BY <1>4, <1>5

-----------------------------------------------------------------------------
(* The log in the order of its batch numbers.                              *)

\* Batches is one more than the greatest number, whatever that is.
LEMMA BatchesValue ==
  ASSUME NEW type, NEW n \in Nat,
         \A c \in CpsOf(type) : c.batch \in 0 .. n - 1,
         \A i \in 0 .. n - 1 : \E c \in CpsOf(type) : c.batch = i
  PROVE  Batches(type) = n
<1> DEFINE B == { c.batch : c \in CpsOf(type) }
<1>1. CASE n = 0
  BY <1>1 DEF Batches
<1>2. CASE n # 0
  <2>1. n - 1 \in B /\ \A y \in B : y \in Int /\ n - 1 >= y
    BY <1>2
  <2>2. CpsOf(type) # {}
    BY <1>2
  <2> HIDE DEF B
  <2>3. \A x \in B : (\A y \in B : x >= y) => x = n - 1
    BY <2>1
  <2>4. Max(B) = n - 1
    BY <2>1, <2>3 DEF Max
  <2>. QED
    BY <2>2, <2>4 DEF Batches, B
<1>. QED
  BY <1>1, <1>2

\* A log that does not change, or changes in another type only.
LEMMA DenseKept ==
  ASSUME NEW type, Dense(type), CpsOf(type)' = CpsOf(type)
  PROVE  /\ Dense(type)'
         /\ Batches(type)' = Batches(type)
         /\ ByBatch(type)' = ByBatch(type)
BY DEF Dense, Batches, ByBatch

\* A checkpoint with the next number comes last.
LEMMA DenseGrows ==
  ASSUME NEW type, Dense(type), NEW c,
         CpsOf(type)' = CpsOf(type) \cup {c}, c.batch = Batches(type)
  PROVE  /\ Dense(type)'
         /\ Batches(type)' = Batches(type) + 1
         /\ \A n \in 1 .. Batches(type) : ByBatch(type)'[n] = ByBatch(type)[n]
         /\ ByBatch(type)'[Batches(type) + 1] = c
<1> DEFINE N == Batches(type)
           C == CpsOf(type)
           D == CpsOf(type)'
<1>1. /\ N \in Nat
      /\ \A d \in C : d.batch \in 0 .. N - 1
      /\ \A n \in 0 .. N - 1 : \E d \in C : d.batch = n
      /\ \A d, e \in C : d.batch = e.batch => d = e
  BY DEF Dense
<1>2. D = C \cup {c} /\ c.batch = N
  OBVIOUS
<1> HIDE DEF N, C, D
<1>3. /\ \A d \in D : d.batch \in 0 .. N
      /\ \A n \in 0 .. N : \E d \in D : d.batch = n
      /\ \A d, e \in D : d.batch = e.batch => d = e
  BY <1>1, <1>2
<1>4. Batches(type)' = N + 1
  <2> DEFINE B == { d.batch : d \in D }
  <2>1. N \in B /\ \A y \in B : y \in Int /\ N >= y
    BY <1>1, <1>2, <1>3
  <2>2. D # {}
    BY <1>2
  <2> HIDE DEF B
  <2>3. \A x \in B : (\A y \in B : x >= y) => x = N
    BY <1>1, <2>1
  <2>4. Max(B) = N
    BY <2>1, <2>3 DEF Max
  <2>. QED
    BY <2>2, <2>4 DEF Batches, B, D
<1>5. Dense(type)'
  BY <1>1, <1>3, <1>4 DEF Dense, D
<1>6. ByBatch(type) = [n \in 1 .. N |-> CHOOSE d \in C : d.batch = n - 1]
  BY DEF ByBatch, N, C
<1>7. ByBatch(type)' = [n \in 1 .. N + 1 |-> CHOOSE d \in D : d.batch = n - 1]
  BY <1>4 DEF ByBatch, D
<1>8. \A n \in 1 .. N : (CHOOSE d \in D : d.batch = n - 1)
                          = (CHOOSE d \in C : d.batch = n - 1)
  <2> TAKE n \in 1 .. N
  <2>1. PICK d \in C : d.batch = n - 1
    BY <1>1
  <2>2. \A e \in D : e.batch = n - 1 => e = d
    BY <1>1, <1>2, <1>3, <2>1
  <2>3. \A e \in C : e.batch = n - 1 => e = d
    BY <1>1, <2>1
  <2>4. (CHOOSE e \in D : e.batch = n - 1) = d
    BY <1>2, <2>1, <2>2
  <2>5. (CHOOSE e \in C : e.batch = n - 1) = d
    BY <2>1, <2>3
  <2>. QED
    BY <2>4, <2>5
<1>9. (CHOOSE d \in D : d.batch = N) = c
  BY <1>2, <1>3
<1>10. \A n \in 1 .. N : ByBatch(type)'[n] = ByBatch(type)[n]
  BY <1>1, <1>6, <1>7, <1>8
<1>11. ByBatch(type)'[N + 1] = c
  BY <1>1, <1>7, <1>9
<1>. QED
  BY <1>4, <1>5, <1>10, <1>11 DEF N

\* The checkpoints in that order.
LEMMA ByBatchFacts ==
  ASSUME NEW type, Dense(type)
  PROVE  \A n \in 1 .. Batches(type) : ByBatch(type)[n] \in CpsOf(type)
<1> TAKE n \in 1 .. Batches(type)
<1>1. \E c \in CpsOf(type) : c.batch = n - 1
  BY DEF Dense
<1>. QED
  BY <1>1 DEF ByBatch

\* The manifest and the entries, before and after a checkpoint is added.
LEMMA ManifestType ==
  ASSUME Dense("enumeration"), cps \subseteq Checkpoint
  PROVE  Manifest \in Seq(File)
<1> DEFINE N == Batches("enumeration")
           F == [n \in 1 .. N |-> ByBatch("enumeration")[n].files]
<1>1. N \in Nat
  BY DEF Dense
<1>2. \A n \in 1 .. N : ByBatch("enumeration")[n].files \in Seq(File)
  BY ByBatchFacts DEF CpsOf, Checkpoint
<1>3. F \in Seq(Seq(File))
  BY <1>1, <1>2
<1> HIDE DEF F
<1>4. FlattenSeq(F) \in Seq(File)
  BY <1>3, FlattenType
<1>. QED
  BY <1>4 DEF F, Manifest

LEMMA AllAppliedType ==
  ASSUME Dense("labelling"), cps \subseteq Checkpoint
  PROVE  AllApplied \in Seq(Entry)
<1> DEFINE N == Batches("labelling")
           F == [n \in 1 .. N |-> ByBatch("labelling")[n].applied]
<1>1. N \in Nat
  BY DEF Dense
<1>2. \A n \in 1 .. N : ByBatch("labelling")[n].applied \in Seq(Entry)
  BY ByBatchFacts DEF CpsOf, Checkpoint
<1>3. F \in Seq(Seq(Entry))
  BY <1>1, <1>2
<1> HIDE DEF F
<1>4. FlattenSeq(F) \in Seq(Entry)
  BY <1>3, FlattenType
<1>. QED
  BY <1>4 DEF F, AllApplied

LEMMA ManifestKept ==
  ASSUME Dense("enumeration"),
         CpsOf("enumeration")' = CpsOf("enumeration")
  PROVE  Manifest' = Manifest
<1> DEFINE F(N, B) == FlattenSeq([n \in 1 .. N |-> B[n].files])
<1>1. /\ Batches("enumeration")' = Batches("enumeration")
      /\ ByBatch("enumeration")' = ByBatch("enumeration")
  BY DenseKept
<1>2. Manifest = F(Batches("enumeration"), ByBatch("enumeration"))
  BY DEF Manifest
<1>3. Manifest' = F(Batches("enumeration")', ByBatch("enumeration")')
  BY DEF Manifest
<1> HIDE DEF F
<1>. QED
  BY <1>1, <1>2, <1>3

LEMMA AllAppliedKept ==
  ASSUME Dense("labelling"),
         CpsOf("labelling")' = CpsOf("labelling")
  PROVE  AllApplied' = AllApplied
<1> DEFINE F(N, B) == FlattenSeq([n \in 1 .. N |-> B[n].applied])
<1>1. /\ Batches("labelling")' = Batches("labelling")
      /\ ByBatch("labelling")' = ByBatch("labelling")
  BY DenseKept
<1>2. AllApplied = F(Batches("labelling"), ByBatch("labelling"))
  BY DEF AllApplied
<1>3. AllApplied' = F(Batches("labelling")', ByBatch("labelling")')
  BY DEF AllApplied
<1> HIDE DEF F
<1>. QED
  BY <1>1, <1>2, <1>3

LEMMA ManifestGrows ==
  ASSUME Dense("enumeration"), cps \subseteq Checkpoint, NEW c \in Checkpoint,
         CpsOf("enumeration")' = CpsOf("enumeration") \cup {c},
         c.batch = Batches("enumeration")
  PROVE  Manifest' = Manifest \o c.files
<1> DEFINE N == Batches("enumeration")
           F == [n \in 1 .. N |-> ByBatch("enumeration")[n].files]
           G == [n \in 1 .. N + 1 |-> ByBatch("enumeration")'[n].files]
<1>1. N \in Nat
  BY DEF Dense
<1>2. /\ Batches("enumeration")' = N + 1
      /\ \A n \in 1 .. N :
           ByBatch("enumeration")'[n] = ByBatch("enumeration")[n]
      /\ ByBatch("enumeration")'[N + 1] = c
  BY DenseGrows
<1>3. \A n \in 1 .. N : ByBatch("enumeration")[n].files \in Seq(File)
  BY ByBatchFacts DEF CpsOf, Checkpoint
<1>4. F \in Seq(Seq(File)) /\ Len(F) = N
  BY <1>1, <1>3
<1>5. c.files \in Seq(File)
  BY DEF Checkpoint
<1>6. \A n \in 1 .. N + 1 :
        ByBatch("enumeration")'[n].files = IF n <= N THEN F[n] ELSE c.files
  BY <1>1, <1>2
<1>7. G = [n \in 1 .. N + 1 |-> IF n <= N THEN F[n] ELSE c.files]
  BY <1>6
<1>8. Append(F, c.files)
        = [n \in 1 .. N + 1 |-> IF n <= N THEN F[n] ELSE c.files]
  <2> HIDE DEF F
  <2>. QED
    BY <1>1, <1>4, <1>5
<1>9. Manifest' = FlattenSeq(G)
  BY <1>2 DEF Manifest
<1>10. Manifest = FlattenSeq(F)
  BY DEF Manifest
<1> HIDE DEF F, G
<1>11. FlattenSeq(Append(F, c.files)) = FlattenSeq(F) \o c.files
  BY <1>4, <1>5, FlattenAppend
<1>. QED
  BY <1>7, <1>8, <1>9, <1>10, <1>11

LEMMA AllAppliedGrows ==
  ASSUME Dense("labelling"), cps \subseteq Checkpoint, NEW c \in Checkpoint,
         CpsOf("labelling")' = CpsOf("labelling") \cup {c},
         c.batch = Batches("labelling")
  PROVE  AllApplied' = AllApplied \o c.applied
<1> DEFINE N == Batches("labelling")
           F == [n \in 1 .. N |-> ByBatch("labelling")[n].applied]
           G == [n \in 1 .. N + 1 |-> ByBatch("labelling")'[n].applied]
<1>1. N \in Nat
  BY DEF Dense
<1>2. /\ Batches("labelling")' = N + 1
      /\ \A n \in 1 .. N : ByBatch("labelling")'[n] = ByBatch("labelling")[n]
      /\ ByBatch("labelling")'[N + 1] = c
  BY DenseGrows
<1>3. \A n \in 1 .. N : ByBatch("labelling")[n].applied \in Seq(Entry)
  BY ByBatchFacts DEF CpsOf, Checkpoint
<1>4. F \in Seq(Seq(Entry)) /\ Len(F) = N
  BY <1>1, <1>3
<1>5. c.applied \in Seq(Entry)
  BY DEF Checkpoint
<1>6. \A n \in 1 .. N + 1 :
        ByBatch("labelling")'[n].applied = IF n <= N THEN F[n] ELSE c.applied
  BY <1>1, <1>2
<1>7. G = [n \in 1 .. N + 1 |-> IF n <= N THEN F[n] ELSE c.applied]
  BY <1>6
<1>8. Append(F, c.applied)
        = [n \in 1 .. N + 1 |-> IF n <= N THEN F[n] ELSE c.applied]
  <2> HIDE DEF F
  <2>. QED
    BY <1>1, <1>4, <1>5
<1>9. AllApplied' = FlattenSeq(G)
  BY <1>2 DEF AllApplied
<1>10. AllApplied = FlattenSeq(F)
  BY DEF AllApplied
<1> HIDE DEF F, G
<1>11. FlattenSeq(Append(F, c.applied)) = FlattenSeq(F) \o c.applied
  BY <1>4, <1>5, FlattenAppend
<1>. QED
  BY <1>7, <1>8, <1>9, <1>10, <1>11

-----------------------------------------------------------------------------
(* What a step does to the log and to the executors.                       *)

\* The parts of the invariant, with the types of the lists.
LEMMA LogParts ==
  ASSUME LogInv
  PROVE  /\ ControlOK /\ DataOK /\ RowFits /\ DryRunTouchesNothing
         /\ Dense("enumeration") /\ Dense("labelling")
         /\ Manifest \in Seq(File) /\ AllApplied \in Seq(Entry)
         /\ \A t \in Task : /\ w[t] \in Executor /\ PhaseFits(w[t])
                            /\ mem[t] \in Memory /\ Fits(w[t], mem[t])
<1>1. /\ ControlOK /\ DataOK /\ RowFits /\ DryRunTouchesNothing
      /\ Dense("enumeration") /\ Dense("labelling")
      /\ \A t \in Task : PhaseFits(w[t]) /\ Fits(w[t], mem[t])
  BY DEF LogInv, EnumInv, StoreOK, LogFits
<1>2. \A t \in Task : w[t] \in Executor /\ mem[t] \in Memory
  BY <1>1 DEF ControlOK, DataOK
<1>3. Manifest \in Seq(File) /\ AllApplied \in Seq(Entry)
  BY <1>1, ManifestType, AllAppliedType DEF DataOK
<1>. QED
  BY <1>1, <1>2, <1>3

\* The log of the two phases stays, and the executor of u is e with memory m.
LEMMA FitsStays ==
  ASSUME Dense("enumeration"), Dense("labelling"),
         CpsOf("enumeration")' = CpsOf("enumeration"),
         CpsOf("labelling")' = CpsOf("labelling"), job'.dry = job.dry,
         NEW u \in Task, NEW e, NEW m, Fits(e, m), w'[u] = e, mem'[u] = m
  PROVE  Fits(w[u], mem[u])'
<1>1. /\ Manifest' = Manifest
      /\ Batches("enumeration")' = Batches("enumeration")
      /\ Batches("labelling")' = Batches("labelling")
  BY ManifestKept, DenseKept
<1>2. ListFits(w[u])'
  BY <1>1 DEF Fits, ListFits
<1>3. LabelFits(w[u], mem[u])'
  BY <1>1 DEF Fits, LabelFits
<1>4. UndoFits(w[u], mem[u])' /\ DryFits(w[u], mem[u])'
  BY DEF Fits, UndoFits, DryFits
<1>. QED
  BY <1>2, <1>3, <1>4 DEF Fits

\* The row's status, one executor, its memory and the labels may change.
LEMMA LocalStep ==
  ASSUME LogInv, NEW t \in Task, NEW e, NEW m \in Memory,
         w' = [w EXCEPT ![t] = e], mem' = [mem EXCEPT ![t] = m],
         CpsOf("enumeration")' = CpsOf("enumeration"),
         CpsOf("labelling")' = CpsOf("labelling"), cps' \subseteq Checkpoint,
         job'.total = job.total, job'.processed = job.processed,
         job'.dry = job.dry, label' \in [File -> LabelId],
         job.dry => label' = label, excused' \subseteq File, Fits(e, m)
  PROVE  StoreOK'
<1>1. /\ Dense("enumeration") /\ Dense("labelling") /\ RowFits
      /\ DataOK /\ DryRunTouchesNothing /\ ControlOK
      /\ \A i \in 1 .. Len(AllApplied) : AllApplied[i].dry = job.dry
      /\ \A u \in Task : Fits(w[u], mem[u])
  BY DEF LogInv, StoreOK, LogFits, EnumInv
<1>2. DataOK'
  BY <1>1 DEF DataOK
<1>3. DryRunTouchesNothing'
  BY <1>1 DEF DryRunTouchesNothing
<1>4. /\ Manifest' = Manifest /\ AllApplied' = AllApplied
      /\ Batches("labelling")' = Batches("labelling")
      /\ Batches("enumeration")' = Batches("enumeration")
      /\ Dense("enumeration")' /\ Dense("labelling")'
  BY <1>1, ManifestKept, AllAppliedKept, DenseKept
<1>5. RowFits'
  <2>1. \A c \in CpsOf("enumeration") : c.type = "enumeration"
    BY DEF CpsOf
  <2>2. \A c \in CpsOf("labelling") : c.type = "labelling"
    BY DEF CpsOf
  <2>. QED
    BY <1>1, <1>4, <2>1, <2>2 DEF RowFits, Newest
<1>6. ASSUME NEW u \in Task PROVE Fits(w[u], mem[u])'
  <2>1. CASE u = t
    <3>1. w'[u] = e /\ mem'[u] = m
      BY <1>1, <2>1 DEF ControlOK, DataOK
    <3>. QED
      BY <1>1, <3>1, FitsStays
  <2>2. CASE u # t
    <3> DEFINE f == w[u]
               n == mem[u]
    <3>1. w'[u] = f /\ mem'[u] = n /\ Fits(f, n)
      BY <1>1, <2>2 DEF ControlOK, DataOK
    <3> HIDE DEF f, n
    <3>. QED
      BY <1>1, <3>1, FitsStays
  <2>. QED
    BY <2>1, <2>2
<1>7. \A i \in 1 .. Len(AllApplied') : AllApplied'[i].dry = job'.dry
  BY <1>1, <1>4
<1>8. LogFits'
  BY <1>4, <1>5, <1>6, <1>7 DEF LogFits
<1>. QED
  BY <1>2, <1>3, <1>8 DEF StoreOK

\* An executor that has ended, or not begun, fits every log.
LEMMA LeaveStep ==
  ASSUME LogInv, NEW t \in Task, NEW state, Leave(t, state),
         UNCHANGED <<cps, label>>,
         job'.total = job.total, job'.processed = job.processed,
         job'.dry = job.dry, excused' \subseteq File
  PROVE  StoreOK'
<1>1. NewMemory \in Memory
  BY DEF NewMemory, Memory, LabelId
<1>2. /\ NewExecutor.pc = "idle"
      /\ NewMemory.applied = <<>>
  BY DEF NewExecutor, NewMemory
<1>3. Fits(NewExecutor, NewMemory)
  BY <1>2 DEF Fits, ListFits, LabelFits, UndoFits, DryFits, MayList, Labels
<1>4. /\ w' = [w EXCEPT ![t] = NewExecutor]
      /\ mem' = [mem EXCEPT ![t] = NewMemory]
  BY DEF Leave, Become, Remember
<1>5. /\ cps' \subseteq Checkpoint /\ label' \in [File -> LabelId]
  BY LogParts DEF DataOK
<1>6. /\ CpsOf("enumeration")' = CpsOf("enumeration")
      /\ CpsOf("labelling")' = CpsOf("labelling")
  BY DEF CpsOf
<1>. QED
  BY <1>1, <1>3, <1>4, <1>5, <1>6, LocalStep

\* The files cut off when a session is lost are files.
LEMMA UncommittedFiles ==
  ASSUME DataOK
  PROVE  \A t \in Task : Uncommitted(t) \subseteq File
<1> TAKE t \in Task
<1>1. mem[t].applied \in Seq(Entry)
  BY DEF DataOK, Memory
<1>2. ASSUME NEW i \in DOMAIN mem[t].applied
      PROVE  mem[t].applied[i].file \in File
  <2>1. mem[t].applied[i] \in Entry
    BY <1>1, <1>2
  <2>. QED
    BY <2>1 DEF Entry
<1>. QED
  BY <1>2 DEF Uncommitted

LEMMA AbandonStep ==
  ASSUME LogInv, NEW t \in Task, NEW state, Abandon(t, state),
         UNCHANGED <<cps, label>>,
         job'.total = job.total, job'.processed = job.processed,
         job'.dry = job.dry
  PROVE  StoreOK'
<1>1. excused' \subseteq File
  BY LogParts, UncommittedFiles DEF Abandon, DataOK
<1>. QED
  BY <1>1, LeaveStep DEF Abandon

\* An executor whose number is free stands at the end of the log, and has
\* counted all of it.
LEMMA ListsAtTheEnd ==
  ASSUME LogInv, NEW t \in Task, MayList(w[t]),
         Insertable("enumeration", w[t].batch)
  PROVE  /\ w[t].batch = Batches("enumeration")
         /\ w[t].total = Len(Manifest)
<1>1. /\ Dense("enumeration") /\ ListFits(w[t]) /\ RowFits
      /\ w[t].batch \in Nat
  BY LogParts DEF Fits, Executor
<1>2. \A c \in CpsOf("enumeration") : c.batch # w[t].batch
  BY DEF Insertable, CpsOf
<1>3. w[t].batch = Batches("enumeration")
  BY <1>1, <1>2 DEF Dense, ListFits
<1>4. CASE w[t].batch = 0
  <2>1. Manifest = FlattenSeq([n \in 1 .. 0 |->
                                 ByBatch("enumeration")[n].files])
    BY <1>3, <1>4 DEF Manifest
  <2>2. Manifest = <<>>
    BY <2>1 DEF FlattenSeq
  <2>. QED
    BY <1>1, <1>3, <1>4, <2>2 DEF ListFits
<1>5. CASE w[t].batch # 0
  <2>1. PICK c \in CpsOf("enumeration") : c.batch = w[t].batch - 1
    BY <1>1, <1>3, <1>5 DEF Dense
  <2>2. c.type = "enumeration"
    BY DEF CpsOf
  <2>3. c.total = w[t].total
    BY <1>1, <2>1 DEF ListFits
  <2>4. c.total = Len(Manifest)
    BY <1>1, <1>3, <2>1, <2>2 DEF RowFits, Newest
  <2>. QED
    BY <1>3, <2>3, <2>4
<1>. QED
  BY <1>4, <1>5

\* A checkpoint of the enumeration is added behind the others.
LEMMA ListStep ==
  ASSUME LogInv, NEW t \in Task, NEW c \in Checkpoint, NEW r, NEW e,
         Commit(t, c, r, e, mem[t]), c.type = "enumeration",
         MayList(w[t]), c.batch = w[t].batch,
         c.total = w[t].total + Len(c.files),
         r.total = c.total \/ (r.total = job.total /\ c.files = <<>>),
         r.processed = job.processed, r.dry = job.dry,
         ~Labels(e), e.pc \notin {"rb", "undo", "apply"},
         MayList(e) => e.batch = c.batch + 1 /\ e.total = c.total
  PROVE  StoreOK'
<1>1. CASE ~Insertable(c.type, c.batch)
  <2>1. Abandon(t, "done") /\ UNCHANGED <<cps, job, label>>
    BY <1>1 DEF Commit
  <2>. QED
    BY <2>1, AbandonStep
<1>2. CASE Insertable(c.type, c.batch)
  <2>p. /\ ControlOK /\ DataOK /\ RowFits /\ DryRunTouchesNothing
        /\ Dense("enumeration") /\ Dense("labelling")
        /\ Manifest \in Seq(File)
        /\ \A u \in Task : w[u] \in Executor /\ Fits(w[u], mem[u])
        /\ \A i \in 1 .. Len(AllApplied) : AllApplied[i].dry = job.dry
    BY LogParts DEF LogInv, StoreOK, LogFits
  <2>1. /\ cps' = cps \cup {c} /\ job' = r /\ w' = [w EXCEPT ![t] = e]
        /\ mem' = [mem EXCEPT ![t] = mem[t]]
        /\ UNCHANGED <<label, excused>>
    BY <1>2 DEF Commit, Become, Remember
  <2>2. /\ CpsOf("enumeration")' = CpsOf("enumeration") \cup {c}
        /\ CpsOf("labelling")' = CpsOf("labelling")
    BY <2>1 DEF CpsOf
  <2>3. c.batch = Batches("enumeration") /\ w[t].total = Len(Manifest)
    BY <1>2, ListsAtTheEnd
  <2>4. /\ Dense("enumeration")' /\ Dense("labelling")'
        /\ Batches("enumeration")' = Batches("enumeration") + 1
        /\ Batches("labelling")' = Batches("labelling")
        /\ AllApplied' = AllApplied
        /\ Manifest' = Manifest \o c.files
        /\ Batches("enumeration") \in Nat
    <3>1. Dense("enumeration")' /\ Batches("enumeration")' = Batches("enumeration") + 1
      BY <2>p, <2>2, <2>3, DenseGrows
    <3>2. Dense("labelling")' /\ Batches("labelling")' = Batches("labelling")
      BY <2>p, <2>2, DenseKept
    <3>3. AllApplied' = AllApplied
      BY <2>p, <2>2, AllAppliedKept
    <3>4. Manifest' = Manifest \o c.files
      BY <2>p, <2>2, <2>3, ManifestGrows DEF DataOK
    <3>. QED
      BY <2>p, <3>1, <3>2, <3>3, <3>4 DEF Dense
  <2>5. /\ c.files \in Seq(File) /\ Len(c.files) \in Nat
        /\ Len(Manifest') = Len(Manifest) + Len(c.files)
        /\ Prefix(Manifest, Manifest')
    BY <2>p, <2>4, ConcatProperties DEF Checkpoint, Prefix
  <2>6. Len(Manifest') = c.total
    BY <2>3, <2>5
  <2>7. DataOK'
    BY <2>p, <2>1 DEF DataOK
  <2>8. DryRunTouchesNothing'
    BY <2>p, <2>1 DEF DryRunTouchesNothing
  <2>9. RowFits'
    <3>1. r.total = Len(Manifest')
      BY <2>p, <2>3, <2>5, <2>6 DEF RowFits
    <3>2. ASSUME NEW d \in CpsOf("enumeration")', Newest(d)'
          PROVE  d.total = Len(Manifest')
      <4>1. d.type = "enumeration"
        BY DEF CpsOf
      <4>2. d.batch = Batches("enumeration")
        BY <2>4, <3>2, <4>1 DEF Newest
      <4>3. d = c
        BY <2>p, <2>2, <4>2 DEF Dense
      <4>. QED
        BY <2>6, <4>3
    <3>3. ASSUME NEW d \in CpsOf("labelling")
          PROVE  /\ d.counted <= d.index /\ d.index <= Len(Manifest')
                 /\ Newest(d)' => d.counted = r.processed
      <4>1. /\ d.type = "labelling" /\ d.index \in Nat
        BY <2>p DEF CpsOf, ControlOK
      <4>2. /\ d.counted <= d.index /\ d.index <= Len(Manifest)
            /\ Newest(d) => d.counted = job.processed
        BY <2>p DEF RowFits
      <4>3. Newest(d)' <=> Newest(d)
        BY <2>4, <4>1 DEF Newest
      <4>. QED
        BY <2>p, <2>5, <4>1, <4>2, <4>3
    <3>4. Batches("labelling")' = 0 => r.processed = 0
      BY <2>p, <2>4 DEF RowFits
    <3>. QED
      BY <2>1, <2>2, <3>1, <3>2, <3>3, <3>4 DEF RowFits
  <2>10. ASSUME NEW u \in Task PROVE Fits(w[u], mem[u])'
    <3>1. mem'[u] = mem[u]
      BY <2>p, <2>1 DEF DataOK
    <3>2. CASE u = t
      <4>1. w'[u] = e
        BY <2>p, <2>1, <3>2 DEF ControlOK
      <4>2. ListFits(w[u])'
        <5>1. ASSUME MayList(e), NEW d \in CpsOf("enumeration")',
                     d.batch = e.batch - 1
              PROVE  d.total = e.total
          <6>1. d.batch = Batches("enumeration")
            <7>1. \A x : x \in Nat => (x + 1) - 1 = x
              OBVIOUS
            <7>. QED
              BY <2>3, <2>4, <5>1, <7>1
          <6>2. d = c
            BY <2>p, <2>2, <2>3, <2>4, <6>1 DEF Dense
          <6>. QED
            BY <5>1, <6>2
        <5>2. MayList(e) => e.batch <= Batches("enumeration")' /\ e.batch # 0
          BY <2>3, <2>4
        <5>. QED
          BY <4>1, <5>1, <5>2 DEF ListFits
      <4>3. LabelFits(w[u], mem[u])'
        BY <4>1 DEF LabelFits
      <4>4. UndoFits(w[u], mem[u])' /\ DryFits(w[u], mem[u])'
        BY <2>p, <2>1, <3>1, <4>1 DEF Fits, UndoFits, DryFits
      <4>. QED
        BY <4>2, <4>3, <4>4 DEF Fits
    <3>3. CASE u # t
      <4>1. w'[u] = w[u] /\ Fits(w[u], mem[u]) /\ w[u] \in Executor
        BY <2>p, <2>1, <3>3 DEF ControlOK
      <4>2. ListFits(w[u])'
        <5>1. MayList(w[u]) => w[u].batch <= Batches("enumeration")
          BY <4>1 DEF Fits, ListFits
        <5>2. w[u].batch \in Nat
          BY <4>1 DEF Executor
        <5>3. MayList(w[u]) => c.batch # w[u].batch - 1
          BY <2>3, <2>4, <5>1, <5>2
        <5>. QED
          BY <2>2, <2>4, <4>1, <5>1, <5>2, <5>3 DEF Fits, ListFits
      <4>3. LabelFits(w[u], mem[u])'
        <5>1. ASSUME Prefix(mem[u].files, Manifest)
              PROVE  Prefix(mem[u].files, Manifest')
          BY <2>p, <2>5, <5>1 DEF Prefix, DataOK, Memory
        <5>. QED
          BY <2>2, <2>4, <3>1, <4>1, <5>1 DEF Fits, LabelFits
      <4>4. UndoFits(w[u], mem[u])' /\ DryFits(w[u], mem[u])'
        BY <2>1, <3>1, <4>1 DEF Fits, UndoFits, DryFits
      <4>. QED
        BY <4>2, <4>3, <4>4 DEF Fits
    <3>. QED
      BY <3>2, <3>3
  <2>11. \A i \in 1 .. Len(AllApplied') : AllApplied'[i].dry = job'.dry
    BY <2>p, <2>1, <2>4
  <2>12. LogFits'
    BY <2>4, <2>9, <2>10, <2>11 DEF LogFits
  <2>. QED
    BY <2>7, <2>8, <2>12 DEF StoreOK
<1>. QED
  BY <1>1, <1>2

\* An executor that labels and whose number is free stands at the end of the
\* log: its position and its count go on from the latest checkpoint's.
LEMMA LabelsAtTheEnd ==
  ASSUME LogInv, NEW t \in Task, Labels(w[t]),
         Insertable("labelling", w[t].batch)
  PROVE  /\ w[t].batch = Batches("labelling")
         /\ job.processed <= w[t].counted
         /\ w[t].k = 0 => job.processed = w[t].counted
         /\ \A d \in CpsOf("labelling") :
              Newest(d) => d.index = w[t].index /\ d.counted = job.processed
<1>1. /\ Dense("labelling") /\ LabelFits(w[t], mem[t]) /\ RowFits
      /\ w[t].batch \in Nat /\ w[t].counted \in Nat
      /\ job.processed \in Nat
  BY LogParts DEF Fits, Executor, ControlOK
<1>2. \A d \in CpsOf("labelling") : d.batch # w[t].batch
  BY DEF Insertable, CpsOf
<1>3. w[t].batch = Batches("labelling")
  BY <1>1, <1>2 DEF Dense, LabelFits
<1>4. \A d \in CpsOf("labelling") :
        Newest(d) => d.batch = w[t].batch - 1 /\ d.counted = job.processed
  BY <1>1, <1>3 DEF Newest, CpsOf, RowFits
<1>5. \A d \in CpsOf("labelling") :
        Newest(d) => /\ d.index = w[t].index
                     /\ d.counted = job.processed
                     /\ job.processed <= w[t].counted
                     /\ w[t].k = 0 => job.processed = w[t].counted
  BY <1>1, <1>4 DEF LabelFits
<1>6. CASE w[t].batch = 0
  BY <1>1, <1>3, <1>5, <1>6 DEF RowFits, LabelFits
<1>7. CASE w[t].batch # 0
  <2>1. PICK d \in CpsOf("labelling") : d.batch = w[t].batch - 1
    BY <1>1, <1>3, <1>7 DEF Dense
  <2>2. Newest(d)
    BY <1>3, <2>1 DEF Newest, CpsOf
  <2>. QED
    BY <1>3, <1>5, <2>2
<1>. QED
  BY <1>6, <1>7

\* A checkpoint of the labelling is added behind the others.
LEMMA LabelStep ==
  ASSUME LogInv, NEW t \in Task, NEW c \in Checkpoint, NEW r, NEW e,
         NEW m \in Memory, Commit(t, c, r, e, m), c.type = "labelling",
         Labels(w[t]), c.batch = w[t].batch, c.counted = w[t].counted,
         c.index = w[t].index + w[t].k, c.applied = mem[t].applied,
         r.total = job.total, r.dry = job.dry,
         r.processed = c.counted \/ (w[t].k = 0 /\ r.processed = job.processed),
         m.files = mem[t].files, m.applied = <<>>,
         ~MayList(e), e.pc \notin {"rb", "undo", "capture", "apply"},
         Labels(e) => /\ e.batch = c.batch + 1 /\ e.index = c.index /\ e.k = 0
                      /\ e.counted = c.counted
  PROVE  StoreOK'
<1>1. CASE ~Insertable(c.type, c.batch)
  <2>1. Abandon(t, "done") /\ UNCHANGED <<cps, job, label>>
    BY <1>1 DEF Commit
  <2>. QED
    BY <2>1, AbandonStep
<1>2. CASE Insertable(c.type, c.batch)
  <2> DEFINE B == Batches("labelling")
  <2>p. /\ ControlOK /\ DataOK /\ RowFits /\ DryRunTouchesNothing
        /\ Dense("enumeration") /\ Dense("labelling")
        /\ Manifest \in Seq(File) /\ AllApplied \in Seq(Entry)
        /\ \A u \in Task : /\ w[u] \in Executor /\ mem[u] \in Memory
                           /\ Fits(w[u], mem[u])
        /\ \A i \in 1 .. Len(AllApplied) : AllApplied[i].dry = job.dry
    BY LogParts DEF LogInv, StoreOK, LogFits
  <2>1. /\ cps' = cps \cup {c} /\ job' = r /\ w' = [w EXCEPT ![t] = e]
        /\ mem' = [mem EXCEPT ![t] = m]
        /\ UNCHANGED <<label, excused>>
    BY <1>2 DEF Commit, Become, Remember
  <2>2. /\ CpsOf("labelling")' = CpsOf("labelling") \cup {c}
        /\ CpsOf("enumeration")' = CpsOf("enumeration")
    BY <2>1 DEF CpsOf
  <2>3. /\ c.batch = B /\ job.processed <= w[t].counted
        /\ w[t].k = 0 => job.processed = w[t].counted
    BY <1>2, LabelsAtTheEnd
  <2>4. /\ Dense("enumeration")' /\ Dense("labelling")'
        /\ Batches("labelling")' = B + 1
        /\ Batches("enumeration")' = Batches("enumeration")
        /\ Manifest' = Manifest
        /\ AllApplied' = AllApplied \o mem[t].applied
        /\ B \in Nat
    <3>1. Dense("labelling")' /\ Batches("labelling")' = B + 1
      BY <2>p, <2>2, <2>3, DenseGrows
    <3>2. /\ Dense("enumeration")'
          /\ Batches("enumeration")' = Batches("enumeration")
      BY <2>p, <2>2, DenseKept
    <3>3. Manifest' = Manifest
      BY <2>p, <2>2, ManifestKept
    <3>4. AllApplied' = AllApplied \o c.applied
      BY <2>p, <2>2, <2>3, AllAppliedGrows DEF DataOK
    <3>. QED
      BY <2>p, <3>1, <3>2, <3>3, <3>4 DEF Dense
  <2>5. /\ w[t].counted <= w[t].index + w[t].k
        /\ w[t].index + w[t].k <= Len(mem[t].files)
        /\ Prefix(mem[t].files, Manifest)
    BY <2>p DEF Fits, LabelFits
  <2>6. /\ w[t].counted \in Nat /\ w[t].index \in Nat /\ w[t].k \in Nat
        /\ mem[t].files \in Seq(File) /\ mem[t].applied \in Seq(Entry)
    BY <2>p DEF Executor, Memory
  <2>7. DataOK'
    BY <2>p, <2>1 DEF DataOK
  <2>8. DryRunTouchesNothing'
    BY <2>p, <2>1 DEF DryRunTouchesNothing
  <2>9. RowFits'
    <3>1. r.processed = c.counted
      BY <2>3
    <3>2. c.index <= Len(Manifest) /\ c.counted <= c.index
      BY <2>p, <2>5, <2>6 DEF Prefix
    <3>3. ASSUME NEW d \in CpsOf("labelling")'
          PROVE  /\ d.counted <= d.index /\ d.index <= Len(Manifest)
                 /\ Newest(d)' => d.counted = r.processed
      <4>1. CASE d = c
        BY <3>1, <3>2, <4>1
      <4>2. CASE d \in CpsOf("labelling") /\ d # c
        <5>1. ~Newest(d)'
          <6>1. d.type = "labelling" /\ d.batch \in 0 .. B - 1
            BY <2>p, <4>2 DEF CpsOf, Dense
          <6>. QED
            BY <2>4, <6>1 DEF Newest
        <5>. QED
          BY <2>p, <4>2, <5>1 DEF RowFits
      <4>. QED
        BY <2>2, <4>1, <4>2
    <3>4. Batches("labelling")' # 0
      BY <2>4
    <3>5. \A d \in CpsOf("enumeration")' : Newest(d)' => Newest(d)
      BY <2>2, <2>4 DEF Newest, CpsOf
    <3>. QED
      BY <2>p, <2>1, <2>2, <2>4, <3>3, <3>4, <3>5 DEF RowFits
  <2>10. ASSUME NEW u \in Task PROVE Fits(w[u], mem[u])'
    <3>2. CASE u = t
      <4>1. w'[u] = e /\ mem'[u] = m
        BY <2>p, <2>1, <3>2 DEF ControlOK, DataOK
      <4>2. LabelFits(w[u], mem[u])'
        <5>1. ASSUME Labels(e), NEW d \in CpsOf("labelling")',
                     d.batch = e.batch - 1
              PROVE  d = c
          <6>1. d.batch = B
            <7>1. \A x : x \in Nat => (x + 1) - 1 = x
              OBVIOUS
            <7>. QED
              BY <2>3, <2>4, <5>1, <7>1
          <6>. QED
            BY <2>2, <2>3, <2>4, <6>1 DEF Dense
        <5>2. Labels(e) => /\ e.batch <= Batches("labelling")' /\ e.batch # 0
                           /\ e.counted <= e.index + e.k
                           /\ e.index + e.k <= Len(m.files)
          BY <2>3, <2>4, <2>5, <2>6
        <5>3. Labels(e) => \A d \in CpsOf("labelling")' :
                d.batch = e.batch - 1 =>
                  d.index = e.index /\ d.counted <= e.counted
                  /\ d.counted = e.counted
          BY <2>6, <5>1
        <5>4. e.pc = "label" \/ ~Labels(e) \/ e.pc \in {"ack", "stop", "labelCommit"}
          BY DEF Labels
        <5>5. Labels(e) => e.k = 0
          OBVIOUS
        <5>. QED
          BY <2>4, <2>5, <4>1, <5>2, <5>3, <5>4, <5>5 DEF LabelFits
      <4>3. ListFits(w[u])'
        BY <4>1 DEF ListFits
      <4>4. UndoFits(w[u], mem[u])' /\ DryFits(w[u], mem[u])'
        BY <4>1 DEF UndoFits, DryFits
      <4>. QED
        BY <4>2, <4>3, <4>4 DEF Fits
    <3>3. CASE u # t
      <4>1. /\ w'[u] = w[u] /\ mem'[u] = mem[u]
            /\ Fits(w[u], mem[u]) /\ w[u] \in Executor
        BY <2>p, <2>1, <3>3 DEF ControlOK, DataOK
      <4>2. LabelFits(w[u], mem[u])'
        <5>1. Labels(w[u]) => w[u].batch <= B
          BY <4>1 DEF Fits, LabelFits
        <5>2. w[u].batch \in Nat
          BY <4>1 DEF Executor
        <5>3. Labels(w[u]) => c.batch # w[u].batch - 1
          BY <2>3, <2>4, <5>1, <5>2
        <5>4. Labels(w[u]) => w[u].batch <= Batches("labelling")'
          BY <2>4, <5>1, <5>2
        <5>. QED
          BY <2>2, <2>4, <4>1, <5>3, <5>4 DEF Fits, LabelFits
      <4>3. ListFits(w[u])'
        BY <2>2, <2>4, <4>1 DEF Fits, ListFits
      <4>4. UndoFits(w[u], mem[u])' /\ DryFits(w[u], mem[u])'
        BY <2>1, <4>1 DEF Fits, UndoFits, DryFits
      <4>. QED
        BY <4>2, <4>3, <4>4 DEF Fits
    <3>. QED
      BY <3>2, <3>3
  <2>11. \A i \in 1 .. Len(AllApplied') : AllApplied'[i].dry = job'.dry
    <3> DEFINE q == mem[t].applied
    <3>1. \A i \in 1 .. Len(q) : q[i].dry = job.dry
      BY <2>p DEF Fits, DryFits
    <3>2. \A i \in 1 .. Len(AllApplied) + Len(q) :
            (AllApplied \o q)[i] = IF i <= Len(AllApplied) THEN AllApplied[i]
                                   ELSE q[i - Len(AllApplied)]
      BY <2>p, <2>6, ConcatProperties
    <3>3. Len(AllApplied \o q) = Len(AllApplied) + Len(q)
      BY <2>p, <2>6, ConcatProperties
    <3>4. Len(AllApplied) \in Nat /\ Len(q) \in Nat
      BY <2>p, <2>6
    <3> HIDE DEF q
    <3>5. \A i \in 1 .. Len(AllApplied) + Len(q) :
            (AllApplied \o q)[i].dry = job.dry
      <4> TAKE i \in 1 .. Len(AllApplied) + Len(q)
      <4>1. CASE i <= Len(AllApplied)
        BY <2>p, <3>2, <3>4, <4>1
      <4>2. CASE ~(i <= Len(AllApplied))
        <5>1. i - Len(AllApplied) \in 1 .. Len(q)
          BY <3>4, <4>2
        <5>. QED
          BY <3>1, <3>2, <4>2, <5>1
      <4>. QED
        BY <4>1, <4>2
    <3>. QED
      BY <2>1, <2>4, <3>3, <3>5 DEF q
  <2>12. LogFits'
    BY <2>4, <2>9, <2>10, <2>11 DEF LogFits
  <2>. QED
    BY <2>7, <2>8, <2>12 DEF StoreOK
<1>. QED
  BY <1>1, <1>2

\* A checkpoint of the rollback leaves both logs as they are.
LEMMA UndoStep ==
  ASSUME LogInv, NEW t \in Task, NEW c \in Checkpoint, NEW r, NEW e,
         Commit(t, c, r, e, mem[t]), c.type = "rollback",
         r.total = job.total, r.processed = job.processed, r.dry = job.dry,
         Fits(e, mem[t])
  PROVE  StoreOK'
<1>1. CASE ~Insertable(c.type, c.batch)
  <2>1. Abandon(t, "done") /\ UNCHANGED <<cps, job, label>>
    BY <1>1 DEF Commit
  <2>. QED
    BY <2>1, AbandonStep
<1>2. CASE Insertable(c.type, c.batch)
  <2>1. /\ cps' = cps \cup {c} /\ job' = r /\ w' = [w EXCEPT ![t] = e]
        /\ mem' = [mem EXCEPT ![t] = mem[t]]
        /\ UNCHANGED <<label, excused>>
    BY <1>2 DEF Commit, Become, Remember
  <2>2. /\ CpsOf("enumeration")' = CpsOf("enumeration")
        /\ CpsOf("labelling")' = CpsOf("labelling")
    BY <2>1 DEF CpsOf
  <2>3. /\ cps' \subseteq Checkpoint /\ mem[t] \in Memory
        /\ label' \in [File -> LabelId] /\ excused' \subseteq File
    BY <2>1, LogParts DEF DataOK
  <2>. QED
    BY <2>1, <2>2, <2>3, LocalStep
<1>. QED
  BY <1>1, <1>2

\* Only the executor of t moves, and perhaps the row's status changes.
LEMMA MoveStep ==
  ASSUME LogInv, NEW t \in Task, NEW e, Become(t, e),
         UNCHANGED <<cps, mem, label, excused>>,
         job'.total = job.total, job'.processed = job.processed,
         job'.dry = job.dry, Fits(e, mem[t])
  PROVE  StoreOK'
<1>1. /\ mem[t] \in Memory /\ cps' \subseteq Checkpoint
      /\ label' \in [File -> LabelId] /\ excused' \subseteq File
      /\ mem' = [mem EXCEPT ![t] = mem[t]]
  BY LogParts DEF DataOK
<1>2. /\ CpsOf("enumeration")' = CpsOf("enumeration")
      /\ CpsOf("labelling")' = CpsOf("labelling")
  BY DEF CpsOf
<1>. QED
  BY <1>1, <1>2, LocalStep DEF Become

\* ... to where it neither lists, labels nor undoes.
Rests(e) ==
  ~MayList(e) /\ ~Labels(e) /\ e.pc \notin {"rb", "undo", "apply"}

LEMMA RestStep ==
  ASSUME LogInv, NEW t \in Task, NEW e, Become(t, e),
         UNCHANGED <<cps, mem, label, excused>>,
         job'.total = job.total, job'.processed = job.processed,
         job'.dry = job.dry, Rests(e)
  PROVE  StoreOK'
<1>1. Fits(w[t], mem[t])
  BY LogParts
<1>2. Fits(e, mem[t])
  BY <1>1 DEF Rests, Fits, ListFits, LabelFits, UndoFits, DryFits
<1>. QED
  BY <1>2, MoveStep

\* The steps of the API leave the log and the executors alone.
LEMMA StoreApi ==
  ASSUME LogInv, ApiNext \/ UNCHANGED vars
  PROVE  StoreOK'
<1>1. /\ UNCHANGED <<cps, w, mem, label, excused>>
      /\ job'.total = job.total /\ job'.processed = job.processed
      /\ job'.dry = job.dry
  <2>1. UNCHANGED <<cps, w, mem, label, excused>>
    BY DEF ApiNext, UserRequest, Start, Pause, Resume, Cancel, Rollback,
           Accept, ApiSettle, Dispatch, SendSignal, LoseDispatch,
           SignalExpires, vars
  <2>2. UNCHANGED job \/ \E s : job' = [job EXCEPT !.status = s]
    BY DEF ApiNext, UserRequest, Start, Pause, Resume, Cancel, Rollback,
           Accept, ApiSettle, Dispatch, SendSignal, LoseDispatch,
           SignalExpires, vars
  <2>3. job \in [status : Statuses, total : Nat, processed : Nat,
                 dry : BOOLEAN]
    BY LogParts DEF ControlOK
  <2>. QED
    BY <2>1, <2>2, <2>3
<1>2. 0 \in Task
  BY ConstantTypes DEF Task
<1>3. Become(0, w[0]) /\ Fits(w[0], mem[0])
  BY <1>1, <1>2, LogParts DEF Become, ControlOK
<1>. QED
  BY <1>1, <1>2, <1>3, MoveStep

\* arq: delivery, crash, timeout, and the handler of an exception.
LEMMA StoreTask ==
  ASSUME LogInv, NEW t \in Task, BeginTask(t) \/ Disrupt(t)
  PROVE  StoreOK'
<1>j. job \in [status : Statuses, total : Nat, processed : Nat, dry : BOOLEAN]
  BY LogParts DEF ControlOK
<1>1. CASE BeginTask(t)
  <2> DEFINE e == [NewExecutor EXCEPT
                  !.st = job.status,
                  !.pc = IF task[t].kind = "rollback" THEN "rbInit"
                         ELSE CASE job.status = "enumerating" -> "enumInit"
                                [] job.status = "running" -> "labelInit"
                                [] OTHER -> "final"]
  <2>1. e.pc \in {"rbInit", "enumInit", "labelInit", "final"}
    BY DEF NewExecutor
  <2>2. Become(t, e) /\ UNCHANGED <<cps, mem, label, excused, job>>
    BY <1>1 DEF BeginTask
  <2> HIDE DEF e
  <2>3. Rests(e)
    BY <2>1 DEF Rests, MayList, Labels
  <2>. QED
    BY <2>2, <2>3, RestStep
<1>2. CASE Disrupt(t)
  <2>1. \E state : Abandon(t, state)
    BY <1>2 DEF Disrupt, Crash, Die, Timeout, Raise
  <2>2. UNCHANGED <<cps, label>>
    BY <1>2 DEF Disrupt, Crash, Die, Timeout, Raise
  <2>3. job' = job \/ job' = [job EXCEPT !.status = "failed"]
    BY <1>2 DEF Disrupt, Crash, Die, Timeout, Raise
  <2>. QED
    BY <1>j, <2>1, <2>2, <2>3, AbandonStep
<1>. QED
  BY <1>1, <1>2

\* Looking at the signal key and stopping on it.
LEMMA StoreSignalled ==
  ASSUME LogInv, NEW t \in Task, Signalled(t)
  PROVE  StoreOK'
<1>p. /\ w[t] \in Executor /\ PhaseFits(w[t]) /\ Fits(w[t], mem[t])
      /\ mem[t] \in Memory
      /\ job \in [status : Statuses, total : Nat, processed : Nat,
                  dry : BOOLEAN]
  BY LogParts DEF ControlOK
<1>1. CASE SeeSignal(t)
  <2> DEFINE e == [w[t] EXCEPT !.pc = "ack", !.seen = signal]
  <2>1. /\ e.pc = "ack" /\ e.phase = w[t].phase /\ e.batch = w[t].batch
        /\ e.total = w[t].total /\ e.index = w[t].index /\ e.k = w[t].k
        /\ e.counted = w[t].counted
    BY <1>p DEF Executor
  <2>2. Become(t, e) /\ UNCHANGED <<cps, mem, label, excused, job>>
    BY <1>1 DEF SeeSignal
  <2>3. w[t].pc \in {"enum", "list", "label", "rb"}
    BY <1>1 DEF SeeSignal, At
  <2> HIDE DEF e
  <2>4. MayList(e) => MayList(w[t])
    BY <1>p, <2>1, <2>3 DEF PhaseFits, MayList
  <2>5. Labels(e) => w[t].pc = "label"
    BY <1>p, <2>1, <2>3 DEF PhaseFits, Labels
  <2>6. ListFits(e)
    BY <1>p, <2>1, <2>4 DEF Fits, ListFits
  <2>7. LabelFits(e, mem[t])
    BY <1>p, <2>1, <2>5 DEF Fits, LabelFits, Labels
  <2>8. Fits(e, mem[t])
    BY <1>p, <2>1, <2>6, <2>7 DEF Fits, UndoFits, DryFits
  <2>. QED
    BY <2>2, <2>8, MoveStep
<1>2. CASE AckSignal(t)
  <2> DEFINE e == [w[t] EXCEPT !.pc = "stop"]
  <2>1. /\ e.pc = "stop" /\ e.phase = w[t].phase /\ e.batch = w[t].batch
        /\ e.total = w[t].total /\ e.index = w[t].index /\ e.k = w[t].k
        /\ e.counted = w[t].counted
    BY <1>p DEF Executor
  <2>2. Become(t, e) /\ UNCHANGED <<cps, mem, label, excused, job>>
    BY <1>2 DEF AckSignal, Goto
  <2>3. w[t].pc = "ack"
    BY <1>2 DEF AckSignal, At
  <2> HIDE DEF e
  <2>6. ListFits(e)
    BY <1>p, <2>1, <2>3 DEF Fits, ListFits, MayList
  <2>7. LabelFits(e, mem[t])
    BY <1>p, <2>1, <2>3 DEF Fits, LabelFits, Labels
  <2>8. Fits(e, mem[t])
    BY <1>p, <2>1, <2>6, <2>7 DEF Fits, UndoFits, DryFits
  <2>. QED
    BY <2>2, <2>8, MoveStep
<1>3. CASE StopOnSignal(t)
  <2> DEFINE e == w[t]
             s == IF e.seen = "pause" THEN "paused" ELSE "failed"
             c == [type |-> e.phase, batch |-> e.batch,
                   sites |-> e.sites, total |-> e.total, files |-> <<>>,
                   index |-> IF e.phase = "rollback" THEN e.counted
                             ELSE e.index,
                   counted |-> e.counted, applied |-> <<>>]
             r == [job EXCEPT !.status = WithStatus(t, s)]
             f == [e EXCEPT !.st = s,
                            !.pc = CASE e.phase = "enumeration" -> "enumEnd"
                                     [] e.phase = "labelling" -> "final"
                                     [] OTHER -> "rbEnd"]
  <2>1. Commit(t, c, r, f, mem[t]) /\ w[t].pc = "stop"
    BY <1>3 DEF StopOnSignal, At
  <2>2. f.pc \in {"enumEnd", "final", "rbEnd"}
    BY <1>p DEF Executor
  <2>3. /\ c.type = e.phase /\ c.batch = e.batch /\ c.total = e.total
        /\ c.files = <<>> /\ c.counted = e.counted /\ c.applied = <<>>
        /\ c.index = IF e.phase = "rollback" THEN e.counted ELSE e.index
    OBVIOUS
  <2>4. c \in Checkpoint
    BY <1>p DEF Executor, Checkpoint
  <2>5. /\ r.total = job.total /\ r.processed = job.processed
        /\ r.dry = job.dry
    BY <1>p
  <2> HIDE DEF c, r, f
  <2>6. Rests(f)
    BY <2>2 DEF Rests, MayList, Labels
  <2>7. CASE e.phase = "enumeration"
    <3>1. MayList(w[t]) /\ c.total = w[t].total + Len(c.files)
      BY <1>p, <2>1, <2>3, <2>7 DEF MayList, Executor
    <3>. QED
      BY <2>1, <2>3, <2>4, <2>5, <2>6, <2>7, <3>1, ListStep DEF Rests
  <2>8. CASE e.phase = "labelling"
    <3>1. Labels(w[t])
      BY <2>1, <2>8 DEF Labels
    <3>2. w[t].k = 0 /\ mem[t].applied = <<>>
      BY <1>p, <2>1, <3>1 DEF Fits, LabelFits
    <3>3. c.index = w[t].index + w[t].k
      BY <1>p, <2>3, <2>8, <3>2 DEF Executor
    <3>4. f.pc # "capture"
      BY <2>2
    <3>. QED
      BY <1>p, <2>1, <2>3, <2>4, <2>5, <2>6, <2>8, <3>1, <3>2, <3>3, <3>4,
         LabelStep DEF Rests
  <2>9. CASE e.phase = "rollback"
    <3>1. Fits(f, mem[t])
      BY <1>p, <2>6 DEF Rests, Fits, ListFits, LabelFits, UndoFits, DryFits
    <3>. QED
      BY <2>1, <2>3, <2>4, <2>5, <2>9, <3>1, UndoStep
  <2>10. e.phase \in {"enumeration", "labelling", "rollback"}
    BY <1>p DEF Executor, CheckpointTypes
  <2>. QED
    BY <2>7, <2>8, <2>9, <2>10
<1>. QED
  BY <1>1, <1>2, <1>3 DEF Signalled

\* The steps of enumeration.
LEMMA StoreEnumerate ==
  ASSUME LogInv, NEW t \in Task, Enumerate(t)
  PROVE  StoreOK'
<1>p. /\ w[t] \in Executor /\ Fits(w[t], mem[t]) /\ PhaseFits(w[t])
      /\ Dense("enumeration") /\ cps \subseteq Checkpoint
      /\ job \in [status : Statuses, total : Nat, processed : Nat,
                  dry : BOOLEAN]
  BY LogParts DEF ControlOK, DataOK
<1>1. CASE EnumInit(t)
  <2> DEFINE E == CpsOf("enumeration")
             e(sites, total, batch) ==
               [w[t] EXCEPT !.pc = "enum", !.phase = "enumeration",
                            !.todo = Site \ sites, !.sites = sites,
                            !.total = total, !.batch = batch]
  <2>1. \A sites, total, batch :
          /\ e(sites, total, batch).pc = "enum"
          /\ e(sites, total, batch).total = total
          /\ e(sites, total, batch).batch = batch
    BY <1>p DEF Executor
  <2>2. UNCHANGED <<cps, mem, label, excused, job>>
    BY <1>1 DEF EnumInit
  <2>3. PICK sites, total, batch :
          /\ Become(t, e(sites, total, batch))
          /\ \/ batch = 0 /\ total = 0 /\ E = {}
             \/ \E c \in Latest(E) : total = c.total /\ batch = c.batch + 1
    BY <1>1 DEF EnumInit, EnumFrom
  <2> DEFINE f == e(sites, total, batch)
  <2>4. f.pc = "enum" /\ f.total = total /\ f.batch = batch
    BY <2>1
  <2>5. Become(t, f)
    BY <2>3
  <2> HIDE DEF e, f
  <2>6. ListFits(f)
    <3>1. CASE batch = 0 /\ total = 0 /\ E = {}
      BY <1>p, <2>4, <3>1 DEF ListFits, Dense
    <3>2. ASSUME NEW c \in Latest(E), total = c.total, batch = c.batch + 1
          PROVE  ListFits(f)
      <4>1. c \in E /\ c.batch \in 0 .. Batches("enumeration") - 1
        BY <1>p DEF Latest, Dense
      <4>2. batch <= Batches("enumeration") /\ batch # 0
            /\ batch - 1 = c.batch
        BY <1>p, <3>2, <4>1 DEF Dense
      <4>3. \A d \in E : d.batch = batch - 1 => d = c
        BY <1>p, <4>1, <4>2 DEF Dense
      <4>. QED
        BY <2>4, <3>2, <4>2, <4>3 DEF ListFits
    <3>. QED
      BY <2>3, <3>1, <3>2
  <2>7. Fits(f, mem[t])
    BY <1>p, <2>4, <2>6 DEF Fits, LabelFits, Labels, UndoFits, DryFits
  <2>. QED
    BY <2>2, <2>5, <2>7, MoveStep
<1>2. CASE NextSite(t) \/ SkipSite(t)
  <2>1. PICK e : /\ Become(t, e) /\ e.pc \in {"enum", "list"}
                 /\ e.total = w[t].total /\ e.batch = w[t].batch
    <3>1. [w[t] EXCEPT !.pc = "list"].pc = "list"
      BY <1>p DEF Executor
    <3>2. [w[t] EXCEPT !.pc = "list"].total = w[t].total
          /\ [w[t] EXCEPT !.pc = "list"].batch = w[t].batch
      BY <1>p DEF Executor
    <3>3. \A s : LET e == [w[t] EXCEPT !.pc = "enum", !.todo = @ \ {s}]
                 IN e.pc = "enum" /\ e.total = w[t].total
                    /\ e.batch = w[t].batch
      BY <1>p DEF Executor
    <3>4. CASE NextSite(t)
      BY <3>1, <3>2, <3>4 DEF NextSite, Goto
    <3>5. CASE SkipSite(t)
      BY <3>3, <3>5 DEF SkipSite
    <3>. QED
      BY <1>2, <3>4, <3>5
  <2>2. w[t].pc \in {"enum", "list"} /\ UNCHANGED <<cps, mem, label, excused, job>>
    BY <1>2 DEF NextSite, SkipSite, At
  <2>3. ListFits(e)
    BY <1>p, <2>1, <2>2 DEF Fits, ListFits, MayList
  <2>4. Fits(e, mem[t])
    BY <1>p, <2>1, <2>3 DEF Fits, LabelFits, Labels, UndoFits, DryFits
  <2>. QED
    BY <2>1, <2>2, <2>4, MoveStep
<1>4. CASE ListSite(t)
  <2>0. PICK s \in w[t].todo : \E fs \in Listing[s] :
          LET e == [w[t] EXCEPT !.sites = @ \cup {s}, !.total = @ + Len(fs)]
              c == [type |-> "enumeration", batch |-> e.batch,
                    sites |-> e.sites, total |-> e.total, files |-> fs,
                    index |-> 0, counted |-> 0, applied |-> <<>>]
          IN Commit(t, c, [job EXCEPT !.total = e.total],
                    [e EXCEPT !.pc = "enum", !.todo = @ \ {s},
                              !.batch = @ + 1],
                    mem[t])
    BY <1>4 DEF ListSite
  <2>1. PICK fs \in Listing[s] :
          LET e == [w[t] EXCEPT !.sites = @ \cup {s}, !.total = @ + Len(fs)]
              c == [type |-> "enumeration", batch |-> e.batch,
                    sites |-> e.sites, total |-> e.total, files |-> fs,
                    index |-> 0, counted |-> 0, applied |-> <<>>]
          IN Commit(t, c, [job EXCEPT !.total = e.total],
                    [e EXCEPT !.pc = "enum", !.todo = @ \ {s},
                              !.batch = @ + 1],
                    mem[t])
    BY <2>0
  <2> DEFINE e == [w[t] EXCEPT !.sites = @ \cup {s}, !.total = @ + Len(fs)]
             c == [type |-> "enumeration", batch |-> e.batch,
                   sites |-> e.sites, total |-> e.total, files |-> fs,
                   index |-> 0, counted |-> 0, applied |-> <<>>]
             r == [job EXCEPT !.total = e.total]
             f == [e EXCEPT !.pc = "enum", !.todo = @ \ {s},
                            !.batch = @ + 1]
  <2>2. Commit(t, c, r, f, mem[t])
    BY <2>1
  <2>3. s \in Site /\ fs \in Seq(File) /\ Len(fs) \in Nat
    BY <1>p, ConstantTypes DEF Executor
  <2>4. /\ e.sites = w[t].sites \cup {s} /\ e.total = w[t].total + Len(fs)
        /\ e.batch = w[t].batch /\ w[t].batch \in Nat
        /\ e.sites \in SUBSET Site /\ e.total \in Nat
    BY <1>p, <2>3 DEF Executor
  <2>5. /\ f.pc = "enum" /\ f.batch = e.batch + 1 /\ f.total = e.total
    BY <1>p DEF Executor
  <2>6. /\ c.type = "enumeration" /\ c.batch = e.batch
        /\ c.total = e.total /\ c.files = fs
    OBVIOUS
  <2>7. /\ r.total = e.total /\ r.processed = job.processed
        /\ r.dry = job.dry
    BY <1>p
  <2>8. c \in Checkpoint
    <3> HIDE DEF e
    <3>. QED
      BY <2>3, <2>4 DEF Checkpoint, CheckpointTypes
  <2> HIDE DEF e, c, r, f
  <2>9. MayList(w[t])
    BY <1>4 DEF ListSite, At, MayList
  <2>10. ~Labels(f) /\ f.pc \notin {"rb", "undo", "apply"}
    BY <2>5 DEF Labels
  <2>. QED
    BY <2>2, <2>4, <2>5, <2>6, <2>7, <2>8, <2>9, <2>10, ListStep
<1>5. CASE AfterEnum(t)
  <2> DEFINE e == [w[t] EXCEPT
                     !.st = job.status,
                     !.pc = CASE job.status = "enumerating" -> "toRunning"
                              [] job.status = "running" -> "labelInit"
                              [] OTHER -> "final"]
  <2>1. e.pc \in {"toRunning", "labelInit", "final"}
    BY <1>p DEF Executor
  <2>2. UNCHANGED <<cps, mem, label, excused, job>> /\ Become(t, e)
    BY <1>5 DEF AfterEnum
  <2> HIDE DEF e
  <2>3. Rests(e)
    BY <2>1 DEF Rests, MayList, Labels
  <2>. QED
    BY <2>2, <2>3, RestStep
<1>6. CASE ToRunning(t)
  <2> DEFINE e == [w[t] EXCEPT !.pc = "labelInit", !.st = "running"]
  <2>1. e.pc = "labelInit"
    BY <1>p DEF Executor
  <2>2. UNCHANGED <<cps, mem, label, excused>> /\ Become(t, e)
        /\ job' = [job EXCEPT !.status = "running"]
    BY <1>6 DEF ToRunning, RunAndGoto
  <2> HIDE DEF e
  <2>3. Rests(e)
    BY <2>1 DEF Rests, MayList, Labels
  <2>. QED
    BY <1>p, <2>2, <2>3, RestStep
<1>. QED
  BY <1>1, <1>2, <1>4, <1>5, <1>6 DEF Enumerate

\* The file that is being handled is one of the manifest, and handling it
\* stays within the batch.
LEMMA FileInHand ==
  ASSUME LogInv, NEW t \in Task, w[t].pc \in {"capture", "apply"}
  PROVE  /\ w[t].index \in Nat /\ w[t].k \in Nat
         /\ w[t].index + w[t].k + 1 \in 1 .. Len(mem[t].files)
         /\ w[t].k + 1 <= BatchLen(w[t].index, mem[t].files)
         /\ BatchLen(w[t].index, mem[t].files)
              <= Len(mem[t].files) - w[t].index
         /\ BatchLen(w[t].index, mem[t].files) \in Nat
         /\ CurrentFile(t) \in File
<1> DEFINE n == Len(mem[t].files)
           b == BatchLen(w[t].index, mem[t].files)
<1>1. /\ w[t].index \in Nat /\ w[t].k \in Nat /\ n \in Nat
      /\ mem[t].files \in Seq(File)
      /\ w[t].index < n /\ w[t].k < b
  BY LogParts DEF Fits, LabelFits, Labels, Executor, Memory
<1>2. b \in Nat /\ b <= n - w[t].index
  BY <1>1, ConstantTypes DEF BatchLen
<1> DEFINE i0 == w[t].index
           k0 == w[t].k
<1>a. i0 \in Nat /\ k0 \in Nat /\ n \in Nat /\ i0 < n /\ k0 < b
  BY <1>1
<1>b. b \in Nat /\ b <= n - i0
  BY <1>2
<1> HIDE DEF n, b
<1>3. w[t].index + w[t].k + 1 \in 1 .. n /\ w[t].k + 1 <= b
  <2> HIDE DEF i0, k0
  <2>1. i0 + k0 + 1 \in 1 .. n /\ k0 + 1 <= b
    BY ONLY <1>a, <1>b
  <2>. QED
    BY <2>1 DEF i0, k0
<1>4. CurrentFile(t) \in File
  BY <1>1, <1>3 DEF CurrentFile, n
<1>. QED
  BY <1>1, <1>2, <1>3, <1>4 DEF n, b

\* A file is handled and counted, or not; it may be noted.
LEMMA StoreFileDone ==
  ASSUME LogInv, NEW t \in Task, NEW n \in {0, 1}, FileDone(t, n),
         w[t].pc \in {"capture", "apply"},
         Note(t, job.dry) \/ Forget(t),
         UNCHANGED <<job, cps>>, label' \in [File -> LabelId],
         job.dry => label' = label, excused' \subseteq File
  PROVE  StoreOK'
<1>p. /\ w[t] \in Executor /\ Fits(w[t], mem[t]) /\ PhaseFits(w[t])
      /\ mem[t] \in Memory /\ cps \subseteq Checkpoint
      /\ job.dry \in BOOLEAN
  BY LogParts DEF ControlOK, DataOK
<1>f. /\ w[t].index \in Nat /\ w[t].k \in Nat
      /\ w[t].index + w[t].k + 1 \in 1 .. Len(mem[t].files)
      /\ w[t].k + 1 <= BatchLen(w[t].index, mem[t].files)
      /\ BatchLen(w[t].index, mem[t].files) \in Nat
      /\ CurrentFile(t) \in File
  BY FileInHand
<1>c. w[t].counted \in Nat /\ w[t].counted <= w[t].index + w[t].k
  BY <1>p DEF Executor, Fits, LabelFits, Labels
<1> DEFINE e == [w[t] EXCEPT
                   !.k = @ + 1, !.counted = @ + n,
                   !.pc = IF w[t].k + 1 = BatchLen(w[t].index, mem[t].files)
                            THEN "labelCommit" ELSE "capture"]
<1>1. /\ Become(t, e) /\ e.k = w[t].k + 1 /\ e.counted = w[t].counted + n
      /\ e.pc = IF w[t].k + 1 = BatchLen(w[t].index, mem[t].files)
                  THEN "labelCommit" ELSE "capture"
      /\ e.index = w[t].index /\ e.batch = w[t].batch
  BY <1>p DEF FileDone, Executor
<1>2. PICK m \in Memory :
        /\ Remember(t, m) /\ m.files = mem[t].files
        /\ \A i \in 1 .. Len(m.applied) : m.applied[i].dry = job.dry
  <2>1. CASE Forget(t)
    <3> DEFINE m == [mem[t] EXCEPT !.previous = NoLabel]
    <3>1. m \in Memory /\ m.files = mem[t].files /\ m.applied = mem[t].applied
      BY <1>p DEF Memory, LabelId
    <3>2. Remember(t, m)
      BY <2>1 DEF Forget
    <3> HIDE DEF m
    <3>. QED
      BY <1>p, <3>1, <3>2 DEF Fits, DryFits
  <2>2. CASE Note(t, job.dry)
    <3> DEFINE x == [file |-> CurrentFile(t), previous |-> mem[t].previous,
                     dry |-> job.dry]
               m == [mem[t] EXCEPT !.applied = Append(@, x),
                                   !.previous = NoLabel]
    <3>1. x \in Entry /\ x.dry = job.dry
      BY <1>p, <1>f DEF Entry, Memory
    <3>2. Remember(t, m)
      BY <2>2 DEF Note
    <3> HIDE DEF x
    <3>3. mem[t].applied \in Seq(Entry)
      BY <1>p DEF Memory
    <3>a. Append(mem[t].applied, x) \in Seq(Entry)
      BY <3>1, <3>3
    <3>4. /\ m \in Memory /\ m.files = mem[t].files
          /\ m.applied = Append(mem[t].applied, x)
      <4> DEFINE q == Append(mem[t].applied, x)
      <4>1. q \in Seq(Entry)
        BY <3>a
      <4>2. m = [mem[t] EXCEPT !.applied = q, !.previous = NoLabel]
        OBVIOUS
      <4> HIDE DEF q, m
      <4>3. m \in Memory /\ m.files = mem[t].files /\ m.applied = q
        BY <1>p, <4>1, <4>2 DEF Memory, LabelId
      <4>. QED
        BY <4>3 DEF q
    <3> HIDE DEF m
    <3>5. \A i \in 1 .. Len(mem[t].applied) : mem[t].applied[i].dry = job.dry
      BY <1>p DEF Fits, DryFits
    <3>6. \A i \in 1 .. Len(m.applied) : m.applied[i].dry = job.dry
      BY <3>1, <3>3, <3>4, <3>5
    <3>. QED
      BY <3>2, <3>4, <3>6
  <2>. QED
    BY <2>1, <2>2
<1> HIDE DEF e
<1>3. /\ e.counted <= e.index + e.k
      /\ e.index + e.k <= Len(m.files)
      /\ e.pc = "capture" => e.index < Len(m.files)
                             /\ e.k < BatchLen(e.index, m.files)
      /\ e.k # 0 /\ w[t].counted <= e.counted
      /\ e.pc \in {"labelCommit", "capture"}
  <2> DEFINE b == BatchLen(w[t].index, mem[t].files)
             l == Len(mem[t].files)
  <2>1. /\ b \in Nat /\ w[t].k + 1 <= b /\ l \in Nat
        /\ w[t].index + w[t].k + 1 <= l
        /\ e.pc = IF w[t].k + 1 = b THEN "labelCommit" ELSE "capture"
        /\ BatchLen(e.index, m.files) = b /\ Len(m.files) = l
    BY <1>p, <1>f, <1>1, <1>2 DEF Memory
  <2> HIDE DEF b, l
  <2>2. n \in Nat /\ n <= 1
    OBVIOUS
  <2>3. /\ e.counted <= e.index + e.k /\ e.index + e.k <= l
        /\ e.k # 0 /\ w[t].counted <= e.counted
    <3> DEFINE i == w[t].index
               k == w[t].k
               d == w[t].counted
    <3>1. /\ i \in Nat /\ k \in Nat /\ d \in Nat /\ d <= i + k
          /\ e.k = k + 1 /\ e.counted = d + n /\ e.index = i
          /\ i + k + 1 <= l
      BY <1>f, <1>c, <1>1, <2>1
    <3> HIDE DEF i, k, d
    <3>2. d + n <= i + (k + 1) /\ i + (k + 1) <= l /\ k + 1 # 0 /\ d <= d + n
      BY <2>1, <2>2, <3>1
    <3>. QED
      BY <3>1, <3>2 DEF d
  <2>4. e.pc = "capture" => e.index < l /\ e.k < b
    BY <1>f, <1>1, <2>1
  <2>5. e.pc \in {"labelCommit", "capture"}
    BY <2>1
  <2>. QED
    BY <2>1, <2>3, <2>4, <2>5
<1>4. LabelFits(e, m)
  <2>1. \A c \in CpsOf("labelling") : c.batch = e.batch - 1 =>
          c.index = e.index /\ c.counted <= e.counted
    <3>1. \A c \in CpsOf("labelling") : c.batch = e.batch - 1 =>
            c.index = e.index /\ c.counted <= w[t].counted
      BY <1>p, <1>1 DEF Fits, LabelFits, Labels
    <3>2. \A c \in CpsOf("labelling") : c.counted \in Nat
      BY <1>p DEF CpsOf, Checkpoint
    <3>. QED
      BY <1>c, <1>1, <1>3, <3>1, <3>2
  <2>. QED
    BY <1>p, <1>1, <1>2, <1>3, <2>1 DEF Fits, LabelFits, Labels
<1>5. Fits(e, m)
  BY <1>2, <1>3, <1>4 DEF Fits, ListFits, MayList, UndoFits, DryFits
<1>. QED
  BY <1>p, <1>1, <1>2, <1>5, LocalStep DEF Become, Remember, CpsOf

\* The ways to handle a file.
LEMMA StoreLabelFile ==
  ASSUME LogInv, NEW t \in Task, LabelFile(t)
  PROVE  StoreOK'
<1>p. /\ w[t] \in Executor /\ Fits(w[t], mem[t]) /\ mem[t] \in Memory
      /\ label \in [File -> LabelId] /\ excused \subseteq File
      /\ cps \subseteq Checkpoint
      /\ job \in [status : Statuses, total : Nat, processed : Nat,
                  dry : BOOLEAN]
  BY LogParts DEF ControlOK, DataOK
<1>c. w[t].pc \in {"capture", "apply"} /\ CurrentFile(t) \in File
  <2>1. w[t].pc \in {"capture", "apply"}
    BY DEF LabelFile, NoteDryRun, Capture, ApplyLabel, ApplyRefused,
           ApplyUnknown, At
  <2>. QED
    BY <2>1, FileInHand
<1>l. [label EXCEPT ![CurrentFile(t)] = Target] \in [File -> LabelId]
  BY <1>p, StoreAssumption DEF LabelId
<1>d. w[t].pc = "apply" => job.dry = FALSE
  BY <1>p DEF Fits, DryFits
<1>1. CASE NoteDryRun(t)
  <2>1. job.dry = TRUE
    BY <1>1, <1>p DEF NoteDryRun
  <2>. QED
    BY <1>1, <1>p, <1>c, <2>1, StoreFileDone DEF NoteDryRun
<1>2. CASE ApplyLabel(t)
  <2>1. w[t].pc = "apply"
    BY <1>2 DEF ApplyLabel, At
  <2>. QED
    BY <1>2, <1>p, <1>c, <1>l, <1>d, <2>1, StoreFileDone DEF ApplyLabel
<1>3. CASE ApplyRefused(t)
  BY <1>3, <1>p, <1>c, StoreFileDone DEF ApplyRefused
<1>4. CASE ApplyUnknown(t)
  <2>1. w[t].pc = "apply"
    BY <1>4 DEF ApplyUnknown, At
  <2>2. label' \in [File -> LabelId] /\ excused' \subseteq File
    BY <1>4, <1>p, <1>c, <1>l DEF ApplyUnknown
  <2>3. PICK n \in {0, 1} : FileDone(t, n)
    BY <1>4 DEF ApplyUnknown
  <2>. QED
    BY <1>4, <1>c, <1>d, <2>1, <2>2, <2>3, StoreFileDone DEF ApplyUnknown
<1>5. CASE Capture(t)
  <2> DEFINE e == [w[t] EXCEPT !.pc = "apply"]
             f == CurrentFile(t)
  <2>1. /\ e.pc = "apply" /\ e.batch = w[t].batch /\ e.index = w[t].index
        /\ e.k = w[t].k /\ e.counted = w[t].counted
    BY <1>p DEF Executor
  <2>2. /\ Become(t, e) /\ w[t].pc = "capture" /\ ~job.dry
        /\ UNCHANGED <<cps, label, job>>
    BY <1>5 DEF Capture, Goto, At
  <2>3. PICK m \in Memory : /\ Remember(t, m) /\ m.files = mem[t].files
                            /\ m.applied = mem[t].applied
    <3>1. CASE UNCHANGED mem
      <4>1. Remember(t, mem[t])
        BY <3>1, LogParts DEF Remember, DataOK
      <4>. QED
        BY <1>p, <4>1
    <3>2. CASE Remember(t, [mem[t] EXCEPT !.previous = label[f]])
      <4> DEFINE m == [mem[t] EXCEPT !.previous = label[f]]
      <4>1. label[f] \in LabelId
        BY <1>p, <1>c
      <4> HIDE DEF f
      <4>2. m \in Memory /\ m.files = mem[t].files
            /\ m.applied = mem[t].applied
        BY <1>p, <4>1 DEF Memory
      <4> HIDE DEF m
      <4>. QED
        BY <3>2, <4>2 DEF m
    <3>. QED
      BY <1>5, <3>1, <3>2 DEF Capture
  <2> HIDE DEF e, f
  <2>4. excused' \subseteq File
    BY <1>5, <1>p, <1>c DEF Capture
  <2>5. LabelFits(e, m)
    BY <1>p, <2>1, <2>2, <2>3 DEF Fits, LabelFits, Labels
  <2>6. Fits(e, m)
    BY <1>p, <2>1, <2>2, <2>3, <2>5
       DEF Fits, ListFits, MayList, UndoFits, DryFits
  <2>. QED
    BY <1>p, <2>2, <2>3, <2>4, <2>6, LocalStep DEF Become, Remember, CpsOf
<1>. QED
  BY <1>1, <1>2, <1>3, <1>4, <1>5 DEF LabelFile

\* What an executor holds at the start of a batch and of its phase.
LEMMA EmptyMemory ==
  ASSUME NEW m \in Memory
  PROVE  LET n == [m EXCEPT !.applied = <<>>]
         IN n \in Memory /\ n.files = m.files /\ n.applied = <<>>
<1>1. <<>> \in Seq(Entry)
  OBVIOUS
<1> DEFINE q == <<>>
<1>2. q \in Seq(Entry)
  BY <1>1
<1> HIDE DEF q
<1>3. LET n == [m EXCEPT !.applied = q]
      IN n \in Memory /\ n.files = m.files /\ n.applied = q
  BY <1>2 DEF Memory
<1>. QED
  BY <1>3 DEF q

LEMMA NewMemoryOf ==
  ASSUME NEW fs \in Seq(File)
  PROVE  LET m == [NewMemory EXCEPT !.files = fs]
         IN m \in Memory /\ m.files = fs /\ m.applied = <<>>
<1>1. [NewMemory EXCEPT !.files = fs]
        = [files |-> fs, applied |-> <<>>, previous |-> NoLabel]
  BY DEF NewMemory
<1>2. <<>> \in Seq(Entry)
  OBVIOUS
<1>. QED
  BY <1>1, <1>2 DEF Memory, LabelId

\* An executor begins to label where the log ends.
LEMMA StoreLabelFrom ==
  ASSUME LogInv, NEW t \in Task, NEW index, NEW counted, NEW batch,
         LabelFrom(t, index, counted, batch),
         \/ CpsOf("labelling") = {} /\ index = 0 /\ counted = 0 /\ batch = 0
         \/ \E c \in Latest(CpsOf("labelling")) :
              index = c.index /\ counted = c.counted /\ batch = c.batch + 1
  PROVE  StoreOK'
<1> DEFINE L == CpsOf("labelling")
           e == [w[t] EXCEPT !.pc = "label", !.phase = "labelling",
                             !.index = index, !.counted = counted,
                             !.batch = batch, !.k = 0]
           m == [NewMemory EXCEPT !.files = Manifest]
<1>p. /\ w[t] \in Executor /\ Dense("labelling") /\ RowFits
      /\ Manifest \in Seq(File) /\ Len(Manifest) \in Nat
      /\ cps \subseteq Checkpoint /\ label \in [File -> LabelId]
      /\ excused \subseteq File
  BY LogParts DEF DataOK
<1>1. /\ e.pc = "label" /\ e.index = index /\ e.counted = counted
      /\ e.batch = batch /\ e.k = 0
  BY <1>p DEF Executor
<1>2. m \in Memory /\ m.files = Manifest /\ m.applied = <<>>
  BY <1>p, NewMemoryOf
<1>3. /\ w' = [w EXCEPT ![t] = e] /\ mem' = [mem EXCEPT ![t] = m]
      /\ UNCHANGED <<job, cps, label, excused>>
  BY DEF LabelFrom, Become, Remember
<1> HIDE DEF e, m
<1>4. Prefix(Manifest, Manifest)
  BY <1>p DEF Prefix
<1>5. /\ batch <= Batches("labelling") /\ counted <= index
      /\ index <= Len(Manifest) /\ index \in Nat /\ counted \in Nat
      /\ batch = 0 => index = 0 /\ counted = 0
      /\ \A d \in L : d.batch = batch - 1 =>
           d.index = index /\ d.counted = counted
  <2>1. CASE L = {} /\ index = 0 /\ counted = 0 /\ batch = 0
    BY <1>p, <2>1 DEF Dense
  <2>2. ASSUME NEW c \in Latest(L), index = c.index, counted = c.counted,
               batch = c.batch + 1
        PROVE  /\ batch <= Batches("labelling") /\ counted <= index
               /\ index <= Len(Manifest) /\ index \in Nat /\ counted \in Nat
               /\ batch = 0 => index = 0 /\ counted = 0
               /\ \A d \in L : d.batch = batch - 1 =>
                    d.index = index /\ d.counted = counted
    <3>1. c \in L /\ c.batch \in 0 .. Batches("labelling") - 1
      BY <1>p DEF Latest, Dense
    <3>2. batch <= Batches("labelling") /\ batch # 0 /\ batch - 1 = c.batch
      BY <1>p, <2>2, <3>1 DEF Dense
    <3>3. \A d \in L : d.batch = batch - 1 => d = c
      BY <1>p, <3>1, <3>2 DEF Dense
    <3>4. /\ c.counted <= c.index /\ c.index <= Len(Manifest)
          /\ c.index \in Nat /\ c.counted \in Nat
      BY <1>p, <3>1 DEF RowFits, CpsOf, Checkpoint
    <3>. QED
      BY <2>2, <3>2, <3>3, <3>4
  <2>. QED
    BY <2>1, <2>2
<1>6. LabelFits(e, m)
  BY <1>p, <1>1, <1>2, <1>4, <1>5 DEF LabelFits
<1>7. Fits(e, m)
  BY <1>1, <1>2, <1>6 DEF Fits, ListFits, MayList, UndoFits, DryFits
<1>. QED
  BY <1>p, <1>2, <1>3, <1>7, LocalStep DEF CpsOf

\* The steps of labelling.
LEMMA StoreLabel ==
  ASSUME LogInv, NEW t \in Task, LabelPhase(t)
  PROVE  StoreOK'
<1>p. /\ w[t] \in Executor /\ Fits(w[t], mem[t]) /\ mem[t] \in Memory
      /\ job \in [status : Statuses, total : Nat, processed : Nat,
                  dry : BOOLEAN]
  BY LogParts DEF ControlOK
<1>1. CASE LabelConfigFails(t)
  <2> DEFINE e == [w[t] EXCEPT !.pc = "final", !.st = "failed"]
  <2>1. e.pc = "final"
    BY <1>p DEF Executor
  <2>2. /\ Become(t, e) /\ UNCHANGED <<cps, mem, label, excused>>
        /\ job' = [job EXCEPT !.status = "failed"]
    BY <1>1 DEF LabelConfigFails
  <2> HIDE DEF e
  <2>3. Rests(e)
    BY <2>1 DEF Rests, MayList, Labels
  <2>. QED
    BY <1>p, <2>2, <2>3, RestStep
<1>2. CASE LabelInit(t)
  <2>1. CASE Goto(t, "final") /\ UNCHANGED <<job, cps, mem, label, excused>>
    <3> DEFINE e == [w[t] EXCEPT !.pc = "final"]
    <3>1. e.pc = "final" /\ Become(t, e)
      BY <1>p, <2>1 DEF Executor, Goto
    <3> HIDE DEF e
    <3>2. Rests(e)
      BY <3>1 DEF Rests, MayList, Labels
    <3>. QED
      BY <2>1, <3>1, <3>2, RestStep
  <2>2. CASE CpsOf("labelling") = {} /\ LabelFrom(t, 0, 0, 0)
    BY <2>2, StoreLabelFrom
  <2>3. CASE \E c \in Latest(CpsOf("labelling")) :
               LabelFrom(t, c.index, c.counted, c.batch + 1)
    BY <2>3, StoreLabelFrom
  <2>. QED
    BY <1>2, <2>1, <2>2, <2>3 DEF LabelInit, StartLabelling
<1>3. CASE NextBatch(t)
  <2> DEFINE e == [w[t] EXCEPT !.pc = "capture"]
  <2>1. /\ e.pc = "capture" /\ e.batch = w[t].batch /\ e.index = w[t].index
        /\ e.k = w[t].k /\ e.counted = w[t].counted
    BY <1>p DEF Executor
  <2>2. /\ Become(t, e) /\ UNCHANGED <<cps, mem, label, excused, job>>
        /\ w[t].pc = "label" /\ w[t].index < Len(mem[t].files)
    BY <1>3 DEF NextBatch, Goto, At
  <2> HIDE DEF e
  <2>3. /\ w[t].index \in Nat /\ Len(mem[t].files) \in Nat
        /\ w[t].k = 0
    BY <1>p, <2>2 DEF Executor, Memory, Fits, LabelFits, Labels
  <2>4. e.k < BatchLen(e.index, mem[t].files)
    BY <2>1, <2>2, <2>3, ConstantTypes DEF BatchLen
  <2>5. LabelFits(e, mem[t])
    BY <1>p, <2>1, <2>2, <2>4 DEF Fits, LabelFits, Labels
  <2>6. Fits(e, mem[t])
    BY <1>p, <2>1, <2>5 DEF Fits, ListFits, MayList, UndoFits, DryFits
  <2>. QED
    BY <2>2, <2>6, MoveStep
<1>4. CASE LabelFile(t)
  BY <1>4, StoreLabelFile
<1>5. CASE CommitBatch(t)
  <2> DEFINE e == w[t]
             end == e.index + e.k
             c == [type |-> "labelling", batch |-> e.batch, sites |-> {},
                   total |-> 0, files |-> <<>>, index |-> end,
                   counted |-> e.counted, applied |-> mem[t].applied]
             r == [job EXCEPT !.processed = e.counted]
             f == [e EXCEPT !.pc = "label", !.index = end, !.k = 0,
                            !.batch = @ + 1]
             m == [mem[t] EXCEPT !.applied = <<>>]
  <2>1. Commit(t, c, r, f, m) /\ w[t].pc = "labelCommit"
    BY <1>5 DEF CommitBatch, CommitBatchLeaving, At
  <2>2. end \in Nat /\ e.batch + 1 \in Nat
    BY <1>p DEF Executor
  <2>3. /\ f.pc = "label" /\ f.index = end /\ f.k = 0
        /\ f.batch = e.batch + 1 /\ f.counted = e.counted
    BY <1>p DEF Executor
  <2>4. c \in Checkpoint
    BY <1>p, <2>2 DEF Executor, Memory, Checkpoint, CheckpointTypes
  <2>5. /\ c.type = "labelling" /\ c.batch = e.batch /\ c.index = end
        /\ c.counted = e.counted /\ c.applied = mem[t].applied
    OBVIOUS
  <2>6. r.total = job.total /\ r.dry = job.dry /\ r.processed = e.counted
    BY <1>p
  <2>7. m \in Memory /\ m.files = mem[t].files /\ m.applied = <<>>
    BY <1>p, EmptyMemory
  <2> HIDE DEF c, r, f, m
  <2>8. Labels(w[t]) /\ ~MayList(f)
        /\ f.pc \notin {"rb", "undo", "capture", "apply"}
    BY <2>1, <2>3 DEF Labels, MayList
  <2>. QED
    BY <2>1, <2>3, <2>4, <2>5, <2>6, <2>7, <2>8, LabelStep
<1>6. CASE AfterLabel(t)
  <2> DEFINE e == [w[t] EXCEPT !.pc = "complete", !.st = "running"]
  <2>1. e.pc = "complete"
    BY <1>p DEF Executor
  <2>2. UNCHANGED <<job, cps, label, excused>>
    BY <1>6 DEF AfterLabel
  <2>3. \/ Become(t, e) /\ UNCHANGED mem
        \/ Leave(t, "done")
    BY <1>6 DEF AfterLabel
  <2> HIDE DEF e
  <2>4. Rests(e)
    BY <2>1 DEF Rests, MayList, Labels
  <2>5. excused' \subseteq File
    BY <2>2, LogParts DEF DataOK
  <2>. QED
    BY <2>2, <2>3, <2>4, <2>5, RestStep, LeaveStep
<1>7. CASE Complete(t)
  <2>1. excused' \subseteq File
    BY <1>7, LogParts DEF Complete, DataOK
  <2>. QED
    BY <1>7, <1>p, <2>1, LeaveStep DEF Complete
<1>. QED
  BY <1>1, <1>2, <1>3, <1>4, <1>5, <1>6, <1>7 DEF LabelPhase

\* The entry that is being undone is one of the list, and handling it stays
\* within the batch.
LEMMA EntryInHand ==
  ASSUME LogInv, NEW t \in Task, w[t].pc = "undo"
  PROVE  /\ CurrentEntry(t) \in Entry
         /\ CurrentEntry(t).dry = job.dry
         /\ w[t].index + w[t].k + 1 <= Len(mem[t].applied)
         /\ w[t].k + 1 <= BatchLen(w[t].index, mem[t].applied)
         /\ w[t].k \in Nat /\ w[t].index \in Nat
         /\ BatchLen(w[t].index, mem[t].applied) \in Nat
<1> DEFINE n == Len(mem[t].applied)
           b == BatchLen(w[t].index, mem[t].applied)
<1>1. /\ w[t].index \in Nat /\ w[t].k \in Nat /\ n \in Nat
      /\ mem[t].applied \in Seq(Entry)
      /\ w[t].index < n /\ w[t].k < b
  BY LogParts DEF Fits, UndoFits, Executor, Memory
<1>2. b \in Nat /\ b <= n - w[t].index
  BY <1>1, ConstantTypes DEF BatchLen
<1>0. \A i \in 1 .. n : mem[t].applied[i].dry = job.dry
  BY LogParts DEF Fits, DryFits
<1> HIDE DEF n, b
<1>3. w[t].index + w[t].k + 1 \in 1 .. n /\ w[t].k + 1 <= b
  BY <1>1, <1>2
<1>4. CurrentEntry(t) \in Entry
  BY <1>1, <1>3 DEF CurrentEntry, n
<1>5. CurrentEntry(t).dry = job.dry
  BY <1>0, <1>3 DEF CurrentEntry
<1>6. w[t].index + w[t].k + 1 <= n
  BY <1>3
<1>. QED
  BY <1>1, <1>2, <1>3, <1>4, <1>5, <1>6 DEF n, b

\* An entry is undone and counted, or not.
LEMMA StoreEntryDone ==
  ASSUME LogInv, NEW t \in Task, NEW n \in {0, 1}, EntryDone(t, n),
         w[t].pc = "undo", UNCHANGED <<job, cps, mem>>,
         label' \in [File -> LabelId], job.dry => label' = label,
         excused' \subseteq File
  PROVE  StoreOK'
<1>p. /\ w[t] \in Executor /\ Fits(w[t], mem[t]) /\ mem[t] \in Memory
      /\ cps \subseteq Checkpoint /\ mem \in [Task -> Memory]
  BY LogParts DEF DataOK
<1>f. /\ w[t].index + w[t].k + 1 <= Len(mem[t].applied)
      /\ w[t].k + 1 <= BatchLen(w[t].index, mem[t].applied)
      /\ w[t].k \in Nat /\ w[t].index \in Nat
      /\ BatchLen(w[t].index, mem[t].applied) \in Nat
      /\ Len(mem[t].applied) \in Nat
  BY <1>p, EntryInHand DEF Memory
<1> DEFINE e == [w[t] EXCEPT
                   !.k = @ + 1, !.counted = @ + n,
                   !.pc = IF w[t].k + 1 = BatchLen(w[t].index, mem[t].applied)
                            THEN "rbCommit" ELSE "undo"]
<1>1. /\ w' = [w EXCEPT ![t] = e] /\ e.k = w[t].k + 1
      /\ e.index = w[t].index
      /\ e.pc = IF w[t].k + 1 = BatchLen(w[t].index, mem[t].applied)
                  THEN "rbCommit" ELSE "undo"
  BY <1>p DEF EntryDone, Become, Executor
<1> HIDE DEF e
<1>2. e.pc = "undo" => /\ e.index < Len(mem[t].applied)
                       /\ e.k < BatchLen(e.index, mem[t].applied)
  <2> DEFINE b == BatchLen(w[t].index, mem[t].applied)
             l == Len(mem[t].applied)
             i == w[t].index
             k == w[t].k
  <2>1. /\ i \in Nat /\ k \in Nat /\ b \in Nat /\ l \in Nat
        /\ i + k + 1 <= l /\ k + 1 <= b
        /\ e.k = k + 1 /\ e.index = i
        /\ e.pc = "undo" => k + 1 # b
        /\ BatchLen(e.index, mem[t].applied) = b
    BY <1>f, <1>1
  <2> HIDE DEF b, l, i, k
  <2>2. e.pc = "undo" => e.index < l /\ e.k < b
    BY <2>1
  <2>. QED
    BY <2>1, <2>2 DEF l
<1>3. e.pc \in {"rbCommit", "undo"}
  BY <1>1
<1>4. Fits(e, mem[t])
  BY <1>p, <1>2, <1>3
     DEF Fits, ListFits, MayList, LabelFits, Labels, UndoFits, DryFits
<1>5. mem' = [mem EXCEPT ![t] = mem[t]]
  BY <1>p
<1>. QED
  BY <1>p, <1>1, <1>4, <1>5, LocalStep DEF CpsOf

\* The steps of rollback.
LEMMA StoreRollBack ==
  ASSUME LogInv, NEW t \in Task, RollBack(t)
  PROVE  StoreOK'
<1>p. /\ w[t] \in Executor /\ Fits(w[t], mem[t]) /\ mem[t] \in Memory
      /\ label \in [File -> LabelId] /\ excused \subseteq File
      /\ cps \subseteq Checkpoint
      /\ job \in [status : Statuses, total : Nat, processed : Nat,
                  dry : BOOLEAN]
  BY LogParts DEF ControlOK, DataOK
<1>1. CASE RollbackInit(t)
  <2> DEFINE a == AllApplied
             m == [NewMemory EXCEPT !.applied = a]
             f(index, batch) ==
               [w[t] EXCEPT !.pc = "rb", !.phase = "rollback",
                            !.index = index, !.counted = index,
                            !.batch = batch, !.k = 0]
  <2>1. \A index, batch : f(index, batch).pc = "rb" /\ f(index, batch).k = 0
    BY <1>p DEF Executor
  <2>2. [w[t] EXCEPT !.pc = "rbEnd"].pc = "rbEnd"
    BY <1>p DEF Executor
  <2>3. Goto(t, "rbEnd") \/ \E index, batch : Become(t, f(index, batch))
    BY <1>1 DEF RollbackInit, RollbackInitAhead, RollbackFrom
  <2> HIDE DEF f
  <2>4. PICK e : /\ Become(t, e)
                 /\ e.pc = "rbEnd" \/ (e.pc = "rb" /\ e.k = 0)
    <3>1. CASE Goto(t, "rbEnd")
      BY <2>2, <3>1 DEF Goto
    <3>2. CASE \E index, batch : Become(t, f(index, batch))
      BY <2>1, <3>2
    <3>. QED
      BY <2>3, <3>1, <3>2
  <2>5. a \in Seq(Entry) /\ \A i \in 1 .. Len(a) : a[i].dry = job.dry
    BY LogParts DEF LogInv, StoreOK, LogFits
  <2>6. Remember(t, m) /\ UNCHANGED <<job, cps, label>>
    BY <1>1 DEF RollbackInit, RollbackInitAhead
  <2>7. m \in Memory /\ m.applied = a
    <3>1. m = [files |-> <<>>, applied |-> a, previous |-> NoLabel]
      BY DEF NewMemory
    <3>2. <<>> \in Seq(File)
      OBVIOUS
    <3> HIDE DEF a, m
    <3>. QED
      BY <2>5, <3>1, <3>2 DEF Memory, LabelId
  <2>8. excused' \subseteq File
    <3>1. UNION { Uncommitted(u) : u \in Task } \subseteq File
      BY UncommittedFiles, LogParts
    <3>. QED
      BY <1>1, <1>p, <3>1 DEF RollbackInit, RollbackInitAhead
  <2> HIDE DEF a, m
  <2>9. Fits(e, m)
    BY <2>4, <2>5, <2>7
       DEF Fits, ListFits, MayList, LabelFits, Labels, UndoFits, DryFits
  <2>. QED
    BY <1>p, <2>4, <2>6, <2>7, <2>8, <2>9, LocalStep
       DEF Become, Remember, CpsOf
<1>2. CASE NextUndoBatch(t)
  <2> DEFINE e == [w[t] EXCEPT !.pc = "undo"]
  <2>1. e.pc = "undo" /\ e.index = w[t].index /\ e.k = w[t].k
    BY <1>p DEF Executor
  <2>2. /\ Become(t, e) /\ UNCHANGED <<cps, mem, label, excused, job>>
        /\ w[t].pc = "rb" /\ w[t].index < Len(mem[t].applied)
    BY <1>2 DEF NextUndoBatch, Goto, At
  <2> HIDE DEF e
  <2>3. /\ w[t].index \in Nat /\ Len(mem[t].applied) \in Nat
        /\ w[t].k = 0
    BY <1>p, <2>2 DEF Executor, Memory, Fits, UndoFits
  <2>4. e.k < BatchLen(e.index, mem[t].applied)
    BY <2>1, <2>2, <2>3, ConstantTypes DEF BatchLen
  <2>5. Fits(e, mem[t])
    BY <1>p, <2>1, <2>2, <2>4
       DEF Fits, ListFits, MayList, LabelFits, Labels, UndoFits, DryFits
  <2>. QED
    BY <2>2, <2>5, MoveStep
<1>3. CASE Undo(t)
  <2>1. /\ w[t].pc = "undo" /\ UNCHANGED <<job, cps, mem, excused>>
        /\ EntryDone(t, 1)
        /\ label' = IF CurrentEntry(t).dry THEN label
                    ELSE [label EXCEPT ![CurrentEntry(t).file] =
                                         CurrentEntry(t).previous]
    BY <1>3 DEF Undo, UndoUnless, At
  <2>2. CurrentEntry(t) \in Entry /\ CurrentEntry(t).dry = job.dry
    BY <2>1, EntryInHand
  <2>3. CurrentEntry(t).previous \in LabelId
    BY <2>2 DEF Entry
  <2>4. label' \in [File -> LabelId] /\ (job.dry => label' = label)
    BY <1>p, <2>1, <2>2, <2>3
  <2>5. excused' \subseteq File
    BY <1>p, <2>1
  <2>. QED
    BY <2>1, <2>4, <2>5, StoreEntryDone
<1>4. CASE UndoFails(t)
  <2>1. /\ w[t].pc = "undo" /\ UNCHANGED <<job, cps, mem, label>>
        /\ excused' = excused \cup {CurrentEntry(t).file}
    BY <1>4 DEF UndoFails, At
  <2>2. PICK n \in {0, 1} : EntryDone(t, n)
    BY <1>4 DEF UndoFails
  <2>3. CurrentEntry(t).file \in File
    BY <2>1, EntryInHand DEF Entry
  <2>4. excused' \subseteq File /\ label' \in [File -> LabelId]
    BY <1>p, <2>1, <2>3
  <2>. QED
    BY <2>1, <2>2, <2>4, StoreEntryDone
<1>5. CASE CommitUndo(t)
  <2> DEFINE e == w[t]
             c == [type |-> "rollback", batch |-> e.batch, sites |-> {},
                   total |-> 0, files |-> <<>>, index |-> e.counted,
                   counted |-> e.counted, applied |-> <<>>]
             f == [e EXCEPT !.pc = "rb", !.index = @ + e.k, !.k = 0,
                            !.batch = @ + 1]
  <2>1. Commit(t, c, job, f, mem[t])
    BY <1>5 DEF CommitUndo
  <2>2. f.pc = "rb" /\ f.k = 0
    BY <1>p DEF Executor
  <2>3. c \in Checkpoint /\ c.type = "rollback"
    BY <1>p DEF Executor, Checkpoint, CheckpointTypes
  <2> HIDE DEF c, f
  <2>4. Fits(f, mem[t])
    BY <1>p, <2>2
       DEF Fits, ListFits, MayList, LabelFits, Labels, UndoFits, DryFits
  <2>. QED
    BY <2>1, <2>3, <2>4, UndoStep
<1>6. CASE AfterRollback(t)
  <2> DEFINE e == [w[t] EXCEPT !.pc = "rbComplete", !.st = "rolling_back"]
  <2>1. e.pc = "rbComplete"
    BY <1>p DEF Executor
  <2>2. UNCHANGED <<job, cps, label, excused>>
    BY <1>6 DEF AfterRollback, AfterRollbackIf
  <2>3. \/ Become(t, e) /\ UNCHANGED mem
        \/ Leave(t, "done")
    BY <1>6 DEF AfterRollback, AfterRollbackIf
  <2> HIDE DEF e
  <2>4. Rests(e)
    BY <2>1 DEF Rests, MayList, Labels
  <2>5. excused' \subseteq File
    BY <1>p, <2>2
  <2>. QED
    BY <2>2, <2>3, <2>4, <2>5, RestStep, LeaveStep
<1>7. CASE RollbackComplete(t)
  <2>1. /\ Leave(t, "done") /\ UNCHANGED <<cps, label, excused>>
        /\ job' = [job EXCEPT !.status = "rolled_back"]
    BY <1>7 DEF RollbackComplete
  <2>2. excused' \subseteq File
    BY <1>p, <2>1
  <2>. QED
    BY <1>p, <2>1, <2>2, LeaveStep
<1>. QED
  BY <1>1, <1>2, <1>3, <1>4, <1>5, <1>6, <1>7 DEF RollBack

-----------------------------------------------------------------------------
(* The log, the row and the lists agree.                                   *)

\* Initially the log is empty, and so are the lists.
LEMMA StoreInit == Init => LogInv
<1>. SUFFICES ASSUME Init PROVE LogInv
  OBVIOUS
<1>1. EnumInv
  BY LogInit
<1>2. \A type : CpsOf(type) = {}
  BY DEF Init, CpsOf
<1>3. \A type : Batches(type) = 0
  BY <1>2 DEF Batches
<1>4. Dense("enumeration") /\ Dense("labelling")
  BY <1>2, <1>3 DEF Dense
<1>5. Manifest = <<>> /\ AllApplied = <<>>
  BY <1>3 DEF Manifest, AllApplied, FlattenSeq
<1>6. job.total = 0 /\ job.processed = 0
  BY DEF Init, Created
<1>7. RowFits
  BY <1>2, <1>5, <1>6 DEF RowFits
<1>8. NewMemory \in Memory
  <2>1. <<>> \in Seq(File) /\ <<>> \in Seq(Entry)
    OBVIOUS
  <2>. QED
    BY <2>1 DEF NewMemory, Memory, LabelId
<1>9. DataOK
  BY <1>8, StoreAssumption DEF Init, DataOK
<1>10. Fits(NewExecutor, NewMemory)
  BY DEF NewExecutor, NewMemory, Fits, ListFits, LabelFits, UndoFits, DryFits,
         MayList, Labels
<1>11. \A t \in Task : Fits(w[t], mem[t])
  BY <1>10 DEF Init
<1>12. DryRunTouchesNothing
  BY DEF Init, DryRunTouchesNothing
<1>13. LogFits
  BY <1>4, <1>5, <1>7, <1>11 DEF LogFits
<1>. QED
  BY <1>1, <1>9, <1>12, <1>13 DEF LogInv, StoreOK

\* Every step keeps LogInv.
LEMMA StoreStep ==
  ASSUME LogInv, [Next]_vars
  PROVE  LogInv'
<1>1. EnumInv'
  BY LogStep DEF LogInv
<1>2. StoreOK'
  <2>1. CASE ApiNext \/ UNCHANGED vars
    BY <2>1, StoreApi
  <2>2. ASSUME NEW t \in Task, Work(t) \/ Disrupt(t) PROVE StoreOK'
    BY <2>2, StoreTask, StoreSignalled, StoreEnumerate, StoreLabel,
       StoreRollBack DEF Work
  <2>. QED
    BY <2>1, <2>2 DEF Next, ExecutorNext
<1>. QED
  BY <1>1, <1>2 DEF LogInv

\* The inductive invariant is one.
THEOREM SpecLogInv == Spec => []LogInv
BY StoreInit, StoreStep, PTL DEF Spec

-----------------------------------------------------------------------------
(* How a rollback ends.                                                    *)

\* An executor e with memory m whose _rollback has returned early was stopped
\* by a signal or had nothing to undo; and one that is about to declare the
\* job rolled back has gone through its entries, or the job is noted as one
\* whose stopped rollback was taken for one that had ended.
EndFits(e, m) ==
  /\ e.pc = "rbEnd" => e.phase = "rollback" \/ m.applied = <<>>
  /\ e.pc = "rbComplete" => halfway \/ Len(m.applied) <= e.index

EndInv == halfway \in BOOLEAN /\ \A t \in Task : EndFits(w[t], mem[t])

HalfwayStays == halfway => halfway'

\* The executor t goes on as e with memory m.
LEMMA EndMoves ==
  ASSUME LogInv, EndInv, NEW t \in Task, NEW e, NEW m, Become(t, e),
         mem'[t] = m, \A u \in Task \ {t} : mem'[u] = mem[u],
         halfway' \in BOOLEAN, HalfwayStays,
         e.pc = "rbEnd" => e.phase = "rollback" \/ m.applied = <<>>,
         e.pc = "rbComplete" => halfway' \/ Len(m.applied) <= e.index
  PROVE  EndInv'
<1>1. w \in [Task -> Executor]
  BY LogParts DEF ControlOK
<1>2. w'[t] = e /\ \A u \in Task \ {t} : w'[u] = w[u]
  BY <1>1 DEF Become
<1>3. EndFits(w[t], mem[t])'
  BY <1>2 DEF EndFits
<1>4. ASSUME NEW u \in Task \ {t} PROVE EndFits(w[u], mem[u])'
  BY <1>2, <1>4 DEF EndInv, EndFits, HalfwayStays
<1>. QED
  BY <1>3, <1>4 DEF EndInv

\* It does not come to the end of a rollback.
LEMMA EndElsewhere ==
  ASSUME LogInv, EndInv, NEW t \in Task, NEW e, Become(t, e),
         e.pc \notin { "rbEnd", "rbComplete" },
         UNCHANGED mem \/ \E m : Remember(t, m), UNCHANGED halfway
  PROVE  EndInv' /\ HalfwayStays
<1>1. mem \in [Task -> Memory]
  BY LogParts DEF DataOK
<1>2. \A u \in Task \ {t} : mem'[u] = mem[u]
  BY <1>1 DEF Remember
<1>3. halfway' \in BOOLEAN /\ HalfwayStays
  BY DEF EndInv, HalfwayStays
<1>. QED
  BY <1>2, <1>3, EndMoves

LEMMA EndLeave ==
  ASSUME LogInv, EndInv, NEW t \in Task, NEW state, Leave(t, state),
         UNCHANGED halfway
  PROVE  EndInv' /\ HalfwayStays
<1>1. NewExecutor.pc = "idle"
  BY DEF NewExecutor
<1>. QED
  BY <1>1, EndElsewhere DEF Leave

LEMMA EndCommit ==
  ASSUME LogInv, EndInv, NEW t \in Task, NEW c, NEW r, NEW e, NEW m,
         Commit(t, c, r, e, m), e.pc # "rbComplete",
         e.pc = "rbEnd" => e.phase = "rollback"
  PROVE  EndInv' /\ HalfwayStays
<1>1. UNCHANGED halfway
  BY DEF Commit
<1>2. CASE Insertable(c.type, c.batch)
  <2>1. Become(t, e) /\ Remember(t, m)
    BY <1>2 DEF Commit
  <2>2. mem'[t] = m /\ \A u \in Task \ {t} : mem'[u] = mem[u]
    BY <2>1, LogParts DEF Remember, DataOK
  <2>3. halfway' \in BOOLEAN /\ HalfwayStays
    BY <1>1 DEF EndInv, HalfwayStays
  <2>. QED
    BY <2>1, <2>2, <2>3, EndMoves
<1>3. CASE ~Insertable(c.type, c.batch)
  BY <1>1, <1>3, EndLeave DEF Commit, Abandon
<1>. QED
  BY <1>2, <1>3

\* Only a signal and the two last steps of a rollback lead to its end.
LEMMA EndTask ==
  ASSUME LogInv, EndInv, NEW t \in Task, BeginTask(t) \/ Disrupt(t)
  PROVE  EndInv' /\ HalfwayStays
<1>1. CASE BeginTask(t)
  <2> DEFINE e == [NewExecutor EXCEPT
                     !.st = job.status,
                     !.pc = IF task[t].kind = "rollback" THEN "rbInit"
                            ELSE CASE job.status = "enumerating" -> "enumInit"
                                   [] job.status = "running" -> "labelInit"
                                   [] OTHER -> "final"]
  <2>1. e.pc \in { "rbInit", "enumInit", "labelInit", "final" }
    BY DEF NewExecutor
  <2>2. Become(t, e) /\ UNCHANGED <<mem, halfway>>
    BY <1>1 DEF BeginTask
  <2> HIDE DEF e
  <2>. QED
    BY <2>1, <2>2, EndElsewhere
<1>2. CASE Disrupt(t)
  BY <1>2, EndLeave DEF Disrupt, Crash, Die, Timeout, Raise, Abandon
<1>. QED
  BY <1>1, <1>2

LEMMA EndSignalled ==
  ASSUME LogInv, EndInv, NEW t \in Task, Signalled(t)
  PROVE  EndInv' /\ HalfwayStays
<1>w. w[t] \in Executor
  BY LogParts
<1>1. CASE SeeSignal(t) \/ AckSignal(t)
  <2>1. /\ [w[t] EXCEPT !.pc = "ack", !.seen = signal].pc = "ack"
        /\ [w[t] EXCEPT !.pc = "stop"].pc = "stop"
    BY <1>w DEF Executor
  <2>2. PICK e : Become(t, e) /\ e.pc \in { "ack", "stop" }
    BY <1>1, <2>1 DEF SeeSignal, AckSignal, Goto
  <2>. QED
    BY <1>1, <2>2, EndElsewhere DEF SeeSignal, AckSignal
<1>2. CASE StopOnSignal(t)
  <2> DEFINE e == w[t]
             s == IF e.seen = "pause" THEN "paused" ELSE "failed"
             c == [type |-> e.phase, batch |-> e.batch,
                   sites |-> e.sites, total |-> e.total, files |-> <<>>,
                   index |-> IF e.phase = "rollback" THEN e.counted
                             ELSE e.index,
                   counted |-> e.counted, applied |-> <<>>]
             r == [job EXCEPT !.status = WithStatus(t, s)]
             f == [e EXCEPT !.st = s,
                            !.pc = CASE e.phase = "enumeration" -> "enumEnd"
                                     [] e.phase = "labelling" -> "final"
                                     [] OTHER -> "rbEnd"]
  <2>1. Commit(t, c, r, f, mem[t])
    BY <1>2 DEF StopOnSignal
  <2>2. f.phase = e.phase /\ e.phase \in CheckpointTypes
    BY <1>w DEF Executor
  <2>3. f.pc \in { "enumEnd", "final", "rbEnd" }
    BY <1>w DEF Executor
  <2>4. f.pc = "rbEnd" => e.phase \notin { "enumeration", "labelling" }
    BY <1>w DEF Executor
  <2>5. f.pc = "rbEnd" => f.phase = "rollback"
    BY <2>2, <2>4 DEF CheckpointTypes
  <2> HIDE DEF c, r, f
  <2>. QED
    BY <2>1, <2>3, <2>5, EndCommit
<1>. QED
  BY <1>1, <1>2 DEF Signalled

LEMMA EndEnumerate ==
  ASSUME LogInv, EndInv, NEW t \in Task, Enumerate(t)
  PROVE  EndInv' /\ HalfwayStays
<1>w. w[t] \in Executor
  BY LogParts
<1>1. CASE EnumInit(t)
  <2>1. PICK sites, total, batch : EnumFrom(t, sites, total, batch)
    BY <1>1 DEF EnumInit
  <2> DEFINE e == [w[t] EXCEPT !.pc = "enum", !.phase = "enumeration",
                               !.todo = Site \ sites, !.sites = sites,
                               !.total = total, !.batch = batch]
  <2>2. Become(t, e) /\ e.pc = "enum"
    BY <1>w, <2>1 DEF EnumFrom, Executor
  <2> HIDE DEF e
  <2>. QED
    BY <1>1, <2>2, EndElsewhere DEF EnumInit
<1>2. CASE NextSite(t) \/ SkipSite(t)
  <2>1. PICK e : Become(t, e) /\ e.pc \in { "list", "enum" }
    <3>1. [w[t] EXCEPT !.pc = "list"].pc = "list"
      BY <1>w DEF Executor
    <3>2. \A s : [w[t] EXCEPT !.pc = "enum", !.todo = @ \ {s}].pc = "enum"
      BY <1>w DEF Executor
    <3>. QED
      BY <1>2, <3>1, <3>2 DEF NextSite, SkipSite, Goto
  <2>. QED
    BY <1>2, <2>1, EndElsewhere DEF NextSite, SkipSite
<1>3. CASE ListSite(t)
  <2>1. PICK s, fs :
          LET e == [w[t] EXCEPT !.sites = @ \cup {s}, !.total = @ + Len(fs)]
              c == [type |-> "enumeration", batch |-> e.batch,
                    sites |-> e.sites, total |-> e.total, files |-> fs,
                    index |-> 0, counted |-> 0, applied |-> <<>>]
          IN Commit(t, c, [job EXCEPT !.total = e.total],
                    [e EXCEPT !.pc = "enum", !.todo = @ \ {s},
                              !.batch = @ + 1],
                    mem[t])
    BY <1>3 DEF ListSite
  <2> DEFINE e == [w[t] EXCEPT !.sites = @ \cup {s}, !.total = @ + Len(fs)]
             c == [type |-> "enumeration", batch |-> e.batch,
                   sites |-> e.sites, total |-> e.total, files |-> fs,
                   index |-> 0, counted |-> 0, applied |-> <<>>]
             r == [job EXCEPT !.total = e.total]
             f == [e EXCEPT !.pc = "enum", !.todo = @ \ {s}, !.batch = @ + 1]
  <2>2. f.pc = "enum"
    BY <1>w DEF Executor
  <2>3. Commit(t, c, r, f, mem[t])
    BY <2>1
  <2> HIDE DEF c, r, f
  <2>. QED
    BY <2>2, <2>3, EndCommit
<1>4. CASE AfterEnum(t)
  <2> DEFINE e == [w[t] EXCEPT !.st = job.status,
                               !.pc = CASE job.status = "enumerating" -> "toRunning"
                                        [] job.status = "running" -> "labelInit"
                                        [] OTHER -> "final"]
  <2>1. e.pc \in { "toRunning", "labelInit", "final" }
    BY <1>w DEF Executor
  <2>2. Become(t, e)
    BY <1>4 DEF AfterEnum
  <2> HIDE DEF e
  <2>. QED
    BY <1>4, <2>1, <2>2, EndElsewhere DEF AfterEnum
<1>5. CASE ToRunning(t)
  <2>1. [w[t] EXCEPT !.pc = "labelInit", !.st = "running"].pc = "labelInit"
    BY <1>w DEF Executor
  <2>. QED
    BY <1>5, <2>1, EndElsewhere DEF ToRunning, RunAndGoto
<1>. QED
  BY <1>1, <1>2, <1>3, <1>4, <1>5 DEF Enumerate

LEMMA EndLabel ==
  ASSUME LogInv, EndInv, NEW t \in Task, LabelPhase(t)
  PROVE  EndInv' /\ HalfwayStays
<1>w. w[t] \in Executor
  BY LogParts
<1>1. CASE LabelConfigFails(t) \/ NextBatch(t)
  <2>1. PICK e : Become(t, e) /\ e.pc \in { "final", "capture" }
    <3>1. /\ [w[t] EXCEPT !.pc = "final", !.st = "failed"].pc = "final"
          /\ [w[t] EXCEPT !.pc = "capture"].pc = "capture"
      BY <1>w DEF Executor
    <3>. QED
      BY <1>1, <3>1 DEF LabelConfigFails, NextBatch, Goto
  <2>. QED
    BY <1>1, <2>1, EndElsewhere DEF LabelConfigFails, NextBatch
<1>2. CASE LabelInit(t)
  <2>1. PICK e : Become(t, e) /\ e.pc \in { "final", "label" }
    <3>1. CASE Goto(t, "final")
      <4>1. [w[t] EXCEPT !.pc = "final"].pc = "final"
        BY <1>w DEF Executor
      <4>. QED
        BY <3>1, <4>1 DEF Goto
    <3>2. CASE \E i, n, b : LabelFrom(t, i, n, b)
      <4>1. PICK i, n, b : LabelFrom(t, i, n, b)
        BY <3>2
      <4> DEFINE e == [w[t] EXCEPT !.pc = "label", !.phase = "labelling",
                                   !.index = i, !.counted = n, !.batch = b,
                                   !.k = 0]
      <4>2. Become(t, e) /\ e.pc = "label"
        BY <1>w, <4>1 DEF LabelFrom, Executor
      <4> HIDE DEF e
      <4>. QED
        BY <4>2
    <3>. QED
      BY <1>2, <3>1, <3>2 DEF LabelInit, StartLabelling
  <2>2. (UNCHANGED mem \/ \E m : Remember(t, m)) /\ UNCHANGED halfway
    BY <1>2 DEF LabelInit, StartLabelling, LabelFrom
  <2>. QED
    BY <2>1, <2>2, EndElsewhere
<1>3. CASE LabelFile(t)
  <2>1. PICK e : Become(t, e) /\ e.pc \in { "apply", "labelCommit", "capture" }
    <3>1. [w[t] EXCEPT !.pc = "apply"].pc = "apply"
      BY <1>w DEF Executor
    <3>2. ASSUME NEW n, FileDone(t, n)
          PROVE  \E e : Become(t, e) /\ e.pc \in { "labelCommit", "capture" }
      <4> DEFINE e == [w[t] EXCEPT
                         !.k = @ + 1, !.counted = @ + n,
                         !.pc = IF w[t].k + 1 = BatchLen(w[t].index, mem[t].files)
                                  THEN "labelCommit" ELSE "capture"]
      <4>1. Become(t, e)
        BY <3>2 DEF FileDone
      <4>2. e.pc \in { "labelCommit", "capture" }
        BY <1>w DEF Executor
      <4> HIDE DEF e
      <4>. QED
        BY <4>1, <4>2
    <3>3. CASE Capture(t)
      BY <3>1, <3>3 DEF Capture, Goto
    <3>4. CASE ~Capture(t)
      <4>1. PICK n : FileDone(t, n)
        BY <1>3, <3>4 DEF LabelFile, NoteDryRun, ApplyLabel, ApplyRefused, ApplyUnknown
      <4>. QED
        BY <3>2, <4>1
    <3>. QED
      BY <3>3, <3>4
  <2>2. (UNCHANGED mem \/ \E m : Remember(t, m)) /\ UNCHANGED halfway
    BY <1>3 DEF LabelFile, NoteDryRun, Capture, ApplyLabel, ApplyRefused,
                ApplyUnknown, Note, Forget
  <2>. QED
    BY <2>1, <2>2, EndElsewhere
<1>4. CASE CommitBatch(t)
  <2> DEFINE e == w[t]
             end == e.index + e.k
             c == [type |-> "labelling", batch |-> e.batch, sites |-> {},
                   total |-> 0, files |-> <<>>, index |-> end,
                   counted |-> e.counted, applied |-> mem[t].applied]
             r == [job EXCEPT !.processed = e.counted]
             f == [e EXCEPT !.pc = "label", !.index = end, !.k = 0, !.batch = @ + 1]
             m == [mem[t] EXCEPT !.applied = <<>>]
  <2>1. Commit(t, c, r, f, m)
    BY <1>4 DEF CommitBatch, CommitBatchLeaving
  <2>2. f.pc = "label"
    BY <1>w DEF Executor
  <2> HIDE DEF c, r, f, m
  <2>. QED
    BY <2>1, <2>2, EndCommit
<1>5. CASE AfterLabel(t) \/ Complete(t)
  <2>1. [w[t] EXCEPT !.pc = "complete", !.st = "running"].pc = "complete"
    BY <1>w DEF Executor
  <2>2. CASE Become(t, [w[t] EXCEPT !.pc = "complete", !.st = "running"])
             /\ UNCHANGED mem
    BY <1>5, <2>1, <2>2, EndElsewhere DEF AfterLabel, Complete
  <2>3. CASE Leave(t, "done")
    BY <1>5, <2>3, EndLeave DEF AfterLabel, Complete
  <2>. QED
    BY <1>5, <2>2, <2>3 DEF AfterLabel, Complete
<1>. QED
  BY <1>1, <1>2, <1>3, <1>4, <1>5 DEF LabelPhase

LEMMA EndRollBack ==
  ASSUME LogInv, EndInv, NEW t \in Task, RollBack(t)
  PROVE  EndInv' /\ HalfwayStays
<1>w. w[t] \in Executor /\ mem \in [Task -> Memory] /\ mem[t] \in Memory
  BY LogParts DEF DataOK
<1>1. CASE RollbackInit(t)
  <2> DEFINE m == [NewMemory EXCEPT !.applied = AllApplied]
  <2>1. Remember(t, m) /\ UNCHANGED halfway
    BY <1>1 DEF RollbackInit, RollbackInitAhead
  <2>2. m.applied = AllApplied
    BY DEF NewMemory
  <2>3. CASE AllApplied = <<>> /\ Goto(t, "rbEnd")
    <3> DEFINE e == [w[t] EXCEPT !.pc = "rbEnd"]
    <3>1. Become(t, e) /\ e.pc = "rbEnd"
      BY <1>w, <2>3 DEF Goto, Executor
    <3>2. m.applied = <<>>
      BY <2>2, <2>3
    <3> HIDE DEF e, m
    <3>3. mem'[t] = m /\ \A u \in Task \ {t} : mem'[u] = mem[u]
      BY <1>w, <2>1 DEF Remember
    <3>4. halfway' \in BOOLEAN /\ HalfwayStays
      BY <2>1 DEF EndInv, HalfwayStays
    <3>. QED
      BY <3>1, <3>2, <3>3, <3>4, EndMoves
  <2>4. CASE \E index, batch : RollbackFrom(t, index, batch)
    <3>1. PICK index, batch : RollbackFrom(t, index, batch)
      BY <2>4
    <3> DEFINE e == [w[t] EXCEPT !.pc = "rb", !.phase = "rollback",
                                 !.index = index, !.counted = index,
                                 !.batch = batch, !.k = 0]
    <3>2. Become(t, e) /\ e.pc = "rb"
      BY <1>w, <3>1 DEF RollbackFrom, Executor
    <3> HIDE DEF e
    <3>. QED
      BY <2>1, <3>2, EndElsewhere
  <2>. QED
    BY <1>1, <2>3, <2>4 DEF RollbackInit, RollbackInitAhead
<1>2. CASE NextUndoBatch(t)
  <2>1. [w[t] EXCEPT !.pc = "undo"].pc = "undo"
    BY <1>w DEF Executor
  <2>. QED
    BY <1>2, <2>1, EndElsewhere DEF NextUndoBatch, Goto
<1>3. CASE Undo(t) \/ UndoFails(t)
  <2>1. PICK n : EntryDone(t, n)
    BY <1>3 DEF Undo, UndoUnless, UndoFails
  <2> DEFINE e == [w[t] EXCEPT
                     !.k = @ + 1, !.counted = @ + n,
                     !.pc = IF w[t].k + 1 = BatchLen(w[t].index, mem[t].applied)
                              THEN "rbCommit" ELSE "undo"]
  <2>2. Become(t, e)
    BY <2>1 DEF EntryDone
  <2>3. e.pc \in { "rbCommit", "undo" }
    BY <1>w DEF Executor
  <2> HIDE DEF e
  <2>. QED
    BY <1>3, <2>2, <2>3, EndElsewhere DEF Undo, UndoUnless, UndoFails
<1>4. CASE CommitUndo(t)
  <2> DEFINE e == w[t]
             c == [type |-> "rollback", batch |-> e.batch, sites |-> {},
                   total |-> 0, files |-> <<>>, index |-> e.counted,
                   counted |-> e.counted, applied |-> <<>>]
             f == [e EXCEPT !.pc = "rb", !.index = @ + e.k, !.k = 0,
                            !.batch = @ + 1]
  <2>1. Commit(t, c, job, f, mem[t])
    BY <1>4 DEF CommitUndo
  <2>2. f.pc = "rb"
    BY <1>w DEF Executor
  <2> HIDE DEF c, f
  <2>. QED
    BY <2>1, <2>2, EndCommit
<1>5. CASE AfterRollback(t)
  <2>1. halfway' = (halfway \/ (Stopped(t) /\ job.status = "rolling_back"))
    BY <1>5 DEF AfterRollback, AfterRollbackIf
  <2>2. halfway' \in BOOLEAN /\ HalfwayStays
    BY <2>1 DEF EndInv, HalfwayStays
  <2>3. CASE job.status = "rolling_back"
    <3> DEFINE e == [w[t] EXCEPT !.pc = "rbComplete", !.st = "rolling_back"]
    <3>1. Become(t, e) /\ UNCHANGED mem
      BY <1>5, <2>3 DEF AfterRollback, AfterRollbackIf
    <3>2. e.pc = "rbComplete" /\ e.index = w[t].index
      BY <1>w DEF Executor
    <3>3. halfway' \/ Len(mem[t].applied) <= w[t].index
      <4>1. CASE At(t, "rbEnd") /\ w[t].phase = "rollback"
        BY <2>1, <2>3, <4>1 DEF Stopped
      <4>2. CASE At(t, "rbEnd") /\ w[t].phase # "rollback"
        <5>1. mem[t].applied = <<>>
          BY <4>2 DEF At, EndInv, EndFits
        <5>. QED
          BY <1>w, <5>1 DEF Executor
      <4>3. CASE ~At(t, "rbEnd")
        <5>1. w[t].index >= Len(mem[t].applied)
          BY <1>5, <4>3 DEF AfterRollback, AfterRollbackIf
        <5>2. w[t].index \in Nat /\ Len(mem[t].applied) \in Nat
          BY <1>w DEF Executor, Memory
        <5>. QED
          BY <5>1, <5>2
      <4>. QED
        BY <4>1, <4>2, <4>3
    <3> HIDE DEF e
    <3>. QED
      BY <2>2, <3>1, <3>2, <3>3, EndMoves
  <2>4. CASE job.status # "rolling_back"
    <3>1. Leave(t, "done")
      BY <1>5, <2>4 DEF AfterRollback, AfterRollbackIf
    <3>2. UNCHANGED halfway
      BY <2>1, <2>4 DEF EndInv
    <3>. QED
      BY <3>1, <3>2, EndLeave
  <2>. QED
    BY <2>3, <2>4
<1>6. CASE RollbackComplete(t)
  BY <1>6, EndLeave DEF RollbackComplete
<1>. QED
  BY <1>1, <1>2, <1>3, <1>4, <1>5, <1>6 DEF RollBack

LEMMA EndStep ==
  ASSUME LogInv, EndInv, [Next]_vars
  PROVE  EndInv' /\ HalfwayStays
<1>1. CASE ApiNext \/ UNCHANGED vars
  <2>1. UNCHANGED <<w, mem, halfway>>
    BY <1>1 DEF ApiNext, UserRequest, Start, Pause, Resume, Cancel, Rollback,
                Accept, ApiSettle, Dispatch, SendSignal, LoseDispatch,
                SignalExpires, vars
  <2>. QED
    BY <2>1 DEF EndInv, EndFits, HalfwayStays
<1>2. ASSUME NEW t \in Task, Work(t) \/ Disrupt(t) PROVE EndInv' /\ HalfwayStays
  BY <1>2, EndTask, EndSignalled, EndEnumerate, EndLabel, EndRollBack DEF Work
<1>. QED
  BY <1>1, <1>2 DEF Next, ExecutorNext

LEMMA EndStart == Init => EndInv
<1>1. NewExecutor.pc = "idle"
  BY DEF NewExecutor
<1>2. Init => halfway = FALSE /\ \A t \in Task : w[t] = NewExecutor
  BY DEF Init
<1>. QED
  BY <1>1, <1>2 DEF EndInv, EndFits

-----------------------------------------------------------------------------
(* What the log says.                                                      *)

\* JobStore's type invariant: the checkpoints, the lists in memory, the
\* labels and the excused files have their types, in the row's and the
\* queue's company; no executor reads past the end of a list.
THEOREM SpecTypeOK == Spec => []TypeOK
<1>1. Init => LogInv /\ EndInv
  BY StoreInit, EndStart
<1>2. LogInv /\ EndInv /\ [Next]_vars => LogInv' /\ EndInv'
  BY StoreStep, EndStep
<1>3. LogInv /\ EndInv => TypeOK
  BY LogParts DEF TypeOK, DataOK, EndInv
<1>. QED
  BY <1>1, <1>2, <1>3, PTL DEF Spec

\* Whatever pauses, resumes, crashes and second executors do, the totals
\* that _enumerate and _label write to the row are those of the log.
THEOREM SpecCountersMatchLog == Spec => []CountersMatchLog
<1>1. LogInv => CountersMatchLog
  <2> SUFFICES ASSUME LogInv PROVE CountersMatchLog
    OBVIOUS
  <2>1. /\ RowFits /\ Dense("labelling") /\ job.processed \in Nat
        /\ Len(Manifest) \in Nat /\ cps \subseteq Checkpoint
    BY LogParts DEF ControlOK, DataOK
  <2>2. ASSUME NEW c \in Latest(CpsOf("labelling"))
        PROVE  Newest(c) /\ c \in CpsOf("labelling")
    <3>1. c \in CpsOf("labelling") /\ c.type = "labelling"
      BY DEF Latest, CpsOf
    <3>2. c.batch \in 0 .. Batches("labelling") - 1
      BY <2>1, <3>1 DEF Dense
    <3>3. PICK d \in CpsOf("labelling") : d.batch = Batches("labelling") - 1
      BY <2>1, <3>2 DEF Dense
    <3>4. d.batch <= c.batch
      BY <3>3 DEF Latest
    <3>. QED
      BY <2>1, <3>1, <3>2, <3>3, <3>4 DEF Newest, Dense
  <2>3. \A c \in Latest(CpsOf("labelling")) : job.processed = c.counted
    BY <2>1, <2>2 DEF RowFits
  <2>4. job.processed <= job.total
    <3>1. CASE Batches("labelling") = 0
      BY <2>1, <3>1 DEF RowFits
    <3>2. CASE Batches("labelling") # 0
      <4>1. PICK d \in CpsOf("labelling") :
                   d.batch = Batches("labelling") - 1
        BY <2>1, <3>2 DEF Dense
      <4>2. Newest(d) /\ d.counted \in Nat /\ d.index \in Nat
        BY <2>1, <4>1 DEF Newest, CpsOf, Checkpoint
      <4>. QED
        BY <2>1, <4>2 DEF RowFits
    <3>. QED
      BY <3>1, <3>2
  <2>. QED
    BY <2>1, <2>3, <2>4 DEF CountersMatchLog, RowFits
<1>. QED
  BY <1>1, SpecLogInv, PTL

\* In a dry run no executor applies a label, and a rollback of it undoes
\* nothing, whoever runs it and wherever it is cut off.
THEOREM SpecDryRunTouchesNothing == Spec => []DryRunTouchesNothing
<1>1. LogInv => DryRunTouchesNothing
  BY DEF LogInv, StoreOK
<1>. QED
  BY <1>1, SpecLogInv, PTL

\* A step that changes the totals commits a checkpoint behind the others.
LEMMA ProgressStep ==
  ASSUME LogInv, [Next]_vars
  PROVE  job'.total >= job.total /\ job'.processed >= job.processed
<1>p. job \in [status : Statuses, total : Nat, processed : Nat, dry : BOOLEAN]
  BY LogParts DEF ControlOK
<1>1. ASSUME job' = job \/ \E s : job' = [job EXCEPT !.status = s]
      PROVE  job'.total >= job.total /\ job'.processed >= job.processed
  BY <1>p, <1>1
<1>2. ASSUME NEW t \in Task, ListSite(t)
      PROVE  job'.total >= job.total /\ job'.processed >= job.processed
  <2>p. w[t] \in Executor
    BY LogParts
  <2>0. PICK s \in w[t].todo : \E fs \in Listing[s] :
          LET e == [w[t] EXCEPT !.sites = @ \cup {s}, !.total = @ + Len(fs)]
              c == [type |-> "enumeration", batch |-> e.batch,
                    sites |-> e.sites, total |-> e.total, files |-> fs,
                    index |-> 0, counted |-> 0, applied |-> <<>>]
          IN Commit(t, c, [job EXCEPT !.total = e.total],
                    [e EXCEPT !.pc = "enum", !.todo = @ \ {s},
                              !.batch = @ + 1],
                    mem[t])
    BY <1>2 DEF ListSite
  <2>1. PICK fs \in Listing[s] :
          LET e == [w[t] EXCEPT !.sites = @ \cup {s}, !.total = @ + Len(fs)]
              c == [type |-> "enumeration", batch |-> e.batch,
                    sites |-> e.sites, total |-> e.total, files |-> fs,
                    index |-> 0, counted |-> 0, applied |-> <<>>]
          IN Commit(t, c, [job EXCEPT !.total = e.total],
                    [e EXCEPT !.pc = "enum", !.todo = @ \ {s},
                              !.batch = @ + 1],
                    mem[t])
    BY <2>0
  <2> DEFINE e == [w[t] EXCEPT !.sites = @ \cup {s}, !.total = @ + Len(fs)]
             r == [job EXCEPT !.total = e.total]
  <2>2. Len(fs) \in Nat
    BY <2>p, ConstantTypes DEF Executor
  <2>3. e.total = w[t].total + Len(fs) /\ e.batch = w[t].batch
    BY <2>p DEF Executor
  <2>4. /\ r.total = e.total /\ r.processed = job.processed
    BY <1>p
  <2>5. \/ UNCHANGED job
        \/ job' = r /\ Insertable("enumeration", e.batch)
    BY <2>1 DEF Commit
  <2> HIDE DEF e, r
  <2>6. MayList(w[t])
    BY <1>2 DEF ListSite, At, MayList
  <2>7. CASE job' = r /\ Insertable("enumeration", e.batch)
    <3>1. w[t].total = Len(Manifest) /\ job.total = Len(Manifest)
      BY <2>3, <2>6, <2>7, ListsAtTheEnd, LogParts DEF RowFits
    <3>. QED
      BY <1>p, <2>2, <2>3, <2>4, <2>7, <3>1
  <2>. QED
    BY <1>1, <2>5, <2>7
<1>3. ASSUME NEW t \in Task, CommitBatch(t)
      PROVE  job'.total >= job.total /\ job'.processed >= job.processed
  <2> DEFINE r == [job EXCEPT !.processed = w[t].counted]
  <2>1. \/ UNCHANGED job
        \/ job' = r /\ Insertable("labelling", w[t].batch)
    BY <1>3 DEF CommitBatch, CommitBatchLeaving, Commit
  <2>2. r.total = job.total /\ r.processed = w[t].counted
    BY <1>p
  <2> HIDE DEF r
  <2>3. Labels(w[t]) /\ w[t].counted \in Nat
    BY <1>3, LogParts DEF CommitBatch, CommitBatchLeaving, At, Labels, Executor
  <2>4. CASE job' = r /\ Insertable("labelling", w[t].batch)
    <3>1. job.processed <= w[t].counted
      BY <2>3, <2>4, LabelsAtTheEnd
    <3>. QED
      BY <1>p, <2>2, <2>3, <2>4, <3>1
  <2>. QED
    BY <1>1, <2>1, <2>4
<1>4. CASE ApiNext \/ UNCHANGED vars
  <2>1. job' = job \/ \E s : job' = [job EXCEPT !.status = s]
    BY <1>4 DEF ApiNext, UserRequest, Start, Pause, Resume, Cancel, Rollback,
                Accept, ApiSettle, Dispatch, SendSignal, LoseDispatch,
                SignalExpires, vars
  <2>. QED
    BY <1>1, <2>1
<1>5. ASSUME NEW t \in Task, Work(t) \/ Disrupt(t),
             ~ListSite(t), ~CommitBatch(t)
      PROVE  job'.total >= job.total /\ job'.processed >= job.processed
  <2>1. CASE BeginTask(t) \/ Disrupt(t)
    BY <1>1, <2>1 DEF BeginTask, Disrupt, Crash, Die, Timeout, Raise
  <2>2. CASE Signalled(t)
    BY <1>1, <2>2 DEF Signalled, SeeSignal, AckSignal, StopOnSignal, Commit
  <2>3. CASE Enumerate(t)
    BY <1>1, <1>5, <2>3 DEF Enumerate, EnumInit, NextSite, SkipSite,
                            AfterEnum, ToRunning, RunAndGoto
  <2>4. CASE LabelFile(t)
    BY <1>1, <2>4 DEF LabelFile, NoteDryRun, Capture, ApplyLabel,
                      ApplyRefused, ApplyUnknown
  <2>5. CASE LabelPhase(t) /\ ~LabelFile(t)
    BY <1>1, <1>5, <2>5
       DEF LabelPhase, LabelConfigFails, LabelInit, StartLabelling, LabelFrom,
           NextBatch, AfterLabel, Complete
  <2>6. CASE RollBack(t)
    BY <1>1, <2>6 DEF RollBack, RollbackInit, RollbackInitAhead,
                      NextUndoBatch, Undo, UndoUnless, UndoFails, CommitUndo,
                      Commit, AfterRollback, AfterRollbackIf, RollbackComplete
  <2>. QED
    BY <1>5, <2>1, <2>2, <2>3, <2>4, <2>5, <2>6 DEF Work
<1>. QED
  BY <1>2, <1>3, <1>4, <1>5 DEF Next, ExecutorNext

\* The progress a user sees never goes back: an executor that a pause, a
\* crash or a second one has overtaken cannot write the row, since its
\* checkpoint is refused in the same transaction.
THEOREM SpecProgressNeverGoesBack == Spec => ProgressNeverGoesBack
<1>1. LogInv /\ [Next]_vars
        => [job'.total >= job.total /\ job'.processed >= job.processed]_job
  BY ProgressStep
<1>. QED
  BY <1>1, SpecLogInv, PTL DEF Spec, ProgressNeverGoesBack

-----------------------------------------------------------------------------
(* Each file is logged once.                                               *)

\* What OnceInv says of the log.
LogOnce ==
  /\ Distinct(Manifest)
  /\ \A p \in 1 .. Len(Manifest) :
       \E c \in CpsOf("enumeration") : \E s \in c.sites : \E fs \in Listing[s] :
         \E i \in 1 .. Len(fs) : Manifest[p] = fs[i]
  /\ \A c, d \in CpsOf("labelling") : c.batch < d.batch => c.index <= d.index
  /\ Batches("labelling") = 0 => AllApplied = <<>>
  /\ \A i, j \in 1 .. Len(AllApplied) :
       AllApplied[i].file = AllApplied[j].file => i = j
  /\ \A i \in 1 .. Len(AllApplied) : \A c \in CpsOf("labelling") :
       Newest(c) => \E p \in 1 .. c.index : AllApplied[i].file = Manifest[p]

LEMMA OnceParts ==
  OnceInv <=> LogInv /\ LogOnce /\ \A t \in Task : InHand(w[t], mem[t])
BY DEF OnceInv, LogOnce

\* The two logs stay.
LEMMA LogOnceKept ==
  ASSUME Dense("enumeration"), Dense("labelling"), LogOnce,
         CpsOf("enumeration")' = CpsOf("enumeration"),
         CpsOf("labelling")' = CpsOf("labelling")
  PROVE  LogOnce'
<1>1. /\ Manifest' = Manifest /\ AllApplied' = AllApplied
      /\ Batches("labelling")' = Batches("labelling")
  BY ManifestKept, AllAppliedKept, DenseKept
<1>2. \A c \in CpsOf("labelling")' : Newest(c)' => Newest(c)
  BY <1>1 DEF Newest, CpsOf
<1>. QED
  BY <1>1, <1>2 DEF LogOnce

\* One executor moves, and what it has in hand fits.
LEMMA HandStep ==
  ASSUME OnceInv, NEW t \in Task, NEW e, NEW m,
         w' = [w EXCEPT ![t] = e], mem' = [mem EXCEPT ![t] = m],
         InHand(e, m)
  PROVE  \A u \in Task : InHand(w[u], mem[u])'
<1>1. w \in [Task -> Executor] /\ mem \in [Task -> Memory]
  BY OnceParts, LogParts DEF ControlOK, DataOK
<1>2. \A u \in Task : /\ w'[u] = IF u = t THEN e ELSE w[u]
                      /\ mem'[u] = IF u = t THEN m ELSE mem[u]
  BY <1>1
<1>. QED
  BY <1>2, OnceParts DEF InHand, Labels

\* The steps that leave both logs, with what the executor has in hand then.
LEMMA HandKept ==
  ASSUME OnceInv, NEW t \in Task, NEW e, NEW m, Become(t, e), Remember(t, m),
         UNCHANGED cps, InHand(e, m)
  PROVE  LogOnce' /\ \A u \in Task : InHand(w[u], mem[u])'
<1>1. \A u \in Task : InHand(w[u], mem[u])'
  BY HandStep DEF Become, Remember
<1>2. /\ CpsOf("enumeration")' = CpsOf("enumeration")
      /\ CpsOf("labelling")' = CpsOf("labelling")
  BY DEF CpsOf
<1>3. LogOnce'
  BY <1>2, OnceParts, LogParts, LogOnceKept
<1>. QED
  BY <1>1, <1>3

\* Nothing is in hand at a batch's start, or outside the labelling phase.
LEMMA HandEmpty ==
  ASSUME NEW e, NEW m, ~Labels(e) \/ m.applied = <<>>
  PROVE  InHand(e, m)
BY DEF InHand

LEMMA HandMoves ==
  ASSUME OnceInv, NEW t \in Task, NEW e, Become(t, e), UNCHANGED <<cps, mem>>,
         \/ ~Labels(e)
         \/ mem[t].applied = <<>>
         \/ Labels(w[t]) /\ e.index = w[t].index /\ e.k = w[t].k
  PROVE  LogOnce' /\ \A u \in Task : InHand(w[u], mem[u])'
<1>1. Remember(t, mem[t])
  BY OnceParts, LogParts DEF Remember, DataOK
<1>2. InHand(w[t], mem[t])
  BY OnceParts
<1>3. InHand(e, mem[t])
  BY <1>2 DEF InHand
<1>. QED
  BY <1>1, <1>3, HandKept

LEMMA HandLeave ==
  ASSUME OnceInv, NEW t \in Task, NEW state, Leave(t, state), UNCHANGED cps
  PROVE  LogOnce' /\ \A u \in Task : InHand(w[u], mem[u])'
<1>1. InHand(NewExecutor, NewMemory)
  BY HandEmpty DEF NewMemory
<1>. QED
  BY <1>1, HandKept DEF Leave

\* A file is handled: if it is noted, it is none of those before it.
LEMMA HandFileDone ==
  ASSUME OnceInv, NEW t \in Task, NEW n \in {0, 1}, FileDone(t, n),
         w[t].pc \in {"capture", "apply"},
         Note(t, job.dry) \/ Forget(t), UNCHANGED cps
  PROVE  LogOnce' /\ \A u \in Task : InHand(w[u], mem[u])'
<1>p. /\ w[t] \in Executor /\ mem[t] \in Memory /\ Labels(w[t])
      /\ InHand(w[t], mem[t]) /\ Manifest \in Seq(File)
      /\ mem[t].files \in Seq(File) /\ mem[t].applied \in Seq(Entry)
      /\ Distinct(Manifest) /\ Prefix(mem[t].files, Manifest)
  BY OnceParts, LogParts DEF LogOnce, Memory, Fits, LabelFits, Labels
<1>f. /\ w[t].index \in Nat /\ w[t].k \in Nat
      /\ w[t].index + w[t].k + 1 \in 1 .. Len(mem[t].files)
  BY OnceParts, FileInHand
<1> DEFINE e == [w[t] EXCEPT
                   !.k = @ + 1, !.counted = @ + n,
                   !.pc = IF w[t].k + 1 = BatchLen(w[t].index, mem[t].files)
                            THEN "labelCommit" ELSE "capture"]
           q == mem[t].applied
           i0 == w[t].index
           k0 == w[t].k
           g == mem[t].files
<1>1. Become(t, e) /\ e.k = k0 + 1 /\ e.index = i0
  BY <1>p DEF FileDone, Executor
<1>2. \A i \in 1 .. Len(q) :
        \E p \in i0 + 1 .. i0 + k0 : q[i].file = g[p]
  BY <1>p DEF InHand
<1>3. \A i, j \in 1 .. Len(q) : q[i].file = q[j].file => i = j
  BY <1>p DEF InHand
<1>4. \A p \in i0 + 1 .. i0 + k0 : g[p] # g[i0 + k0 + 1]
  <2>1. /\ Len(g) \in Nat /\ Len(Manifest) \in Nat /\ Len(g) <= Len(Manifest)
        /\ \A p \in 1 .. Len(g) : g[p] = Manifest[p]
    BY <1>p DEF Prefix
  <2> HIDE DEF g, i0, k0
  <2>2. i0 \in Nat /\ k0 \in Nat /\ i0 + k0 + 1 \in 1 .. Len(g)
    BY <1>f DEF g, i0, k0
  <2> TAKE p \in i0 + 1 .. i0 + k0
  <2>3. p \in 1 .. Len(g) /\ p # i0 + k0 + 1
    BY <2>1, <2>2
  <2>4. p \in 1 .. Len(Manifest) /\ i0 + k0 + 1 \in 1 .. Len(Manifest)
    BY <2>1, <2>2, <2>3
  <2>. QED
    BY <1>p, <2>1, <2>2, <2>3, <2>4 DEF Distinct
<1> HIDE DEF e
<1>5. \A p \in i0 + 1 .. i0 + k0 : p \in e.index + 1 .. e.index + e.k
  BY <1>1, <1>f
<1>6. CASE Forget(t)
  <2> DEFINE m == [mem[t] EXCEPT !.previous = NoLabel]
  <2>1. m.files = g /\ m.applied = q /\ Remember(t, m)
    BY <1>p, <1>6 DEF Memory, Forget
  <2> HIDE DEF m, g, q
  <2>2. InHand(e, m)
    BY <1>2, <1>3, <1>5, <2>1 DEF InHand
  <2>. QED
    BY <1>1, <2>1, <2>2, HandKept
<1>7. CASE Note(t, job.dry)
  <2> DEFINE x == [file |-> CurrentFile(t), previous |-> mem[t].previous,
                   dry |-> job.dry]
             a == Append(q, x)
             m == [mem[t] EXCEPT !.applied = a, !.previous = NoLabel]
  <2>1. m.files = g /\ m.applied = a
    <3> HIDE DEF a
    <3>. QED
      BY <1>p DEF Memory
  <2>2. x.file = g[i0 + k0 + 1]
    BY DEF CurrentFile
  <2>3. Remember(t, m)
    BY <1>7 DEF Note
  <2> HIDE DEF x, m
  <2>4. /\ Len(a) = Len(q) + 1 /\ a[Len(q) + 1] = x /\ Len(q) \in Nat
        /\ \A i \in 1 .. Len(q) : a[i] = q[i]
    BY <1>p
  <2> HIDE DEF a, q, g
  <2>5. \A i \in 1 .. Len(q) : a[i].file # x.file
    BY <1>2, <1>4, <2>2, <2>4
  <2>6. \A i \in 1 .. Len(a) : i \in 1 .. Len(q) \/ i = Len(q) + 1
    BY <2>4
  <2>7. \A i, j \in 1 .. Len(a) : a[i].file = a[j].file => i = j
    BY <1>3, <2>4, <2>5, <2>6
  <2>8. i0 + k0 + 1 \in e.index + 1 .. e.index + e.k
    BY <1>1, <1>f
  <2>9. \A i \in 1 .. Len(a) :
          \E p \in e.index + 1 .. e.index + e.k : a[i].file = g[p]
    BY <1>2, <1>5, <2>2, <2>4, <2>6, <2>8
  <2>10. InHand(e, m)
    BY <2>1, <2>7, <2>9 DEF InHand
  <2>. QED
    BY <1>1, <2>3, <2>10, HandKept
<1>. QED
  BY <1>6, <1>7

\* A batch is logged: its files come behind those that are logged.
LEMMA OnceLabelled ==
  ASSUME OnceInv, LogInv', NEW t \in Task, NEW c \in Checkpoint, NEW r, NEW e,
         NEW m, Commit(t, c, r, e, m), c.type = "labelling",
         Labels(w[t]), c.batch = w[t].batch,
         c.index = w[t].index + w[t].k, c.applied = mem[t].applied,
         m.applied = <<>>
  PROVE  LogOnce' /\ \A u \in Task : InHand(w[u], mem[u])'
<1>1. CASE ~Insertable(c.type, c.batch)
  BY <1>1, HandLeave DEF Commit, Abandon
<1>2. CASE Insertable(c.type, c.batch)
  <2> DEFINE B == Batches("labelling")
             L == CpsOf("labelling")
             A == AllApplied
             q == mem[t].applied
             i0 == w[t].index
             k0 == w[t].k
  <2>p. /\ LogInv /\ LogOnce /\ InHand(w[t], mem[t]) /\ RowFits
        /\ Dense("enumeration") /\ Dense("labelling") /\ cps \subseteq Checkpoint
        /\ Manifest \in Seq(File) /\ A \in Seq(Entry) /\ q \in Seq(Entry)
        /\ i0 \in Nat /\ k0 \in Nat /\ i0 + k0 <= Len(mem[t].files)
        /\ Prefix(mem[t].files, Manifest) /\ mem[t].files \in Seq(File)
    BY OnceParts, LogParts DEF DataOK, Memory, Executor, Fits, LabelFits
  <2>1. /\ cps' = cps \cup {c} /\ Become(t, e) /\ Remember(t, m)
    BY <1>2 DEF Commit
  <2>2. /\ CpsOf("labelling")' = L \cup {c}
        /\ CpsOf("enumeration")' = CpsOf("enumeration")
    BY <2>1 DEF CpsOf
  <2>3. /\ c.batch = B
        /\ \A d \in L : Newest(d) => d.index = i0
    BY <1>2, <2>p, LabelsAtTheEnd
  <2>4. /\ Batches("labelling")' = B + 1 /\ B \in Nat
        /\ Manifest' = Manifest /\ AllApplied' = A \o q
    <3>1. Batches("labelling")' = B + 1
      BY <2>p, <2>2, <2>3, DenseGrows
    <3>2. Manifest' = Manifest
      BY <2>p, <2>2, ManifestKept
    <3>3. AllApplied' = A \o c.applied
      BY <2>p, <2>2, <2>3, AllAppliedGrows
    <3>. QED
      BY <2>p, <3>1, <3>2, <3>3 DEF Dense
  <2>5. \A d \in L : d.batch \in Nat /\ d.batch < B /\ d.index \in Nat
    <3> TAKE d \in L
    <3>1. d.index \in Nat
      BY <2>p DEF CpsOf, Checkpoint
    <3>2. d.batch \in 0 .. B - 1
      BY <2>p DEF Dense
    <3>. QED
      BY <2>4, <3>1, <3>2
  <2>6. \A d \in L : d.index <= i0
    <3> TAKE d \in L
    <3>1. B # 0
      BY <2>4, <2>5
    <3>2. PICK n \in L : n.batch = B - 1
      BY <2>p, <2>4, <3>1 DEF Dense
    <3>3. n.index = i0
      BY <2>3, <3>2 DEF Newest, CpsOf
    <3>4. d.batch < n.batch \/ d = n
      BY <2>4, <2>5, <2>p, <3>2 DEF Dense
    <3>. QED
      BY <2>p, <2>5, <3>3, <3>4 DEF LogOnce
  <2>7. \A d, f \in CpsOf("labelling")' : d.batch < f.batch => d.index <= f.index
    <3> SUFFICES ASSUME NEW d \in L \cup {c}, NEW f \in L \cup {c},
                        d.batch < f.batch
                 PROVE  d.index <= f.index
      BY <2>2
    <3>1. CASE d \in L /\ f \in L
      BY <2>p, <3>1 DEF LogOnce
    <3>2. CASE d \in L /\ f = c
      <4>1. d.index <= i0 /\ d.index \in Nat
        BY <2>5, <2>6, <3>2
      <4>. QED
        BY <2>p, <3>2, <4>1
    <3>3. CASE d = c
      BY <2>3, <2>4, <2>5, <3>3
    <3>. QED
      BY <3>1, <3>2, <3>3
  <2>8. /\ Len(A \o q) = Len(A) + Len(q) /\ Len(A) \in Nat /\ Len(q) \in Nat
        /\ \A i \in 1 .. Len(A) + Len(q) :
             (A \o q)[i] = IF i <= Len(A) THEN A[i] ELSE q[i - Len(A)]
    BY <2>p, ConcatProperties
  \* The entries of the log are of files before the batch,
  <2>9. \A i \in 1 .. Len(A) : \E p \in 1 .. i0 : A[i].file = Manifest[p]
    <3> TAKE i \in 1 .. Len(A)
    <3>1. B # 0
      <4>1. A # <<>>
        BY <2>8
      <4>. QED
        BY <2>p, <4>1 DEF LogOnce
    <3>a. B - 1 \in 0 .. B - 1
      BY <2>4, <3>1
    <3>2. PICK n \in L : n.batch = B - 1
      BY <2>p, <3>a DEF Dense
    <3>3. Newest(n) /\ n.index = i0
      BY <2>3, <3>2 DEF Newest, CpsOf
    <3>. QED
      BY <2>p, <3>2, <3>3 DEF LogOnce
  \* and those of the batch are of its files.
  <2>10. \A i \in 1 .. Len(q) :
           \E p \in i0 + 1 .. i0 + k0 : q[i].file = Manifest[p]
    <3> TAKE i \in 1 .. Len(q)
    <3>1. PICK p \in i0 + 1 .. i0 + k0 : q[i].file = mem[t].files[p]
      BY <2>p DEF InHand
    <3>2. p \in 1 .. Len(mem[t].files)
      BY <2>p, <3>1
    <3>. QED
      BY <2>p, <3>1, <3>2 DEF Prefix
  <2>11. i0 + k0 <= Len(Manifest)
    BY <2>p DEF Prefix
  <2>12. \A i, j \in 1 .. Len(q) : q[i].file = q[j].file => i = j
    BY <2>p DEF InHand
  <2>13. \A i \in 1 .. Len(A), j \in 1 .. Len(q) : A[i].file # q[j].file
    <3> TAKE i \in 1 .. Len(A), j \in 1 .. Len(q)
    <3>1. PICK p \in 1 .. i0 : A[i].file = Manifest[p]
      BY <2>9
    <3>2. PICK p2 \in i0 + 1 .. i0 + k0 : q[j].file = Manifest[p2]
      BY <2>10
    <3>3. p # p2 /\ p \in 1 .. Len(Manifest) /\ p2 \in 1 .. Len(Manifest)
      <4> DEFINE z == Len(Manifest)
      <4>1. i0 \in Nat /\ k0 \in Nat /\ z \in Nat /\ i0 + k0 <= z
        BY <2>p, <2>11
      <4>2. p \in 1 .. i0 /\ p2 \in i0 + 1 .. i0 + k0
        BY <3>1, <3>2
      <4> HIDE DEF z, i0, k0
      <4>3. p # p2 /\ p \in 1 .. z /\ p2 \in 1 .. z
        BY ONLY <4>1, <4>2
      <4>. QED
        BY <4>3 DEF z
    <3>. QED
      BY <2>p, <3>1, <3>2, <3>3 DEF LogOnce, Distinct
  <2> HIDE DEF A, q, i0, k0, B, L
  <2>14. ASSUME NEW i \in 1 .. Len(A \o q), NEW j \in 1 .. Len(A \o q),
                (A \o q)[i].file = (A \o q)[j].file
         PROVE  i = j
    <3>1. \A k \in 1 .. Len(A \o q) :
            \/ k \in 1 .. Len(A) /\ (A \o q)[k] = A[k]
            \/ k - Len(A) \in 1 .. Len(q) /\ (A \o q)[k] = q[k - Len(A)]
               /\ k \in Nat
      BY <2>8
    <3>2. \A a, b \in 1 .. Len(A) : A[a].file = A[b].file => a = b
      BY <2>p DEF LogOnce, A
    <3>3. CASE i \in 1 .. Len(A) /\ j \in 1 .. Len(A)
               /\ (A \o q)[i] = A[i] /\ (A \o q)[j] = A[j]
      BY <2>14, <3>2, <3>3
    <3>4. CASE /\ i - Len(A) \in 1 .. Len(q) /\ (A \o q)[i] = q[i - Len(A)]
               /\ j - Len(A) \in 1 .. Len(q) /\ (A \o q)[j] = q[j - Len(A)]
      <4>1. i - Len(A) = j - Len(A)
        BY <2>12, <2>14, <3>4
      <4>. QED
        BY <2>8, <4>1
    <3>. QED
      BY <2>13, <2>14, <3>1, <3>3, <3>4
  <2>15. \A i \in 1 .. Len(A \o q) :
           \E p \in 1 .. c.index : (A \o q)[i].file = Manifest[p]
    <3>1. \A k \in 1 .. Len(A \o q) :
            \/ k \in 1 .. Len(A) /\ (A \o q)[k] = A[k]
            \/ k - Len(A) \in 1 .. Len(q) /\ (A \o q)[k] = q[k - Len(A)]
      BY <2>8
    <3>2. /\ c.index = i0 + k0
          /\ \A p \in 1 .. i0 : p \in 1 .. i0 + k0
          /\ \A p \in i0 + 1 .. i0 + k0 : p \in 1 .. i0 + k0
      BY <2>p DEF i0, k0
    <3> SUFFICES ASSUME NEW k \in 1 .. Len(A \o q)
                 PROVE  \E p \in 1 .. c.index : (A \o q)[k].file = Manifest[p]
      OBVIOUS
    <3>3. CASE k \in 1 .. Len(A) /\ (A \o q)[k] = A[k]
      <4>1. \E p \in 1 .. i0 : A[k].file = Manifest[p]
        BY <2>9, <3>3
      <4>. QED
        BY <3>2, <3>3, <4>1
    <3>4. CASE k - Len(A) \in 1 .. Len(q) /\ (A \o q)[k] = q[k - Len(A)]
      <4>1. \E p \in i0 + 1 .. i0 + k0 : q[k - Len(A)].file = Manifest[p]
        BY <2>10, <3>4
      <4>. QED
        BY <3>2, <3>4, <4>1
    <3>. QED
      BY <3>1, <3>3, <3>4
  <2>16. \A d \in CpsOf("labelling")' : Newest(d)' => d = c
    <3> SUFFICES ASSUME NEW d \in L \cup {c}, Newest(d)' PROVE d = c
      BY <2>2
    <3>1. d.type = "labelling"
      BY DEF L, CpsOf
    <3>2. d.batch = B
      BY <2>4, <3>1 DEF Newest
    <3>. QED
      BY <2>4, <2>5, <3>2
  <2>17. LogOnce'
    <3>1. Distinct(Manifest')
      BY <2>p, <2>4 DEF LogOnce
    <3>2. \A p \in 1 .. Len(Manifest') :
            \E d \in CpsOf("enumeration")' : \E s \in d.sites :
              \E fs \in Listing[s] : \E i \in 1 .. Len(fs) :
                Manifest'[p] = fs[i]
      BY <2>p, <2>2, <2>4 DEF LogOnce
    <3>3. Batches("labelling")' # 0
      BY <2>4
    <3>4. /\ \A i, j \in 1 .. Len(AllApplied') :
               AllApplied'[i].file = AllApplied'[j].file => i = j
      BY <2>4, <2>14
    <3>5. \A i \in 1 .. Len(AllApplied') : \A d \in CpsOf("labelling")' :
            Newest(d)' =>
              \E p \in 1 .. d.index : AllApplied'[i].file = Manifest'[p]
      BY <2>4, <2>15, <2>16
    <3>. QED
      BY <2>7, <3>1, <3>2, <3>3, <3>4, <3>5 DEF LogOnce, Distinct
  <2>18. InHand(e, m)
    BY HandEmpty
  <2>. QED
    BY <2>1, <2>17, <2>18, HandStep DEF Become, Remember
<1>. QED
  BY <1>1, <1>2

\* A site is listed: its files come behind those of other sites.
LEMMA OnceListed ==
  ASSUME FilesInOnePlace, OnceInv, NEW t \in Task, NEW c \in Checkpoint,
         NEW r, NEW e, Commit(t, c, r, e, mem[t]), c.type = "enumeration",
         MayList(w[t]), c.batch = w[t].batch, ~Labels(e),
         \/ c.files = <<>>
         \/ \E s \in w[t].todo : s \in c.sites /\ c.files \in Listing[s]
  PROVE  LogOnce' /\ \A u \in Task : InHand(w[u], mem[u])'
<1>1. CASE ~Insertable(c.type, c.batch)
  BY <1>1, HandLeave DEF Commit, Abandon
<1>2. CASE Insertable(c.type, c.batch)
  <2> DEFINE E == CpsOf("enumeration")
             L == CpsOf("labelling")
             M == Manifest
             fs == c.files
  <2>p. /\ LogInv /\ EnumInv /\ LogOnce /\ RowFits /\ Positioned(w[t])
        /\ Dense("enumeration") /\ Dense("labelling") /\ cps \subseteq Checkpoint
        /\ M \in Seq(File) /\ fs \in Seq(File) /\ w[t] \in Executor
    BY OnceParts, LogParts DEF DataOK, Checkpoint, LogInv, EnumInv
  <2>1. /\ cps' = cps \cup {c} /\ Become(t, e) /\ Remember(t, mem[t])
    BY <1>2 DEF Commit
  <2>2. CpsOf("enumeration")' = E \cup {c} /\ CpsOf("labelling")' = L
    BY <2>1 DEF CpsOf
  <2>3. c.batch = Batches("enumeration")
    BY <1>2, <2>p, ListsAtTheEnd
  <2>4. /\ Manifest' = M \o fs /\ AllApplied' = AllApplied
        /\ Batches("labelling")' = Batches("labelling")
    BY <2>p, <2>2, <2>3, ManifestGrows, AllAppliedKept, DenseKept
  <2>5. /\ Len(M \o fs) = Len(M) + Len(fs) /\ Len(M) \in Nat /\ Len(fs) \in Nat
        /\ \A i \in 1 .. Len(M) + Len(fs) :
             (M \o fs)[i] = IF i <= Len(M) THEN M[i] ELSE fs[i - Len(M)]
    BY <2>p, ConcatProperties
  \* Every site of the log is one that t has listed or passed over.
  <2>6. \A d \in E : \A s \in d.sites : s \in Site /\ s \notin w[t].todo
    <3> TAKE d \in E
    <3>1. d.batch \in 0 .. Batches("enumeration") - 1
      BY <2>p DEF Dense
    <3>2. d.batch < w[t].batch
      BY <2>p, <2>3, <3>1 DEF Dense
    <3>. QED
      BY <2>p, <3>2 DEF Positioned, CpsOf, Checkpoint
  <2>7. /\ Distinct(fs)
        /\ \A p \in 1 .. Len(M), i \in 1 .. Len(fs) : M[p] # fs[i]
        /\ \A i \in 1 .. Len(fs) : \E s \in c.sites : \E gs \in Listing[s] :
             \E j \in 1 .. Len(gs) : fs[i] = gs[j]
    <3>1. CASE fs = <<>>
      BY <2>5, <3>1 DEF Distinct
    <3>2. ASSUME NEW site \in w[t].todo, site \in c.sites, fs \in Listing[site]
          PROVE  /\ Distinct(fs)
                 /\ \A p \in 1 .. Len(M), i \in 1 .. Len(fs) : M[p] # fs[i]
                 /\ \A i \in 1 .. Len(fs) : \E s \in c.sites : \E gs \in Listing[s] :
                      \E j \in 1 .. Len(gs) : fs[i] = gs[j]
      <4>1. site \in Site
        BY <2>p DEF Executor
      <4>2. Distinct(fs)
        BY <3>2, <4>1 DEF FilesInOnePlace, Distinct
      <4>3. ASSUME NEW p \in 1 .. Len(M), NEW i \in 1 .. Len(fs), M[p] = fs[i]
            PROVE  FALSE
        <5>0. PICK d \in E : \E s2 \in d.sites : \E gs \in Listing[s2] :
                \E j \in 1 .. Len(gs) : M[p] = gs[j]
          BY <2>p DEF LogOnce
        <5>1. PICK s2 \in d.sites : \E gs \in Listing[s2] :
                \E j \in 1 .. Len(gs) : M[p] = gs[j]
          BY <5>0
        <5>2. s2 \in Site /\ s2 # site
          BY <2>6
        <5>3. PICK gs \in Listing[s2] : \E j \in 1 .. Len(gs) : M[p] = gs[j]
          BY <5>1
        <5>4. PICK j \in 1 .. Len(gs) : M[p] = gs[j]
          BY <5>3
        <5>5. fs[i] = gs[j]
          BY <4>3, <5>4
        <5>6. \A x \in 1 .. Len(fs), y \in 1 .. Len(gs) :
                fs[x] = gs[y] => site = s2
          BY <3>2, <4>1, <5>2, <5>3 DEF FilesInOnePlace
        <5>. QED
          BY <5>2, <5>4, <5>5, <5>6
      <4>. QED
        BY <3>2, <4>2, <4>3
    <3>. QED
      BY <3>1, <3>2
  <2>8. \A p \in 1 .. Len(M) : \E d \in E : \E site \in d.sites :
          \E gs \in Listing[site] : \E i \in 1 .. Len(gs) : M[p] = gs[i]
    BY <2>p DEF LogOnce
  <2>9. Distinct(M)
    BY <2>p DEF LogOnce
  <2>10. \A d \in L : d.index <= Len(M) /\ d.index \in Nat
    BY <2>p DEF RowFits, CpsOf, Checkpoint
  <2>11. \A d \in L : Newest(d)' => Newest(d)
    BY <2>4 DEF Newest, CpsOf
  <2>12. \A i \in 1 .. Len(AllApplied) : \A d \in L :
           Newest(d) => \E p \in 1 .. d.index : AllApplied[i].file = M[p]
    BY <2>p DEF LogOnce
  <2> HIDE DEF M, fs, E, L
  <2>13. \A k \in 1 .. Len(M \o fs) :
           \/ k \in 1 .. Len(M) /\ (M \o fs)[k] = M[k]
           \/ k - Len(M) \in 1 .. Len(fs) /\ (M \o fs)[k] = fs[k - Len(M)]
              /\ k \in Nat
    BY <2>5
  <2>14. Distinct(M \o fs)
    <3> SUFFICES ASSUME NEW i \in 1 .. Len(M \o fs), NEW j \in 1 .. Len(M \o fs),
                        (M \o fs)[i] = (M \o fs)[j]
                 PROVE  i = j
      BY DEF Distinct
    <3>1. CASE i \in 1 .. Len(M) /\ j \in 1 .. Len(M)
               /\ (M \o fs)[i] = M[i] /\ (M \o fs)[j] = M[j]
      BY <2>9, <3>1 DEF Distinct
    <3>2. CASE /\ i - Len(M) \in 1 .. Len(fs) /\ (M \o fs)[i] = fs[i - Len(M)]
               /\ j - Len(M) \in 1 .. Len(fs) /\ (M \o fs)[j] = fs[j - Len(M)]
      <4>1. i - Len(M) = j - Len(M)
        BY <2>7, <3>2 DEF Distinct
      <4>. QED
        BY <2>5, <4>1
    <3>. QED
      BY <2>7, <2>13, <3>1, <3>2
  <2>15. \A p \in 1 .. Len(M \o fs) : \E d \in E \cup {c} : \E site \in d.sites :
           \E gs \in Listing[site] : \E i \in 1 .. Len(gs) : (M \o fs)[p] = gs[i]
    <3> DEFINE Finds(d, x) == \E site \in d.sites : \E gs \in Listing[site] :
                                \E i \in 1 .. Len(gs) : x = gs[i]
    <3>1. \A p \in 1 .. Len(M) : \E d \in E : Finds(d, M[p])
      BY <2>8
    <3>2. \A i \in 1 .. Len(fs) : Finds(c, fs[i])
      BY <2>7
    <3>3. \A p \in 1 .. Len(M \o fs) : \E d \in E \cup {c} : Finds(d, (M \o fs)[p])
      <4> HIDE DEF Finds
      <4> TAKE p \in 1 .. Len(M \o fs)
      <4>1. CASE p \in 1 .. Len(M) /\ (M \o fs)[p] = M[p]
        BY <3>1, <4>1
      <4>2. CASE p - Len(M) \in 1 .. Len(fs) /\ (M \o fs)[p] = fs[p - Len(M)]
        BY <3>2, <4>2
      <4>. QED
        BY <2>13, <4>1, <4>2
    <3>. QED
      BY <3>3
  <2>16. \A i \in 1 .. Len(AllApplied) : \A d \in L :
           Newest(d) =>
             \E p \in 1 .. d.index : AllApplied[i].file = (M \o fs)[p]
    <3>1. \A d \in L : \A p \in 1 .. d.index : (M \o fs)[p] = M[p]
      BY <2>5, <2>10
    <3>. QED
      BY <2>12, <3>1
  <2>17. LogOnce'
    <3>a. \A p \in 1 .. Len(Manifest') :
            \E d \in CpsOf("enumeration")' : \E site \in d.sites :
              \E gs \in Listing[site] : \E i \in 1 .. Len(gs) :
                Manifest'[p] = gs[i]
      <4>1. Manifest' = M \o fs /\ CpsOf("enumeration")' = E \cup {c}
        BY <2>2, <2>4
      <4>. QED
        BY ONLY <2>15, <4>1, Zenon
    <3>1. Distinct(Manifest')
      BY <2>4, <2>14
    <3>2. \A x, y \in CpsOf("labelling")' : x.batch < y.batch => x.index <= y.index
      BY <2>p, <2>2 DEF LogOnce, L
    <3>3. /\ Batches("labelling")' = 0 => AllApplied' = <<>>
          /\ \A i, j \in 1 .. Len(AllApplied') :
               AllApplied'[i].file = AllApplied'[j].file => i = j
      BY <2>p, <2>4 DEF LogOnce
    <3>4. \A i \in 1 .. Len(AllApplied') : \A d \in CpsOf("labelling")' :
            Newest(d)' =>
              \E p \in 1 .. d.index : AllApplied'[i].file = Manifest'[p]
      BY <2>2, <2>4, <2>11, <2>16
    <3>. QED
      BY <3>a, <3>1, <3>2, <3>3, <3>4 DEF LogOnce, Distinct
  <2>18. InHand(e, mem[t])
    BY HandEmpty
  <2>. QED
    BY <2>1, <2>17, <2>18, HandStep DEF Become, Remember
<1>. QED
  BY <1>1, <1>2

\* A commit that adds to neither log.
LEMMA OnceOther ==
  ASSUME OnceInv, NEW t \in Task, NEW c, NEW r, NEW e,
         Commit(t, c, r, e, mem[t]), c.type = "rollback", ~Labels(e)
  PROVE  LogOnce' /\ \A u \in Task : InHand(w[u], mem[u])'
<1>1. CASE ~Insertable(c.type, c.batch)
  BY <1>1, HandLeave DEF Commit, Abandon
<1>2. CASE Insertable(c.type, c.batch)
  <2>1. /\ cps' = cps \cup {c} /\ Become(t, e) /\ Remember(t, mem[t])
    BY <1>2 DEF Commit
  <2>2. /\ CpsOf("enumeration")' = CpsOf("enumeration")
        /\ CpsOf("labelling")' = CpsOf("labelling")
    BY <2>1 DEF CpsOf
  <2>3. LogOnce'
    BY <2>2, OnceParts, LogParts, LogOnceKept
  <2>4. InHand(e, mem[t])
    BY HandEmpty
  <2>. QED
    BY <2>1, <2>3, <2>4, HandStep DEF Become, Remember
<1>. QED
  BY <1>1, <1>2

\* The steps that do not touch the log, and stopping on a signal.
LEMMA OnceSignalled ==
  ASSUME FilesInOnePlace, OnceInv, LogInv', NEW t \in Task, Signalled(t)
  PROVE  LogOnce' /\ \A u \in Task : InHand(w[u], mem[u])'
<1>p. /\ w[t] \in Executor /\ PhaseFits(w[t]) /\ Fits(w[t], mem[t])
      /\ mem[t] \in Memory
  BY OnceParts, LogParts
<1>1. CASE SeeSignal(t) \/ AckSignal(t)
  <2>1. PICK e : /\ Become(t, e) /\ e.phase = w[t].phase
                 /\ e.pc \in {"ack", "stop"}
    <3>1. /\ [w[t] EXCEPT !.pc = "ack", !.seen = signal].pc = "ack"
          /\ [w[t] EXCEPT !.pc = "ack", !.seen = signal].phase = w[t].phase
          /\ [w[t] EXCEPT !.pc = "stop"].pc = "stop"
          /\ [w[t] EXCEPT !.pc = "stop"].phase = w[t].phase
      BY <1>p DEF Executor
    <3>2. \/ Become(t, [w[t] EXCEPT !.pc = "ack", !.seen = signal])
          \/ Become(t, [w[t] EXCEPT !.pc = "stop"])
      BY <1>1 DEF SeeSignal, AckSignal, Goto
    <3>. QED
      BY <3>1, <3>2
  <2>2. /\ UNCHANGED <<cps, mem>>
        /\ w[t].pc \in {"enum", "list", "label", "rb", "ack"}
    BY <1>1 DEF SeeSignal, AckSignal, At
  <2>3. Labels(e) => mem[t].applied = <<>>
    BY <1>p, <2>1, <2>2 DEF Labels, PhaseFits, Fits, LabelFits
  <2>. QED
    BY <2>1, <2>2, <2>3, HandMoves
<1>3. CASE StopOnSignal(t)
  <2> DEFINE e == w[t]
             s == IF e.seen = "pause" THEN "paused" ELSE "failed"
             c == [type |-> e.phase, batch |-> e.batch,
                   sites |-> e.sites, total |-> e.total, files |-> <<>>,
                   index |-> IF e.phase = "rollback" THEN e.counted
                             ELSE e.index,
                   counted |-> e.counted, applied |-> <<>>]
             r == [job EXCEPT !.status = WithStatus(t, s)]
             f == [e EXCEPT !.st = s,
                            !.pc = CASE e.phase = "enumeration" -> "enumEnd"
                                     [] e.phase = "labelling" -> "final"
                                     [] OTHER -> "rbEnd"]
  <2>1. Commit(t, c, r, f, mem[t]) /\ w[t].pc = "stop"
    BY <1>3 DEF StopOnSignal, At
  <2>2. f.pc \in {"enumEnd", "final", "rbEnd"}
    BY <1>p DEF Executor
  <2>3. /\ c.type = e.phase /\ c.batch = e.batch
        /\ c.files = <<>> /\ c.applied = <<>>
        /\ c.index = IF e.phase = "rollback" THEN e.counted ELSE e.index
    OBVIOUS
  <2>4. c \in Checkpoint
    BY <1>p DEF Executor, Checkpoint
  <2> HIDE DEF c, r, f
  <2>5. ~Labels(f)
    BY <2>2 DEF Labels
  <2>7. CASE e.phase = "enumeration"
    <3>1. MayList(w[t])
      BY <2>1, <2>7 DEF MayList
    <3>. QED
      BY <2>1, <2>3, <2>4, <2>5, <2>7, <3>1, OnceListed
  <2>8. CASE e.phase = "labelling"
    <3>1. Labels(w[t])
      BY <2>1, <2>8 DEF Labels
    <3>2. w[t].k = 0 /\ mem[t].applied = <<>>
      BY <1>p, <2>1, <3>1 DEF Fits, LabelFits
    <3>3. c.index = w[t].index + w[t].k
      BY <1>p, <2>3, <2>8, <3>2 DEF Executor
    <3>. QED
      BY <2>1, <2>3, <2>4, <2>8, <3>1, <3>2, <3>3, OnceLabelled
  <2>9. CASE e.phase = "rollback"
    BY <2>1, <2>3, <2>5, <2>9, OnceOther
  <2>10. e.phase \in {"enumeration", "labelling", "rollback"}
    BY <1>p DEF Executor, CheckpointTypes
  <2>. QED
    BY <2>7, <2>8, <2>9, <2>10
<1>. QED
  BY <1>1, <1>3 DEF Signalled

LEMMA OnceEnumerate ==
  ASSUME FilesInOnePlace, OnceInv, NEW t \in Task, Enumerate(t)
  PROVE  LogOnce' /\ \A u \in Task : InHand(w[u], mem[u])'
<1>p. w[t] \in Executor
  BY OnceParts, LogParts
<1>1. CASE ListSite(t)
  <2>0. PICK s \in w[t].todo : \E fs \in Listing[s] :
          LET e == [w[t] EXCEPT !.sites = @ \cup {s}, !.total = @ + Len(fs)]
              c == [type |-> "enumeration", batch |-> e.batch,
                    sites |-> e.sites, total |-> e.total, files |-> fs,
                    index |-> 0, counted |-> 0, applied |-> <<>>]
          IN Commit(t, c, [job EXCEPT !.total = e.total],
                    [e EXCEPT !.pc = "enum", !.todo = @ \ {s},
                              !.batch = @ + 1],
                    mem[t])
    BY <1>1 DEF ListSite
  <2>1. PICK fs \in Listing[s] :
          LET e == [w[t] EXCEPT !.sites = @ \cup {s}, !.total = @ + Len(fs)]
              c == [type |-> "enumeration", batch |-> e.batch,
                    sites |-> e.sites, total |-> e.total, files |-> fs,
                    index |-> 0, counted |-> 0, applied |-> <<>>]
          IN Commit(t, c, [job EXCEPT !.total = e.total],
                    [e EXCEPT !.pc = "enum", !.todo = @ \ {s},
                              !.batch = @ + 1],
                    mem[t])
    BY <2>0
  <2> DEFINE e == [w[t] EXCEPT !.sites = @ \cup {s}, !.total = @ + Len(fs)]
             c == [type |-> "enumeration", batch |-> e.batch,
                   sites |-> e.sites, total |-> e.total, files |-> fs,
                   index |-> 0, counted |-> 0, applied |-> <<>>]
             r == [job EXCEPT !.total = e.total]
             f == [e EXCEPT !.pc = "enum", !.todo = @ \ {s},
                            !.batch = @ + 1]
  <2>2. Commit(t, c, r, f, mem[t])
    BY <2>1
  <2>3. s \in Site /\ fs \in Seq(File) /\ Len(fs) \in Nat
    BY <1>p, ConstantTypes DEF Executor
  <2>4. /\ e.sites = w[t].sites \cup {s}
        /\ e.batch = w[t].batch /\ w[t].batch \in Nat
        /\ e.sites \in SUBSET Site /\ e.total \in Nat
    BY <1>p, <2>3 DEF Executor
  <2>5. f.pc = "enum"
    BY <1>p DEF Executor
  <2>6. /\ c.type = "enumeration" /\ c.batch = e.batch
        /\ c.files = fs /\ c.sites = e.sites
    OBVIOUS
  <2>8. c \in Checkpoint
    <3> HIDE DEF e
    <3>. QED
      BY <2>3, <2>4 DEF Checkpoint, CheckpointTypes
  <2> HIDE DEF e, c, r, f
  <2>9. MayList(w[t])
    BY <1>1 DEF ListSite, At, MayList
  <2>10. ~Labels(f) /\ s \in c.sites
    BY <2>4, <2>5, <2>6 DEF Labels
  <2>. QED
    BY <2>2, <2>4, <2>6, <2>8, <2>9, <2>10, OnceListed
<1>2. CASE ~ListSite(t)
  <2> DEFINE P == {"enum", "list", "toRunning", "labelInit", "final"}
  <2>1. \E e : Become(t, e) /\ e.pc \in P
    <3>1. \A sites, total, batch :
            [w[t] EXCEPT !.pc = "enum", !.phase = "enumeration",
                         !.todo = Site \ sites, !.sites = sites,
                         !.total = total, !.batch = batch].pc = "enum"
      BY <1>p DEF Executor
    <3>2. \A s : [w[t] EXCEPT !.pc = "enum", !.todo = @ \ {s}].pc = "enum"
      BY <1>p DEF Executor
    <3>3. [w[t] EXCEPT !.pc = "list"].pc = "list"
      BY <1>p DEF Executor
    <3>4. [w[t] EXCEPT !.pc = "labelInit", !.st = "running"].pc = "labelInit"
      BY <1>p DEF Executor
    <3>5. \A pc : [w[t] EXCEPT !.st = job.status, !.pc = pc].pc = pc
      BY <1>p DEF Executor
    <3>6. CASE EnumInit(t)
      <4>1. PICK sites, total, batch : EnumFrom(t, sites, total, batch)
        BY <3>6 DEF EnumInit
      <4> DEFINE e == [w[t] EXCEPT !.pc = "enum", !.phase = "enumeration",
                                   !.todo = Site \ sites, !.sites = sites,
                                   !.total = total, !.batch = batch]
      <4>2. e.pc = "enum" /\ Become(t, e)
        BY <3>1, <4>1 DEF EnumFrom
      <4> HIDE DEF e
      <4>. QED
        BY <4>2
    <3>7. CASE SkipSite(t)
      BY <3>2, <3>7 DEF SkipSite
    <3>8. CASE NextSite(t)
      BY <3>3, <3>8 DEF NextSite, Goto
    <3>9. CASE ToRunning(t)
      BY <3>4, <3>9 DEF ToRunning, RunAndGoto
    <3>10. CASE AfterEnum(t)
      BY <3>5, <3>10 DEF AfterEnum
    <3>. QED
      BY <1>2, <3>6, <3>7, <3>8, <3>9, <3>10 DEF Enumerate
  <2>2. UNCHANGED <<cps, mem>>
    BY <1>2 DEF Enumerate, EnumInit, NextSite, SkipSite, AfterEnum,
                ToRunning, RunAndGoto
  <2>. QED
    BY <2>1, <2>2, HandMoves DEF Labels
<1>. QED
  BY <1>1, <1>2

LEMMA OnceLabel ==
  ASSUME OnceInv, LogInv', NEW t \in Task, LabelPhase(t)
  PROVE  LogOnce' /\ \A u \in Task : InHand(w[u], mem[u])'
<1>p. /\ w[t] \in Executor /\ Fits(w[t], mem[t]) /\ mem[t] \in Memory
      /\ job.dry \in BOOLEAN
  BY OnceParts, LogParts DEF ControlOK
<1>1. CASE LabelConfigFails(t)
  <2>1. [w[t] EXCEPT !.pc = "final", !.st = "failed"].pc = "final"
    BY <1>p DEF Executor
  <2>. QED
    BY <1>1, <2>1, HandMoves DEF LabelConfigFails, Labels
<1>2. CASE LabelInit(t)
  <2>1. CASE Goto(t, "final") /\ UNCHANGED <<cps, mem>>
    <3>1. [w[t] EXCEPT !.pc = "final"].pc = "final"
      BY <1>p DEF Executor
    <3>. QED
      BY <2>1, <3>1, HandMoves DEF Goto, Labels
  <2>2. ASSUME NEW index, NEW counted, NEW batch,
               LabelFrom(t, index, counted, batch)
        PROVE  LogOnce' /\ \A u \in Task : InHand(w[u], mem[u])'
    <3> DEFINE m == [NewMemory EXCEPT !.files = Manifest]
    <3>1. m.applied = <<>>
      BY DEF NewMemory
    <3>2. UNCHANGED cps /\ Remember(t, m) /\ \E e : Become(t, e)
      BY <2>2 DEF LabelFrom
    <3> HIDE DEF m
    <3>. QED
      BY <3>1, <3>2, HandKept, HandEmpty
  <2>. QED
    BY <1>2, <2>1, <2>2 DEF LabelInit, StartLabelling
<1>3. CASE NextBatch(t)
  <2>1. w[t].pc = "label" /\ UNCHANGED <<cps, mem>>
    BY <1>3 DEF NextBatch, At
  <2>2. mem[t].applied = <<>>
    BY <1>p, <2>1 DEF Fits, LabelFits, Labels
  <2>. QED
    BY <1>3, <2>1, <2>2, HandMoves DEF NextBatch, Goto
<1>4. CASE Capture(t)
  <2> DEFINE e == [w[t] EXCEPT !.pc = "apply"]
             m == [mem[t] EXCEPT !.previous = label[CurrentFile(t)]]
  <2>1. /\ e.index = w[t].index /\ e.k = w[t].k
        /\ m.files = mem[t].files /\ m.applied = mem[t].applied
    BY <1>p DEF Executor, Memory
  <2>2. /\ Become(t, e) /\ w[t].pc = "capture" /\ UNCHANGED cps
        /\ Remember(t, m) \/ UNCHANGED mem
    BY <1>4 DEF Capture, Goto, At
  <2> HIDE DEF e, m
  <2>3. Labels(w[t]) /\ InHand(w[t], mem[t])
    BY <2>2, OnceParts DEF Labels
  <2>4. InHand(e, m)
    BY <2>1, <2>3 DEF InHand
  <2>. QED
    BY <2>1, <2>2, <2>3, <2>4, HandMoves, HandKept
<1>5. CASE LabelFile(t) /\ ~Capture(t)
  <2>1. w[t].pc = "apply" => job.dry = FALSE
    BY <1>p DEF Fits, DryFits
  <2>2. /\ w[t].pc \in {"capture", "apply"} /\ UNCHANGED cps
        /\ \E n \in {0, 1} : FileDone(t, n)
        /\ Note(t, job.dry) \/ Forget(t)
    <3>1. CASE NoteDryRun(t)
      <4>1. job.dry = TRUE
        BY <1>p, <3>1 DEF NoteDryRun
      <4>. QED
        BY <3>1, <4>1 DEF NoteDryRun, At
    <3>2. CASE ApplyLabel(t)
      BY <2>1, <3>2 DEF ApplyLabel, At
    <3>3. CASE ApplyRefused(t) \/ ApplyUnknown(t)
      BY <3>3 DEF ApplyRefused, ApplyUnknown, At
    <3>. QED
      BY <1>5, <3>1, <3>2, <3>3 DEF LabelFile
  <2>. QED
    BY <2>2, HandFileDone
<1>6. CASE CommitBatch(t)
  <2> DEFINE e == w[t]
             end == e.index + e.k
             c == [type |-> "labelling", batch |-> e.batch, sites |-> {},
                   total |-> 0, files |-> <<>>, index |-> end,
                   counted |-> e.counted, applied |-> mem[t].applied]
             r == [job EXCEPT !.processed = e.counted]
             f == [e EXCEPT !.pc = "label", !.index = end, !.k = 0,
                            !.batch = @ + 1]
             m == [mem[t] EXCEPT !.applied = <<>>]
  <2>1. Commit(t, c, r, f, m) /\ w[t].pc = "labelCommit"
    BY <1>6 DEF CommitBatch, CommitBatchLeaving, At
  <2>2. end \in Nat
    BY <1>p DEF Executor
  <2>4. c \in Checkpoint
    BY <1>p, <2>2 DEF Executor, Memory, Checkpoint, CheckpointTypes
  <2>5. /\ c.type = "labelling" /\ c.batch = e.batch /\ c.index = end
        /\ c.applied = mem[t].applied
    OBVIOUS
  <2>7. m.applied = <<>>
    BY <1>p, EmptyMemory
  <2> HIDE DEF c, r, f, m
  <2>8. Labels(w[t])
    BY <2>1 DEF Labels
  <2>. QED
    BY <2>1, <2>4, <2>5, <2>7, <2>8, OnceLabelled
<1>7. CASE AfterLabel(t)
  <2>1. [w[t] EXCEPT !.pc = "complete", !.st = "running"].pc = "complete"
    BY <1>p DEF Executor
  <2>. QED
    BY <1>7, <2>1, HandMoves, HandLeave DEF AfterLabel, Labels
<1>8. CASE Complete(t)
  BY <1>8, HandLeave DEF Complete
<1>. QED
  BY <1>1, <1>2, <1>3, <1>4, <1>5, <1>6, <1>7, <1>8 DEF LabelPhase, LabelFile

LEMMA OnceRollBack ==
  ASSUME OnceInv, NEW t \in Task, RollBack(t)
  PROVE  LogOnce' /\ \A u \in Task : InHand(w[u], mem[u])'
<1>p. w[t] \in Executor
  BY OnceParts, LogParts
<1>1. CASE RollbackInit(t)
  <2>1. UNCHANGED cps /\ \E m : Remember(t, m)
    BY <1>1 DEF RollbackInit, RollbackInitAhead
  <2>2. \/ Goto(t, "rbEnd")
        \/ \E index, batch : RollbackFrom(t, index, batch)
    BY <1>1 DEF RollbackInit, RollbackInitAhead
  <2>3. [w[t] EXCEPT !.pc = "rbEnd"].pc = "rbEnd"
    BY <1>p DEF Executor
  <2>4. \A index, batch :
          [w[t] EXCEPT !.pc = "rb", !.phase = "rollback",
                       !.index = index, !.counted = index,
                       !.batch = batch, !.k = 0].pc = "rb"
    BY <1>p DEF Executor
  <2>5. \E e : Become(t, e) /\ ~Labels(e)
    <3>1. CASE Goto(t, "rbEnd")
      BY <2>3, <3>1 DEF Goto, Labels
    <3>2. CASE \E index, batch : RollbackFrom(t, index, batch)
      <4>1. PICK index, batch : RollbackFrom(t, index, batch)
        BY <3>2
      <4> DEFINE e == [w[t] EXCEPT !.pc = "rb", !.phase = "rollback",
                                   !.index = index, !.counted = index,
                                   !.batch = batch, !.k = 0]
      <4>2. e.pc = "rb" /\ Become(t, e)
        BY <2>4, <4>1 DEF RollbackFrom
      <4> HIDE DEF e
      <4>. QED
        BY <4>2 DEF Labels
    <3>. QED
      BY <2>2, <3>1, <3>2
  <2>. QED
    BY <2>1, <2>5, HandKept, HandEmpty
<1>2. CASE NextUndoBatch(t)
  <2>1. [w[t] EXCEPT !.pc = "undo"].pc = "undo"
    BY <1>p DEF Executor
  <2>. QED
    BY <1>2, <2>1, HandMoves DEF NextUndoBatch, Goto, Labels
<1>3. CASE Undo(t) \/ UndoFails(t)
  <2>1. PICK n \in {0, 1} : EntryDone(t, n)
    BY <1>3 DEF Undo, UndoUnless, UndoFails
  <2>2. UNCHANGED <<cps, mem>>
    BY <1>3 DEF Undo, UndoUnless, UndoFails
  <2>3. PICK e : Become(t, e) /\ e.pc \in {"rbCommit", "undo"}
    <3> DEFINE f(p) == [w[t] EXCEPT !.k = @ + 1, !.counted = @ + n, !.pc = p]
    <3>1. Become(t, f("rbCommit")) \/ Become(t, f("undo"))
      BY <2>1 DEF EntryDone
    <3>2. f("rbCommit").pc = "rbCommit" /\ f("undo").pc = "undo"
      BY <1>p DEF Executor
    <3> HIDE DEF f
    <3>. QED
      BY <3>1, <3>2
  <2>4. ~Labels(e)
    BY <2>3 DEF Labels
  <2>. QED
    BY <2>2, <2>3, <2>4, HandMoves
<1>4. CASE CommitUndo(t)
  <2> DEFINE e == w[t]
             c == [type |-> "rollback", batch |-> e.batch, sites |-> {},
                   total |-> 0, files |-> <<>>, index |-> e.counted,
                   counted |-> e.counted, applied |-> <<>>]
             f == [e EXCEPT !.pc = "rb", !.index = @ + e.k, !.k = 0,
                            !.batch = @ + 1]
  <2>1. Commit(t, c, job, f, mem[t])
    BY <1>4 DEF CommitUndo
  <2>2. f.pc = "rb" /\ c.type = "rollback"
    BY <1>p DEF Executor
  <2> HIDE DEF c, f
  <2>. QED
    BY <2>1, <2>2, OnceOther DEF Labels
<1>5. CASE AfterRollback(t)
  <2>1. [w[t] EXCEPT !.pc = "rbComplete", !.st = "rolling_back"].pc
          = "rbComplete"
    BY <1>p DEF Executor
  <2>. QED
    BY <1>5, <2>1, HandMoves, HandLeave DEF AfterRollback, AfterRollbackIf, Labels
<1>6. CASE RollbackComplete(t)
  BY <1>6, HandLeave DEF RollbackComplete
<1>. QED
  BY <1>1, <1>2, <1>3, <1>4, <1>5, <1>6 DEF RollBack

\* Every step keeps OnceInv.
LEMMA OnceStep ==
  ASSUME FilesInOnePlace, OnceInv, [Next]_vars
  PROVE  OnceInv'
<1>1. LogInv'
  BY StoreStep, OnceParts
<1>2. LogOnce' /\ \A u \in Task : InHand(w[u], mem[u])'
  <2>1. CASE ApiNext \/ UNCHANGED vars
    <3>1. UNCHANGED <<cps, w, mem>>
      BY <2>1 DEF ApiNext, UserRequest, Start, Pause, Resume, Cancel,
                  Rollback, Accept, ApiSettle, Dispatch, SendSignal,
                  LoseDispatch, SignalExpires, vars
    <3>2. /\ CpsOf("enumeration")' = CpsOf("enumeration")
          /\ CpsOf("labelling")' = CpsOf("labelling")
      BY <3>1 DEF CpsOf
    <3>3. LogOnce'
      BY <3>2, OnceParts, LogParts, LogOnceKept
    <3>. QED
      BY <3>1, <3>3, OnceParts DEF InHand, Labels
  <2>2. ASSUME NEW t \in Task, Work(t) \/ Disrupt(t)
        PROVE  LogOnce' /\ \A u \in Task : InHand(w[u], mem[u])'
    <3>1. CASE BeginTask(t)
      <4> DEFINE e == [NewExecutor EXCEPT
                    !.st = job.status,
                    !.pc = IF task[t].kind = "rollback" THEN "rbInit"
                           ELSE CASE job.status = "enumerating" -> "enumInit"
                                  [] job.status = "running" -> "labelInit"
                                  [] OTHER -> "final"]
      <4>1. e.pc \in {"rbInit", "enumInit", "labelInit", "final"}
        BY DEF NewExecutor
      <4>2. Become(t, e) /\ UNCHANGED <<cps, mem>>
        BY <3>1 DEF BeginTask
      <4> HIDE DEF e
      <4>. QED
        BY <4>1, <4>2, HandMoves DEF Labels
    <3>2. CASE Disrupt(t)
      <4>1. UNCHANGED cps /\ \E state : Leave(t, state)
        BY <3>2 DEF Disrupt, Crash, Die, Timeout, Raise, Abandon
      <4>. QED
        BY <4>1, HandLeave
    <3>. QED
      BY <1>1, <2>2, <3>1, <3>2, OnceSignalled, OnceEnumerate, OnceLabel,
         OnceRollBack DEF Work
  <2>. QED
    BY <2>1, <2>2 DEF Next, ExecutorNext
<1>. QED
  BY <1>1, <1>2 DEF OnceInv, LogOnce

LEMMA OnceInit == Init => OnceInv
<1>. SUFFICES ASSUME Init PROVE OnceInv
  OBVIOUS
<1>1. LogInv
  BY StoreInit
<1>2. CpsOf("enumeration") = {} /\ CpsOf("labelling") = {}
  BY DEF Init, CpsOf
<1>3. Manifest = <<>> /\ AllApplied = <<>>
  BY <1>2 DEF Batches, Manifest, AllApplied, FlattenSeq
<1>4. LogOnce
  BY <1>2, <1>3 DEF LogOnce, Distinct
<1>5. \A u \in Task : InHand(w[u], mem[u])
  BY DEF Init, NewExecutor, NewMemory, InHand, Labels
<1>. QED
  BY <1>1, <1>4, <1>5, OnceParts

\* If walking the tenant's drives finds a file in one place only, the
\* manifest holds it once, and however many executors label the same job
\* and wherever they are cut off, the log notes it for the rollback once.
THEOREM SpecEachFileLoggedOnce ==
  ASSUME FilesInOnePlace
  PROVE  Spec => []EachFileLoggedOnce
<1>1. OnceInv /\ [Next]_vars => OnceInv'
  BY OnceStep
<1>2. OnceInv => EachFileLoggedOnce
  <2> SUFFICES ASSUME OnceInv PROVE EachFileLoggedOnce
    OBVIOUS
  <2>1. DOMAIN AllApplied = 1 .. Len(AllApplied)
    BY OnceParts, LogParts
  <2>. QED
    BY <2>1, OnceParts DEF LogOnce, EachFileLoggedOnce
<1>. QED
  BY <1>1, <1>2, OnceInit, PTL DEF Spec

-----------------------------------------------------------------------------
(* A completed job has processed everything, if it is never resumed.       *)

RollbackPCs == { "rbInit", "rb", "undo", "rbCommit", "rbEnd", "rbComplete" }

\* The phase that e is in, whether it goes on or stops on a signal.
Enumerates(e) ==
  \/ e.pc \in { "enumInit", "enum", "list" }
  \/ e.pc \in { "ack", "stop" } /\ e.phase = "enumeration"

RollsBack(e) ==
  \/ e.pc \in RollbackPCs
  \/ e.pc \in { "ack", "stop" } /\ e.phase = "rollback"

\* A task does what it was enqueued for.
KindFits(t) ==
  Active(t) => (task[t].kind = "rollback" <=> RollsBack(w[t]))

\* A job that is never resumed is run once.
Dispatched == { t \in Task : task[t].kind = "run" /\ task[t].state # "none" }

RunOnce ==
  /\ owed["run"] <= 1
  /\ owed["run"] = 1 => Dispatched = {}
  /\ \A t, u \in Dispatched : t = u
  /\ job.status = "pending" => owed["run"] = 0 /\ Dispatched = {}

\* What CompletedMeansProcessed asks of the log.
Listed(S) == faults = 0 => \A s \in S : \E c \in cps : s \in c.sites

Processed ==
  Manifest # <<>> => \E c \in CpsOf("labelling") : c.index = Len(Manifest)

\* What the one run may rely on where it stands; once it has seen a signal
\* nobody sets the job going again.
RunFits(e, m) ==
  /\ Enumerates(e) => e.st = "enumerating"
  /\ Labels(e) \/ e.pc = "labelInit" => e.st = "running"
  /\ e.pc \in { "enum", "list" } => Listed(Site \ e.todo)
  /\ e.pc = "enumEnd" => job.status \notin { "pending", "enumerating", "running" }
  /\ e.pc = "toRunning" => Listed(Site)
  /\ Labels(e) => m.files = Manifest /\ Manifest # <<>>
  /\ e.pc = "final" /\ job.status = "running" => Processed
  /\ e.pc = "complete" => Listed(Site) /\ Processed

RunInv ==
  /\ RunOnce
  /\ \A t \in Task : KindFits(t)
  /\ \A t \in Task : Active(t) /\ task[t].kind = "run" => RunFits(w[t], mem[t])
  /\ job.status \in { "running", "completed" } => Listed(Site)
  /\ job.status = "completed" =>
       /\ Processed
       /\ \E t \in Dispatched : task[t].state = "done"

WholeInv == LogInv /\ RunInv


\* What the proofs below take from the invariant.
LEMMA WholeParts ==
  ASSUME WholeInv
  PROVE  /\ LogInv /\ RunInv /\ ControlOK /\ DataOK
         /\ job \in [status : Statuses, total : Nat, processed : Nat, dry : BOOLEAN]
         /\ task \in [Task -> TaskRow] /\ w \in [Task -> Executor]
         /\ mem \in [Task -> Memory] /\ owed \in [Debts -> Nat] /\ faults \in Nat
         /\ \A t \in Task : PhaseFits(w[t]) /\ Fits(w[t], mem[t])
<1>1. LogInv /\ RunInv /\ ControlOK /\ DataOK
  BY LogParts DEF WholeInv
<1>2. faults \in Nat
  BY <1>1, ConstantTypes DEF ControlOK
<1>. QED
  BY <1>1, <1>2, LogParts DEF ControlOK, DataOK

\* A step that enqueues no task and owes no run.
TasksGoOn ==
  /\ \A u \in Task :
       /\ task'[u].kind = task[u].kind
       /\ task'[u].state = "none" <=> task[u].state = "none"
       /\ task[u].state = "done" => task'[u].state = "done"
  /\ owed'["run"] = owed["run"]
  /\ job'.status = "pending" => job.status = "pending"

LEMMA GoOnOnce ==
  ASSUME RunInv, TasksGoOn
  PROVE  /\ Dispatched' = Dispatched /\ RunOnce'
         /\ \A u \in Dispatched : task[u].state = "done" => task'[u].state = "done"
<1>1. Dispatched' = Dispatched
  BY DEF Dispatched, TasksGoOn
<1>2. RunOnce'
  BY <1>1 DEF RunInv, RunOnce, TasksGoOn
<1>. QED
  BY <1>1, <1>2 DEF TasksGoOn, Dispatched

\* A step that leaves the log of the run alone and sets nothing going.
Harmless ==
  /\ CpsOf("enumeration")' = CpsOf("enumeration")
  /\ CpsOf("labelling")' = CpsOf("labelling")
  /\ cps \subseteq cps' /\ faults' \in Nat /\ faults <= faults'
  /\ job'.status \in {job.status, "paused", "failed", "rolling_back", "rolled_back"}

LEMMA HarmlessKeeps ==
  ASSUME WholeInv, Harmless
  PROVE  /\ Manifest' = Manifest
         /\ Processed => Processed'
         /\ Listed(Site) => Listed(Site)'
         /\ job'.status \in { "running", "completed" } => Listed(Site)'
         /\ job'.status = "completed" => Processed'
<1>1. Manifest' = Manifest
  BY WholeParts, LogParts, ManifestKept DEF Harmless
<1>2. Processed => Processed'
  BY <1>1 DEF Processed, Harmless
<1>3. faults \in Nat /\ (faults' = 0 => faults = 0)
  BY WholeParts DEF Harmless
<1>4. Listed(Site) => Listed(Site)'
  BY <1>3 DEF Listed, Harmless
<1>. QED
  BY <1>1, <1>2, <1>4, WholeParts DEF RunInv, Harmless

\* An executor that such a step leaves alone.
LEMMA HarmlessFits ==
  ASSUME WholeInv, Harmless, NEW u \in Task, RunFits(w[u], mem[u]),
         w'[u] = w[u], mem'[u] = mem[u]
  PROVE  RunFits(w[u], mem[u])'
<1> DEFINE e == w[u]
           m == mem[u]
<1>1. /\ Manifest' = Manifest
      /\ Processed => Processed'
      /\ Listed(Site) => Listed(Site)'
  BY HarmlessKeeps
<1>2. faults \in Nat /\ (faults' = 0 => faults = 0)
  BY WholeParts DEF Harmless
<1>3. w'[u].pc \in { "enum", "list" } => Listed(Site \ w[u].todo)'
  <2>1. w[u].pc \in { "enum", "list" } =>
          (faults = 0 => \A s \in Site \ w[u].todo : \E c \in cps : s \in c.sites)
    BY DEF RunFits, Listed
  <2>2. w[u].pc \in { "enum", "list" } =>
          (faults' = 0 => \A s \in Site \ w'[u].todo : \E c \in cps' : s \in c.sites)
    BY <1>2, <2>1 DEF Harmless
  <2>. QED
    BY <2>2 DEF Listed
<1>4. /\ Enumerates(w[u])' => w'[u].st = "enumerating"
      /\ Labels(w[u])' \/ w'[u].pc = "labelInit" => w'[u].st = "running"
      /\ Labels(w[u])' => mem'[u].files = Manifest' /\ Manifest' # <<>>
  BY <1>1 DEF RunFits, Enumerates, Labels
<1>5. /\ w'[u].pc = "enumEnd" =>
           job'.status \notin { "pending", "enumerating", "running" }
      /\ w'[u].pc = "toRunning" => Listed(Site)'
      /\ w'[u].pc = "final" /\ job'.status = "running" => Processed'
      /\ w'[u].pc = "complete" => Listed(Site)' /\ Processed'
  BY <1>1 DEF RunFits, Harmless
<1>. QED
  BY <1>3, <1>4, <1>5 DEF RunFits

\* A step of the executor t: the run is the one there is, and a rollback
\* does it no harm.
LEMMA OneExecutor ==
  ASSUME WholeInv, NEW t \in Task, TasksGoOn,
         \A u \in Task : u # t =>
           task'[u] = task[u] /\ w'[u] = w[u] /\ mem'[u] = mem[u],
         KindFits(t)',
         \/ task[t].kind # "run" /\ Harmless
         \/ /\ task[t].kind = "run" /\ task[t].state # "none"
            /\ Active(t)' => RunFits(w[t], mem[t])'
            /\ job'.status \in { "running", "completed" } => Listed(Site)'
            /\ job'.status = "completed" =>
                 Processed' /\ (task'[t].state = "done" \/ job.status = "completed")
  PROVE  RunInv'
<1>1. RunInv
  BY WholeParts
<1>2. /\ Dispatched' = Dispatched /\ RunOnce'
      /\ \A u \in Dispatched : task[u].state = "done" => task'[u].state = "done"
  BY <1>1, GoOnOnce
<1>3. \A u \in Task : KindFits(u)'
  <2> SUFFICES ASSUME NEW u \in Task, u # t PROVE KindFits(u)'
    OBVIOUS
  <2>1. KindFits(u)
    BY <1>1 DEF RunInv
  <2>. QED
    BY <2>1 DEF KindFits, Active, RollsBack
<1>4. \A u \in Task : task'[u].kind = task[u].kind
  BY DEF TasksGoOn
<1>5. ASSUME NEW u \in Task, Active(u)', task'[u].kind = "run"
      PROVE  RunFits(w[u], mem[u])'
  <2>1. CASE u = t
    BY <1>4, <1>5, <2>1
  <2>2. CASE u # t
    <3>1. Active(u) /\ task[u].kind = "run"
      BY <1>5, <2>2 DEF Active
    <3>2. u \in Dispatched
      BY <3>1 DEF Dispatched, Active
    <3>3. task[t].kind # "run" \/ task[t].state = "none"
      BY <1>1, <2>2, <3>2 DEF RunInv, RunOnce, Dispatched
    <3>4. RunFits(w[u], mem[u])
      BY <1>1, <3>1 DEF RunInv
    <3>. QED
      BY <2>2, <3>3, <3>4, HarmlessFits
  <2>. QED
    BY <2>1, <2>2
<1>6. CASE task[t].kind # "run" /\ Harmless
  <2>1. job'.status = "completed" => job.status = "completed"
    BY <1>6 DEF Harmless
  <2>. QED
    BY <1>1, <1>2, <1>3, <1>5, <1>6, <2>1, HarmlessKeeps DEF RunInv
<1>7. CASE task[t].kind = "run" /\ task[t].state # "none"
  <2>1. t \in Dispatched
    BY <1>7 DEF Dispatched
  <2>2. job'.status = "completed" => \E u \in Dispatched' : task'[u].state = "done"
    BY <1>1, <1>2, <1>7, <2>1 DEF RunInv
  <2>. QED
    BY <1>2, <1>3, <1>5, <1>7, <2>2 DEF RunInv
<1>. QED
  BY <1>6, <1>7


\* An executor that has left, or was cut off, does nothing wrong any more.
LEMMA LeftTheRun ==
  ASSUME WholeInv, NEW t \in Task, Active(t), NEW state \in {"queued", "done"},
         Leave(t, state), UNCHANGED <<cps, owed>>,
         faults' \in Nat, faults <= faults',
         \/ job'.status \in {job.status, "paused", "failed", "rolling_back", "rolled_back"}
         \/ /\ task[t].kind = "run" /\ state = "done" /\ job'.status = "completed"
            /\ Processed /\ Listed(Site)
  PROVE  RunInv'
<1>p. /\ task \in [Task -> TaskRow] /\ w \in [Task -> Executor]
      /\ mem \in [Task -> Memory] /\ RunInv /\ job.status \in Statuses
  BY WholeParts
<1>1. /\ task' = [task EXCEPT ![t].state = state]
      /\ w' = [w EXCEPT ![t] = NewExecutor] /\ mem' = [mem EXCEPT ![t] = NewMemory]
  BY DEF Leave, Become, Remember
<1>2. /\ \A u \in Task : u # t =>
           task'[u] = task[u] /\ w'[u] = w[u] /\ mem'[u] = mem[u]
      /\ task'[t].kind = task[t].kind /\ task'[t].state = state
      /\ task[t].state = "running"
  BY <1>p, <1>1 DEF TaskRow, Active
<1>3. TasksGoOn
  <2>1. \A u \in Task :
          /\ task'[u].kind = task[u].kind
          /\ task'[u].state = "none" <=> task[u].state = "none"
          /\ task[u].state = "done" => task'[u].state = "done"
    BY <1>2
  <2>2. job'.status = "pending" => job.status = "pending"
    OBVIOUS
  <2>. QED
    BY <2>1, <2>2 DEF TasksGoOn
<1>4. KindFits(t)' /\ ~Active(t)'
  BY <1>2 DEF KindFits, Active
<1>5. /\ CpsOf("enumeration")' = CpsOf("enumeration")
      /\ CpsOf("labelling")' = CpsOf("labelling")
  BY DEF CpsOf
<1>6. CASE job'.status \in {job.status, "paused", "failed", "rolling_back", "rolled_back"}
  <2>1. Harmless
    BY <1>5, <1>6 DEF Harmless
  <2>2. /\ job'.status \in { "running", "completed" } => Listed(Site)'
        /\ job'.status = "completed" => Processed'
    BY <2>1, HarmlessKeeps
  <2>3. job'.status = "completed" => job.status = "completed"
    BY <1>6
  <2>. QED
    BY <1>2, <1>3, <1>4, <2>1, <2>2, <2>3, OneExecutor
<1>7. CASE /\ task[t].kind = "run" /\ state = "done" /\ job'.status = "completed"
           /\ Processed /\ Listed(Site)
  <2>1. Manifest' = Manifest
    BY <1>5, WholeParts, LogParts, ManifestKept
  <2>2. Processed'
    BY <1>5, <1>7, <2>1 DEF Processed
  <2>3. Listed(Site)'
    <3>1. faults \in Nat /\ (faults' = 0 => faults = 0)
      BY WholeParts
    <3>. QED
      BY <1>7, <3>1 DEF Listed
  <2>. QED
    BY <1>2, <1>3, <1>4, <1>7, <2>2, <2>3, OneExecutor
<1>. QED
  BY <1>6, <1>7

LEMMA AbandonedRun ==
  ASSUME WholeInv, NEW t \in Task, Active(t), NEW state \in {"queued", "done"},
         Abandon(t, state), UNCHANGED <<cps, owed>>,
         faults' \in Nat, faults <= faults',
         job'.status \in {job.status, "paused", "failed", "rolling_back", "rolled_back"}
  PROVE  RunInv'
BY LeftTheRun DEF Abandon

\* The executor of an active t goes on as e with memory m.
LEMMA RunMoves ==
  ASSUME WholeInv, NEW t \in Task, Active(t), NEW e, NEW m,
         Become(t, e), Remember(t, m), UNCHANGED <<task, owed>>,
         job'.status = "pending" => job.status = "pending",
         task[t].kind = "rollback" <=> RollsBack(e),
         \/ task[t].kind # "run" /\ Harmless
         \/ /\ task[t].kind = "run"
            /\ RunFits(w[t], mem[t])'
            /\ job'.status \in { "running", "completed" } => Listed(Site)'
            /\ job'.status # "completed"
  PROVE  RunInv'
<1>p. /\ task \in [Task -> TaskRow] /\ w \in [Task -> Executor]
      /\ mem \in [Task -> Memory]
  BY WholeParts
<1>1. /\ \A u \in Task : u # t =>
           task'[u] = task[u] /\ w'[u] = w[u] /\ mem'[u] = mem[u]
      /\ w'[t] = e /\ task'[t] = task[t]
  BY <1>p DEF Become, Remember
<1>2. TasksGoOn
  BY DEF TasksGoOn
<1>3. KindFits(t)'
  BY <1>1 DEF KindFits, RollsBack
<1>4. task[t].state # "none"
  BY DEF Active
<1>. QED
  BY <1>1, <1>2, <1>3, <1>4, OneExecutor

\* While the one run goes on the job is not completed.
LEMMA RunGoesOn ==
  ASSUME WholeInv, NEW t \in Task, Active(t), task[t].kind = "run"
  PROVE  /\ RunFits(w[t], mem[t]) /\ ~RollsBack(w[t])
         /\ job.status # "completed"
         /\ job.status = "running" => Listed(Site)
<1>1. RunInv
  BY WholeParts
<1>2. t \in Dispatched /\ task[t].state # "done"
  BY DEF Dispatched, Active
<1>3. job.status # "completed"
  BY <1>1, <1>2 DEF RunInv, RunOnce
<1>. QED
  BY <1>1, <1>3 DEF RunInv, KindFits

LEMMA BeginTaskRun ==
  ASSUME WholeInv, NEW t \in Task, BeginTask(t)
  PROVE  RunInv'
<1>p. /\ task \in [Task -> TaskRow] /\ w \in [Task -> Executor]
      /\ mem \in [Task -> Memory] /\ RunInv
  BY WholeParts
<1>1. PICK pc : /\ pc = IF task[t].kind = "rollback" THEN "rbInit"
                        ELSE CASE job.status = "enumerating" -> "enumInit"
                               [] job.status = "running" -> "labelInit"
                               [] OTHER -> "final"
                /\ w' = [w EXCEPT ![t] = [NewExecutor EXCEPT !.st = job.status,
                                                             !.pc = pc]]
  BY DEF BeginTask, Become
<1>2. /\ task'[t].kind = task[t].kind /\ task'[t].state = "running"
      /\ task[t].state = "queued"
      /\ \A u \in Task : u # t =>
           task'[u] = task[u] /\ w'[u] = w[u] /\ mem'[u] = mem[u]
      /\ UNCHANGED <<job, cps, faults, owed>>
  BY <1>p DEF BeginTask, TaskRow
<1>3. w'[t].pc = pc /\ w'[t].st = job.status
  BY <1>p, <1>1 DEF NewExecutor
<1>4. TasksGoOn
  BY <1>2 DEF TasksGoOn
<1>5. task[t].kind \in {"run", "rollback"}
  BY <1>p DEF TaskRow
<1>6. Harmless
  <2>1. faults \in Nat
    BY WholeParts
  <2>. QED
    BY <1>2, <2>1 DEF Harmless, CpsOf
<1>7. KindFits(t)'
  <2>1. task[t].kind = "rollback" => pc = "rbInit"
    BY <1>1
  <2>2. task[t].kind = "run" => pc \in {"enumInit", "labelInit", "final"}
    BY <1>1
  <2>. QED
    BY <1>2, <1>3, <1>5, <2>1, <2>2 DEF KindFits, RollsBack, RollbackPCs
<1>8. CASE task[t].kind = "run"
  <2>1. pc = IF job.status = "enumerating" THEN "enumInit"
             ELSE IF job.status = "running" THEN "labelInit" ELSE "final"
    BY <1>1, <1>8
  <2>2. RunFits(w[t], mem[t])'
    BY <1>2, <1>3, <2>1 DEF RunFits, Enumerates, Labels
  <2>. QED
    BY <1>2, <1>4, <1>6, <1>7, <1>8, <2>2, HarmlessKeeps, OneExecutor
<1>9. CASE task[t].kind # "run"
  BY <1>2, <1>4, <1>6, <1>7, <1>9, OneExecutor
<1>. QED
  BY <1>8, <1>9

LEMMA DisruptRun ==
  ASSUME WholeInv, NEW t \in Task, Disrupt(t)
  PROVE  RunInv'
<1>1. faults \in Nat
  BY WholeParts
<1>2. CASE Crash(t)
  <2>1. Active(t) /\ \E state \in {"queued", "done"} : Abandon(t, state)
    BY <1>2 DEF Crash, Die
  <2>2. UNCHANGED <<job, cps, owed, faults>>
    BY <1>2 DEF Crash, Die
  <2>. QED
    BY <1>1, <2>1, <2>2, AbandonedRun
<1>3. CASE Timeout(t) \/ Raise(t)
  <2>1. Active(t) /\ Abandon(t, "done") /\ UNCHANGED <<cps, owed>>
    BY <1>3 DEF Timeout, Raise
  <2>2. faults' = faults + 1
    BY <1>3 DEF Timeout, Raise, Fault
  <2>3. job'.status \in {job.status, "failed"}
    BY <1>3, WholeParts DEF Timeout, Raise
  <2>. QED
    BY <1>1, <2>1, <2>2, <2>3, AbandonedRun
<1>. QED
  BY <1>2, <1>3 DEF Disrupt


\* A step that touches neither the log nor the row.
LEMMA StillHarmless ==
  ASSUME WholeInv, UNCHANGED <<cps, faults>>,
         job'.status \in {job.status, "paused", "failed", "rolling_back", "rolled_back"}
  PROVE  Harmless
<1>1. faults \in Nat
  BY WholeParts
<1>. QED
  BY <1>1 DEF Harmless, CpsOf

\* A checkpoint of the rollback, or none.
LEMMA CommitHarmless ==
  ASSUME WholeInv, NEW t \in Task, NEW c, NEW r, NEW e, NEW m,
         Commit(t, c, r, e, m), c.type = "rollback", UNCHANGED faults,
         r.status \in {job.status, "paused", "failed"}
  PROVE  Harmless
<1>1. faults \in Nat
  BY WholeParts
<1>2. cps' = cps \/ cps' = cps \cup {c}
  BY DEF Commit
<1>3. job'.status \in {job.status, "paused", "failed"}
  BY DEF Commit
<1>. QED
  BY <1>1, <1>2, <1>3 DEF Harmless, CpsOf

LEMMA SignalledRun ==
  ASSUME WholeInv, NEW t \in Task, Signalled(t)
  PROVE  RunInv'
<1>p. /\ w[t] \in Executor /\ PhaseFits(w[t]) /\ task \in [Task -> TaskRow]
      /\ mem \in [Task -> Memory] /\ w \in [Task -> Executor]
      /\ job \in [status : Statuses, total : Nat, processed : Nat, dry : BOOLEAN]
      /\ mem[t] \in Memory /\ KindFits(t)
  BY WholeParts DEF RunInv
<1>a. Active(t)
  BY DEF Signalled, SeeSignal, AckSignal, StopOnSignal, At
<1>k. task[t].kind \in {"run", "rollback"}
  BY <1>p DEF TaskRow
<1>1. CASE SeeSignal(t) \/ AckSignal(t)
  <2>1. PICK e : /\ Become(t, e) /\ e.phase = w[t].phase /\ e.st = w[t].st
                 /\ e.pc \in {"ack", "stop"}
    <3>1. /\ [w[t] EXCEPT !.pc = "ack", !.seen = signal].pc = "ack"
          /\ [w[t] EXCEPT !.pc = "ack", !.seen = signal].phase = w[t].phase
          /\ [w[t] EXCEPT !.pc = "ack", !.seen = signal].st = w[t].st
          /\ [w[t] EXCEPT !.pc = "stop"].pc = "stop"
          /\ [w[t] EXCEPT !.pc = "stop"].phase = w[t].phase
          /\ [w[t] EXCEPT !.pc = "stop"].st = w[t].st
      BY <1>p DEF Executor
    <3>2. \/ Become(t, [w[t] EXCEPT !.pc = "ack", !.seen = signal])
          \/ Become(t, [w[t] EXCEPT !.pc = "stop"])
      BY <1>1 DEF SeeSignal, AckSignal, Goto
    <3>. QED
      BY <3>1, <3>2
  <2>2. /\ UNCHANGED <<cps, mem, task, owed, faults, job>>
        /\ w[t].pc \in {"enum", "list", "label", "rb", "ack"}
    BY <1>1 DEF SeeSignal, AckSignal, At
  <2>3. Remember(t, mem[t])
    BY <1>p, <2>2 DEF Remember
  <2>4. RollsBack(e) <=> RollsBack(w[t])
    BY <1>p, <2>1, <2>2 DEF RollsBack, RollbackPCs, PhaseFits
  <2>5. Harmless
    BY <1>p, <2>2, StillHarmless
  <2>6. CASE task[t].kind = "run"
    <3>1. RunFits(w[t], mem[t]) /\ job.status # "completed"
      BY <1>a, <2>6, RunGoesOn
    <3>2. w'[t] = e /\ mem'[t] = mem[t] /\ Manifest' = Manifest
      BY <1>p, <2>1, <2>2, <2>5, HarmlessKeeps DEF Become
    <3>3. (Enumerates(e) => Enumerates(w[t])) /\ (Labels(e) => Labels(w[t]))
      BY <1>p, <2>1, <2>2 DEF Enumerates, Labels, PhaseFits
    <3>4. RunFits(w[t], mem[t])'
      BY <2>1, <3>1, <3>2, <3>3 DEF RunFits, Enumerates, Labels
    <3>. QED
      BY <1>a, <1>p, <2>1, <2>2, <2>3, <2>4, <2>5, <2>6, <3>1, <3>4, RunMoves,
         HarmlessKeeps DEF KindFits
  <2>7. CASE task[t].kind # "run"
    BY <1>a, <1>p, <2>1, <2>2, <2>3, <2>4, <2>5, <2>7, RunMoves DEF KindFits
  <2>. QED
    BY <2>6, <2>7
<1>2. CASE StopOnSignal(t)
  <2> DEFINE e == w[t]
             s == IF e.seen = "pause" THEN "paused" ELSE "failed"
             c == [type |-> e.phase, batch |-> e.batch,
                   sites |-> e.sites, total |-> e.total, files |-> <<>>,
                   index |-> IF e.phase = "rollback" THEN e.counted
                             ELSE e.index,
                   counted |-> e.counted, applied |-> <<>>]
             r == [job EXCEPT !.status = WithStatus(t, s)]
             f == [e EXCEPT !.st = s,
                            !.pc = CASE e.phase = "enumeration" -> "enumEnd"
                                     [] e.phase = "labelling" -> "final"
                                     [] OTHER -> "rbEnd"]
  <2>1. /\ Commit(t, c, r, f, mem[t]) /\ w[t].pc = "stop"
        /\ UNCHANGED <<owed, faults>>
    BY <1>2 DEF StopOnSignal, At, Commit
  <2>2. /\ e.phase = "enumeration" => f.pc = "enumEnd"
        /\ e.phase = "labelling" => f.pc = "final"
        /\ e.phase = "rollback" => f.pc = "rbEnd"
    BY <1>p DEF Executor
  <2>3. c.type = e.phase /\ r.status \in {job.status, "paused", "failed"}
        /\ (e.st \notin {"paused", "failed"} => r.status \in {"paused", "failed"})
    BY <1>p DEF WithStatus
  <2> HIDE DEF c, r, f, s
  <2>p. e.phase \in {"enumeration", "labelling", "rollback"}
    BY <1>p DEF Executor, CheckpointTypes
  <2>4. CASE ~Insertable(c.type, c.batch)
    <3>1. Abandon(t, "done") /\ UNCHANGED <<cps, job>>
      BY <2>1, <2>4 DEF Commit
    <3>. QED
      BY <1>a, <2>1, <3>1, WholeParts, AbandonedRun
  <2>5. CASE Insertable(c.type, c.batch)
    <3>1. /\ Become(t, f) /\ Remember(t, mem[t]) /\ UNCHANGED task /\ job' = r
      BY <2>1, <2>5 DEF Commit
    <3>2. job'.status = "pending" => job.status = "pending"
      BY <2>3, <3>1
    <3>3. RollsBack(f) <=> e.phase = "rollback"
      BY <2>2, <2>p DEF RollsBack, RollbackPCs
    <3>4. RollsBack(e) <=> e.phase = "rollback"
      BY <2>1 DEF RollsBack, RollbackPCs
    <3>5. CASE task[t].kind = "run"
      <4>1. RunFits(e, mem[t]) /\ ~RollsBack(e)
        BY <1>a, <3>5, RunGoesOn
      <4>2. e.phase \in {"enumeration", "labelling"}
        BY <2>p, <3>4, <4>1
      <4>3. e.st \in {"enumerating", "running"}
        BY <2>1, <4>1, <4>2 DEF RunFits, Enumerates, Labels
      <4>4. job'.status \in {"paused", "failed"}
        BY <2>3, <3>1, <4>3
      <4>5. w'[t] = f
        BY <1>p, <3>1 DEF Become
      <4>6. f.pc \in {"enumEnd", "final"}
        BY <2>2, <4>2
      <4>7. RunFits(w[t], mem[t])'
        BY <4>4, <4>5, <4>6 DEF RunFits, Enumerates, Labels
      <4>. QED
        BY <1>a, <2>1, <3>1, <3>2, <3>3, <3>4, <3>5, <4>1, <4>4, <4>7, RunMoves
    <3>6. CASE task[t].kind = "rollback"
      <4>1. e.phase = "rollback"
        BY <1>a, <1>p, <3>4, <3>6 DEF KindFits
      <4>2. Harmless
        BY <2>1, <2>3, <4>1, CommitHarmless
      <4>. QED
        BY <1>a, <2>1, <3>1, <3>2, <3>3, <3>6, <4>1, <4>2, RunMoves
    <3>. QED
      BY <1>k, <3>5, <3>6
  <2>. QED
    BY <2>4, <2>5
<1>. QED
  BY <1>1, <1>2 DEF Signalled


\* The run goes on outside of its commits: the log is as it was.
LEMMA RunStays ==
  ASSUME WholeInv, NEW t \in Task, Active(t), task[t].kind = "run",
         NEW e, NEW m, Become(t, e), Remember(t, m),
         UNCHANGED <<cps, task, owed>>, faults' \in Nat, faults <= faults',
         job'.status \in {job.status, "failed"} \/
           (job'.status = "running" /\ Listed(Site)),
         ~RollsBack(e), RunFits(w[t], mem[t])'
  PROVE  RunInv'
<1>1. job.status # "completed" /\ (job.status = "running" => Listed(Site))
  BY RunGoesOn
<1>2. Listed(Site) => Listed(Site)'
  <2>1. faults \in Nat /\ (faults' = 0 => faults = 0)
    BY WholeParts
  <2>. QED
    BY <2>1 DEF Listed
<1>. QED
  BY <1>1, <1>2, RunMoves

LEMMA EnumerateRun ==
  ASSUME WholeInv, NEW t \in Task, Enumerate(t)
  PROVE  RunInv'
<1>p. /\ w[t] \in Executor /\ PhaseFits(w[t]) /\ task \in [Task -> TaskRow]
      /\ mem \in [Task -> Memory] /\ w \in [Task -> Executor] /\ faults \in Nat
      /\ job \in [status : Statuses, total : Nat, processed : Nat, dry : BOOLEAN]
      /\ KindFits(t)
  BY WholeParts DEF RunInv
<1>a. /\ Active(t)
      /\ w[t].pc \in {"enumInit", "enum", "list", "enumEnd", "toRunning"}
  BY DEF Enumerate, EnumInit, NextSite, ListSite, SkipSite, AfterEnum, ToRunning,
         RunAndGoto, At
<1>k. task[t].kind = "run"
  <2>1. ~RollsBack(w[t])
    BY <1>a DEF RollsBack, RollbackPCs
  <2>. QED
    BY <1>a, <1>p, <2>1 DEF KindFits, TaskRow
<1>f. /\ RunFits(w[t], mem[t]) /\ job.status # "completed"
      /\ job.status = "running" => Listed(Site)
  BY <1>a, <1>k, RunGoesOn
<1>1. CASE EnumInit(t)
  <2>1. PICK sites, total, batch :
           /\ EnumFrom(t, sites, total, batch)
           /\ \A s \in sites : \E c \in cps : s \in c.sites
    <3>1. CASE CpsOf("enumeration") = {} /\ EnumFrom(t, {}, 0, 0)
      BY <3>1
    <3>2. ASSUME NEW c \in Latest(CpsOf("enumeration")),
                 EnumFrom(t, c.sites, c.total, c.batch + 1)
          PROVE  \E sites, total, batch :
                   /\ EnumFrom(t, sites, total, batch)
                   /\ \A s \in sites : \E d \in cps : s \in d.sites
      <4>1. c \in cps
        BY DEF Latest, CpsOf
      <4>. QED
        BY <3>2, <4>1
    <3>. QED
      BY <1>1, <3>1, <3>2 DEF EnumInit
  <2> DEFINE e == [w[t] EXCEPT !.pc = "enum", !.phase = "enumeration",
                               !.todo = Site \ sites, !.sites = sites,
                               !.total = total, !.batch = batch]
  <2>2. /\ e.pc = "enum" /\ e.todo = Site \ sites /\ e.st = w[t].st
    BY <1>p DEF Executor
  <2>3. Become(t, e) /\ UNCHANGED <<cps, mem, task, owed, faults, job>>
        /\ w[t].pc = "enumInit"
    BY <1>1, <2>1 DEF EnumFrom, EnumInit, At
  <2> HIDE DEF e
  <2>4. Remember(t, mem[t]) /\ w'[t] = e
    BY <1>p, <2>3 DEF Remember, Become
  <2>5. Listed(Site \ w[t].todo)'
    BY <2>1, <2>2, <2>3, <2>4 DEF Listed
  <2>6. w[t].st = "enumerating"
    BY <1>f, <2>3 DEF RunFits, Enumerates
  <2>7. RunFits(w[t], mem[t])'
    BY <2>2, <2>4, <2>5, <2>6 DEF RunFits, Enumerates, Labels
  <2>. QED
    BY <1>a, <1>k, <1>p, <2>2, <2>3, <2>4, <2>7, RunStays DEF RollsBack, RollbackPCs
<1>2. CASE NextSite(t)
  <2> DEFINE e == [w[t] EXCEPT !.pc = "list"]
  <2>1. e.pc = "list" /\ e.todo = w[t].todo /\ e.st = w[t].st
    BY <1>p DEF Executor
  <2>2. Become(t, e) /\ UNCHANGED <<cps, mem, task, owed, faults, job>>
        /\ w[t].pc = "enum"
    BY <1>2 DEF NextSite, Goto, At
  <2> HIDE DEF e
  <2>3. Remember(t, mem[t]) /\ w'[t] = e
    BY <1>p, <2>2 DEF Remember, Become
  <2>4. Listed(Site \ w[t].todo) /\ w[t].st = "enumerating"
    BY <1>f, <2>2 DEF RunFits, Enumerates
  <2>5. Listed(Site \ w[t].todo)'
    BY <2>1, <2>2, <2>3, <2>4 DEF Listed
  <2>6. RunFits(w[t], mem[t])'
    BY <2>1, <2>3, <2>4, <2>5 DEF RunFits, Enumerates, Labels
  <2>. QED
    BY <1>a, <1>k, <1>p, <2>1, <2>2, <2>3, <2>6, RunStays DEF RollsBack, RollbackPCs
<1>3. CASE SkipSite(t)
  <2>1. PICK s \in w[t].todo :
          Become(t, [w[t] EXCEPT !.pc = "enum", !.todo = @ \ {s}])
    BY <1>3 DEF SkipSite
  <2> DEFINE e == [w[t] EXCEPT !.pc = "enum", !.todo = @ \ {s}]
  <2>2. e.pc = "enum" /\ e.st = w[t].st
    BY <1>p DEF Executor
  <2>3. /\ Become(t, e) /\ UNCHANGED <<cps, mem, task, owed, job>>
        /\ faults' = faults + 1 /\ w[t].pc = "list"
    BY <1>3, <2>1 DEF SkipSite, Fault, At
  <2> HIDE DEF e
  <2>4. Remember(t, mem[t]) /\ w'[t] = e
    BY <1>p, <2>3 DEF Remember, Become
  <2>5. faults' # 0 /\ faults' \in Nat /\ faults <= faults'
    BY <1>p, <2>3
  <2>6. w[t].st = "enumerating"
    BY <1>f, <2>3 DEF RunFits, Enumerates
  <2>7. RunFits(w[t], mem[t])'
    BY <2>2, <2>4, <2>5, <2>6 DEF RunFits, Enumerates, Labels, Listed
  <2>. QED
    BY <1>a, <1>k, <2>2, <2>3, <2>4, <2>5, <2>7, RunStays DEF RollsBack, RollbackPCs
<1>4. CASE AfterEnum(t)
  <2> DEFINE pc == CASE job.status = "enumerating" -> "toRunning"
                     [] job.status = "running" -> "labelInit"
                     [] OTHER -> "final"
             e == [w[t] EXCEPT !.st = job.status, !.pc = pc]
  <2>1. e.pc = pc /\ e.st = job.status
    BY <1>p DEF Executor
  <2>2. Become(t, e) /\ UNCHANGED <<cps, mem, task, owed, faults, job>>
    BY <1>4 DEF AfterEnum
  <2>3. pc = IF job.status = "enumerating" THEN "toRunning"
             ELSE IF job.status = "running" THEN "labelInit" ELSE "final"
    OBVIOUS
  <2> HIDE DEF e, pc
  <2>4. Remember(t, mem[t]) /\ w'[t] = e
    BY <1>p, <2>2 DEF Remember, Become
  <2>5. job.status \in {"enumerating", "running"} => Listed(Site)
    <3>1. CASE w[t].pc = "enumEnd"
      BY <1>f, <3>1 DEF RunFits
    <3>2. CASE w[t].pc = "enum" /\ w[t].todo = {}
      BY <1>f, <3>2 DEF RunFits, Listed
    <3>. QED
      BY <1>4, <3>1, <3>2 DEF AfterEnum, At
  <2>6. Listed(Site) => Listed(Site)'
    BY <2>2 DEF Listed
  <2>7. RunFits(w[t], mem[t])'
    BY <2>1, <2>2, <2>3, <2>4, <2>5, <2>6 DEF RunFits, Enumerates, Labels
  <2>. QED
    BY <1>a, <1>k, <1>p, <2>1, <2>2, <2>3, <2>4, <2>7, RunStays
       DEF RollsBack, RollbackPCs
<1>5. CASE ToRunning(t)
  <2> DEFINE e == [w[t] EXCEPT !.pc = "labelInit", !.st = "running"]
  <2>1. e.pc = "labelInit" /\ e.st = "running"
    BY <1>p DEF Executor
  <2>2. /\ Become(t, e) /\ UNCHANGED <<cps, mem, task, owed, faults>>
        /\ job' = [job EXCEPT !.status = "running"] /\ w[t].pc = "toRunning"
    BY <1>5 DEF ToRunning, RunAndGoto, At
  <2> HIDE DEF e
  <2>3. Remember(t, mem[t]) /\ w'[t] = e
    BY <1>p, <2>2 DEF Remember, Become
  <2>4. Listed(Site) /\ job'.status = "running"
    BY <1>f, <1>p, <2>2 DEF RunFits
  <2>5. RunFits(w[t], mem[t])'
    BY <2>1, <2>3 DEF RunFits, Enumerates, Labels
  <2>. QED
    BY <1>a, <1>k, <1>p, <2>1, <2>2, <2>3, <2>4, <2>5, RunStays
       DEF RollsBack, RollbackPCs
<1>6. CASE ListSite(t)
  <2>1. PICK s \in w[t].todo : \E fs \in Listing[s] :
          LET e == [w[t] EXCEPT !.sites = @ \cup {s}, !.total = @ + Len(fs)]
              c == [type |-> "enumeration", batch |-> e.batch,
                    sites |-> e.sites, total |-> e.total, files |-> fs,
                    index |-> 0, counted |-> 0, applied |-> <<>>]
          IN Commit(t, c, [job EXCEPT !.total = e.total],
                    [e EXCEPT !.pc = "enum", !.todo = @ \ {s},
                              !.batch = @ + 1],
                    mem[t])
    BY <1>6 DEF ListSite
  <2>2. PICK c, r, e :
          /\ Commit(t, c, r, e, mem[t])
          /\ s \in c.sites /\ r.status = job.status
          /\ e.pc = "enum" /\ e.todo = w[t].todo \ {s} /\ e.st = w[t].st
    <3>1. PICK fs \in Listing[s] :
            LET e == [w[t] EXCEPT !.sites = @ \cup {s}, !.total = @ + Len(fs)]
                c == [type |-> "enumeration", batch |-> e.batch,
                      sites |-> e.sites, total |-> e.total, files |-> fs,
                      index |-> 0, counted |-> 0, applied |-> <<>>]
            IN Commit(t, c, [job EXCEPT !.total = e.total],
                      [e EXCEPT !.pc = "enum", !.todo = @ \ {s},
                                !.batch = @ + 1],
                      mem[t])
      BY <2>1
    <3> DEFINE e == [w[t] EXCEPT !.sites = @ \cup {s}, !.total = @ + Len(fs)]
               c == [type |-> "enumeration", batch |-> e.batch,
                     sites |-> e.sites, total |-> e.total, files |-> fs,
                     index |-> 0, counted |-> 0, applied |-> <<>>]
               r == [job EXCEPT !.total = e.total]
               f == [e EXCEPT !.pc = "enum", !.todo = @ \ {s}, !.batch = @ + 1]
    <3>2. Commit(t, c, r, f, mem[t])
      BY <3>1
    <3>3. s \in c.sites
      BY <1>p DEF Executor
    <3>4. r.status = job.status
      BY <1>p
    <3>5. f.pc = "enum" /\ f.todo = w[t].todo \ {s} /\ f.st = w[t].st
      BY <1>p DEF Executor
    <3> HIDE DEF c, r, f
    <3>. QED
      BY <3>2, <3>3, <3>4, <3>5
  <2>3. UNCHANGED <<owed, faults>> /\ w[t].pc = "list"
    BY <1>6, <2>2 DEF ListSite, Commit, At
  <2>4. CASE ~Insertable(c.type, c.batch)
    <3>1. Abandon(t, "done") /\ UNCHANGED <<cps, job>>
      BY <2>2, <2>4 DEF Commit
    <3>. QED
      BY <1>a, <1>p, <2>3, <3>1, AbandonedRun
  <2>5. CASE Insertable(c.type, c.batch)
    <3>1. /\ cps' = cps \cup {c} /\ Become(t, e) /\ Remember(t, mem[t])
          /\ UNCHANGED task /\ job'.status = job.status /\ w'[t] = e
      BY <1>p, <2>2, <2>5 DEF Commit, Become
    <3>2. Listed(Site \ w[t].todo) /\ w[t].st = "enumerating"
      BY <1>f, <2>3 DEF RunFits, Enumerates
    <3>3. Listed(Site \ w[t].todo)'
      BY <2>2, <2>3, <3>1, <3>2 DEF Listed
    <3>4. RunFits(w[t], mem[t])'
      BY <2>2, <3>1, <3>2, <3>3 DEF RunFits, Enumerates, Labels
    <3>5. Listed(Site) => Listed(Site)'
      BY <2>3, <3>1 DEF Listed
    <3>6. ~RollsBack(e)
      BY <2>2 DEF RollsBack, RollbackPCs
    <3>. QED
      BY <1>a, <1>f, <1>k, <2>3, <3>1, <3>4, <3>5, <3>6, RunMoves
  <2>. QED
    BY <2>4, <2>5
<1>. QED
  BY <1>1, <1>2, <1>3, <1>4, <1>5, <1>6 DEF Enumerate


LabellingPCs == { "label", "capture", "apply", "labelCommit" }

\* The run labels on, with the same files.
LEMMA LabelsOn ==
  ASSUME WholeInv, NEW t \in Task, Active(t), task[t].kind = "run",
         w[t].pc \in LabellingPCs,
         NEW e, NEW m, Become(t, e), Remember(t, m),
         e.pc \in LabellingPCs, e.st = w[t].st, m.files = mem[t].files,
         UNCHANGED <<task, owed>>, cps \subseteq cps',
         CpsOf("enumeration")' = CpsOf("enumeration"),
         faults' \in Nat, faults <= faults', job'.status = job.status
  PROVE  RunInv'
<1>1. /\ RunFits(w[t], mem[t]) /\ job.status # "completed"
      /\ job.status = "running" => Listed(Site)
  BY RunGoesOn
<1>2. Manifest' = Manifest
  BY WholeParts, LogParts, ManifestKept
<1>3. w'[t] = e /\ mem'[t] = m
  BY WholeParts DEF Become, Remember
<1>4. w[t].st = "running" /\ mem[t].files = Manifest /\ Manifest # <<>>
  BY <1>1 DEF RunFits, Labels, LabellingPCs
<1>5. RunFits(w[t], mem[t])'
  BY <1>2, <1>3, <1>4 DEF RunFits, Enumerates, Labels, LabellingPCs
<1>6. ~RollsBack(e)
  BY DEF RollsBack, RollbackPCs, LabellingPCs
<1>7. Listed(Site) => Listed(Site)'
  <2>1. faults \in Nat /\ (faults' = 0 => faults = 0)
    BY WholeParts
  <2>. QED
    BY <2>1 DEF Listed
<1>. QED
  BY <1>1, <1>5, <1>6, <1>7, RunMoves

\* A file is handled: on to the next one or to the batch's commit.
LEMMA FileDoneOn ==
  ASSUME WholeInv, NEW t \in Task, Active(t), task[t].kind = "run",
         w[t].pc \in {"capture", "apply"}, NEW n \in {0, 1}, FileDone(t, n),
         \/ Forget(t) \/ \E dry \in BOOLEAN : Note(t, dry),
         UNCHANGED <<task, owed, cps, job>>, faults' \in Nat, faults <= faults'
  PROVE  RunInv'
<1>p. w[t] \in Executor /\ mem[t] \in Memory
  BY WholeParts
<1>1. PICK e : Become(t, e) /\ e.pc \in LabellingPCs /\ e.st = w[t].st
  <2> DEFINE pc == IF w[t].k + 1 = BatchLen(w[t].index, mem[t].files)
                     THEN "labelCommit" ELSE "capture"
             e == [w[t] EXCEPT !.k = @ + 1, !.counted = @ + n, !.pc = pc]
  <2>1. e.pc = pc /\ e.st = w[t].st
    BY <1>p DEF Executor
  <2>2. Become(t, e)
    BY DEF FileDone
  <2> HIDE DEF e
  <2>. QED
    BY <2>1, <2>2 DEF LabellingPCs
<1>2. PICK m : Remember(t, m) /\ m.files = mem[t].files
  <2>1. CASE Forget(t)
    <3> DEFINE m == [mem[t] EXCEPT !.previous = NoLabel]
    <3>1. m.files = mem[t].files /\ Remember(t, m)
      BY <1>p, <2>1 DEF Forget, Memory
    <3> HIDE DEF m
    <3>. QED
      BY <3>1
  <2>2. ASSUME NEW dry \in BOOLEAN, Note(t, dry)
        PROVE  \E m : Remember(t, m) /\ m.files = mem[t].files
    <3> DEFINE m == [mem[t] EXCEPT
                       !.applied = Append(@, [file |-> CurrentFile(t),
                                              previous |-> mem[t].previous,
                                              dry |-> dry]),
                       !.previous = NoLabel]
    <3>1. m.files = mem[t].files /\ Remember(t, m)
      BY <1>p, <2>2 DEF Note, Memory
    <3> HIDE DEF m
    <3>. QED
      BY <3>1
  <2>. QED
    BY <2>1, <2>2
<1>. QED
  BY <1>1, <1>2, LabelsOn DEF LabellingPCs, CpsOf

\* Behind the last batch the log reaches the end of the manifest.
LEMMA AllLabelled ==
  ASSUME WholeInv, NEW t \in Task, Active(t), task[t].kind = "run",
         w[t].pc = "label", w[t].index >= Len(mem[t].files)
  PROVE  Processed
<1>1. /\ w[t] \in Executor /\ Fits(w[t], mem[t]) /\ Dense("labelling")
      /\ Manifest \in Seq(File)
  BY WholeParts, LogParts
<1>2. mem[t].files = Manifest /\ Manifest # <<>>
  BY RunGoesOn DEF RunFits, Labels
<1>3. /\ w[t].k = 0 /\ w[t].index + w[t].k <= Len(Manifest)
      /\ w[t].batch <= Batches("labelling") /\ (w[t].batch = 0 => w[t].index = 0)
      /\ \A c \in CpsOf("labelling") : c.batch = w[t].batch - 1 => c.index = w[t].index
  BY <1>1, <1>2 DEF Fits, LabelFits, Labels
<1>4. w[t].index \in Nat /\ w[t].batch \in Nat /\ Len(Manifest) \in Nat \ {0}
  BY <1>1, <1>2 DEF Executor
<1>5. w[t].index = Len(Manifest) /\ w[t].batch > 0
  BY <1>2, <1>3, <1>4
<1>6. PICK c \in CpsOf("labelling") : c.batch = w[t].batch - 1
  <2>1. Batches("labelling") \in Nat
    BY <1>1 DEF Dense
  <2>2. w[t].batch - 1 \in 0 .. Batches("labelling") - 1
    BY <1>3, <1>4, <1>5, <2>1
  <2>. QED
    BY <1>1, <2>2 DEF Dense
<1>. QED
  BY <1>3, <1>5, <1>6 DEF Processed

LEMMA LabelFileRun ==
  ASSUME WholeInv, NEW t \in Task, task[t].kind = "run", LabelFile(t)
  PROVE  RunInv'
<1>p. w[t] \in Executor /\ mem[t] \in Memory /\ faults \in Nat
  BY WholeParts
<1>a. Active(t) /\ w[t].pc \in {"capture", "apply"} /\ UNCHANGED <<task, owed, cps, job>>
  BY DEF LabelFile, NoteDryRun, Capture, ApplyLabel, ApplyRefused, ApplyUnknown, At
<1>f. faults' \in Nat /\ faults <= faults'
  <2>1. faults' = faults \/ faults' = faults + 1
    BY DEF LabelFile, NoteDryRun, Capture, ApplyLabel, ApplyRefused, ApplyUnknown,
           Fault
  <2>. QED
    BY <1>p, <2>1
<1>1. CASE NoteDryRun(t) \/ ApplyLabel(t) \/ ApplyRefused(t) \/ ApplyUnknown(t)
  <2>1. /\ \E n \in {0, 1} : FileDone(t, n)
        /\ Forget(t) \/ \E dry \in BOOLEAN : Note(t, dry)
    BY <1>1 DEF NoteDryRun, ApplyLabel, ApplyRefused, ApplyUnknown
  <2>. QED
    BY <1>a, <1>f, <2>1, FileDoneOn
<1>2. CASE Capture(t)
  <2>1. PICK m : Remember(t, m) /\ m.files = mem[t].files
    <3>1. CASE UNCHANGED mem
      <4>1. Remember(t, mem[t])
        BY <3>1, WholeParts DEF Remember
      <4>. QED
        BY <4>1
    <3>2. CASE Remember(t, [mem[t] EXCEPT !.previous = label[CurrentFile(t)]])
      <4> DEFINE m == [mem[t] EXCEPT !.previous = label[CurrentFile(t)]]
      <4>1. m.files = mem[t].files /\ Remember(t, m)
        BY <1>p, <3>2 DEF Memory
      <4> HIDE DEF m
      <4>. QED
        BY <4>1
    <3>. QED
      BY <1>2, <3>1, <3>2 DEF Capture
  <2> DEFINE e == [w[t] EXCEPT !.pc = "apply"]
  <2>2. Become(t, e) /\ e.pc = "apply" /\ e.st = w[t].st
    BY <1>p, <1>2 DEF Capture, Goto, Executor
  <2> HIDE DEF e
  <2>. QED
    BY <1>a, <1>f, <2>1, <2>2, LabelsOn DEF LabellingPCs, CpsOf
<1>. QED
  BY <1>1, <1>2 DEF LabelFile

LEMMA LabelRun ==
  ASSUME WholeInv, NEW t \in Task, LabelPhase(t)
  PROVE  RunInv'
<1>p. /\ w[t] \in Executor /\ task \in [Task -> TaskRow] /\ mem[t] \in Memory
      /\ mem \in [Task -> Memory] /\ w \in [Task -> Executor] /\ faults \in Nat
      /\ job \in [status : Statuses, total : Nat, processed : Nat, dry : BOOLEAN]
      /\ KindFits(t)
  BY WholeParts DEF RunInv
<1>a. /\ Active(t)
      /\ w[t].pc \in {"labelInit", "label", "capture", "apply", "labelCommit",
                      "final", "complete"}
  BY DEF LabelPhase, LabelConfigFails, LabelInit, StartLabelling, LabelFrom,
         NextBatch, LabelFile, NoteDryRun, Capture, ApplyLabel, ApplyRefused,
         ApplyUnknown, CommitBatch, CommitBatchLeaving, AfterLabel, Complete, At
<1>k. task[t].kind = "run"
  <2>1. ~RollsBack(w[t])
    BY <1>a DEF RollsBack, RollbackPCs
  <2>. QED
    BY <1>a, <1>p, <2>1 DEF KindFits, TaskRow
<1>f. /\ RunFits(w[t], mem[t]) /\ job.status # "completed"
      /\ job.status = "running" => Listed(Site)
  BY <1>a, <1>k, RunGoesOn
<1>1. CASE LabelConfigFails(t)
  <2> DEFINE e == [w[t] EXCEPT !.pc = "final", !.st = "failed"]
  <2>1. e.pc = "final"
    BY <1>p DEF Executor
  <2>2. /\ Become(t, e) /\ UNCHANGED <<cps, mem, task, owed>>
        /\ job'.status = "failed" /\ faults' = faults + 1
    BY <1>1, <1>p DEF LabelConfigFails, Fault
  <2> HIDE DEF e
  <2>3. Remember(t, mem[t]) /\ w'[t] = e
    BY <1>p, <2>2 DEF Remember, Become
  <2>4. RunFits(w[t], mem[t])'
    BY <2>1, <2>2, <2>3 DEF RunFits, Enumerates, Labels
  <2>5. faults' \in Nat /\ faults <= faults'
    BY <1>p, <2>2
  <2>. QED
    BY <1>a, <1>k, <2>1, <2>2, <2>3, <2>4, <2>5, RunStays DEF RollsBack, RollbackPCs
<1>2. CASE Goto(t, "final") /\ Manifest = <<>>
           /\ UNCHANGED <<job, cps, mem, task, owed, faults>>
  <2> DEFINE e == [w[t] EXCEPT !.pc = "final"]
  <2>1. e.pc = "final" /\ Become(t, e)
    BY <1>2, <1>p DEF Executor, Goto
  <2> HIDE DEF e
  <2>2. Remember(t, mem[t]) /\ w'[t] = e
    BY <1>2, <1>p, <2>1 DEF Remember, Become
  <2>3. Harmless
    BY <1>2, StillHarmless
  <2>4. Processed'
    BY <1>2, <2>3, HarmlessKeeps DEF Processed
  <2>5. RunFits(w[t], mem[t])'
    BY <2>1, <2>2, <2>4 DEF RunFits, Enumerates, Labels
  <2>. QED
    BY <1>2, <1>a, <1>k, <1>p, <2>1, <2>2, <2>5, RunStays DEF RollsBack, RollbackPCs
<1>3. ASSUME NEW index, NEW counted, NEW batch, LabelFrom(t, index, counted, batch)
      PROVE  RunInv'
  <2> DEFINE e == [w[t] EXCEPT !.pc = "label", !.phase = "labelling",
                               !.index = index, !.counted = counted,
                               !.batch = batch, !.k = 0]
             m == [NewMemory EXCEPT !.files = Manifest]
  <2>1. e.pc = "label" /\ e.st = w[t].st
    BY <1>p DEF Executor
  <2>2. m.files = Manifest
    BY DEF NewMemory
  <2>3. /\ Become(t, e) /\ Remember(t, m) /\ Manifest # <<>> /\ w[t].pc = "labelInit"
        /\ UNCHANGED <<job, cps, task, owed, faults>>
    BY <1>3 DEF LabelFrom, At
  <2> HIDE DEF e, m
  <2>4. w'[t] = e /\ mem'[t] = m
    BY <1>p, <2>3 DEF Remember, Become
  <2>5. Manifest' = Manifest
    <3>1. Harmless
      BY <2>3, StillHarmless
    <3>. QED
      BY <3>1, HarmlessKeeps
  <2>6. w[t].st = "running"
    BY <1>f, <2>3 DEF RunFits
  <2>7. RunFits(w[t], mem[t])'
    BY <2>1, <2>2, <2>3, <2>4, <2>5, <2>6 DEF RunFits, Enumerates, Labels
  <2>. QED
    BY <1>a, <1>k, <1>p, <2>1, <2>3, <2>7, RunStays DEF RollsBack, RollbackPCs
<1>4. CASE LabelInit(t)
  <2>1. CASE \E c \in Latest(CpsOf("labelling")) :
               LabelFrom(t, c.index, c.counted, c.batch + 1)
    BY <1>3, <2>1
  <2>2. CASE LabelFrom(t, 0, 0, 0)
    BY <1>3, <2>2
  <2>. QED
    BY <1>2, <1>4, <2>1, <2>2 DEF LabelInit, StartLabelling
<1>5. CASE NextBatch(t)
  <2> DEFINE e == [w[t] EXCEPT !.pc = "capture"]
  <2>1. /\ e.pc = "capture" /\ e.st = w[t].st /\ Become(t, e) /\ w[t].pc = "label"
        /\ UNCHANGED <<cps, mem, task, owed, faults, job>>
    BY <1>5, <1>p DEF NextBatch, Goto, At, Executor
  <2> HIDE DEF e
  <2>2. Remember(t, mem[t])
    BY <1>p, <2>1 DEF Remember
  <2>. QED
    BY <1>a, <1>k, <1>p, <2>1, <2>2, LabelsOn DEF LabellingPCs, CpsOf
<1>6. CASE LabelFile(t)
  BY <1>6, <1>k, LabelFileRun
<1>7. CASE CommitBatch(t)
  <2> DEFINE e == w[t]
             end == e.index + e.k
             c == [type |-> "labelling", batch |-> e.batch, sites |-> {},
                   total |-> 0, files |-> <<>>, index |-> end,
                   counted |-> e.counted, applied |-> mem[t].applied]
             r == [job EXCEPT !.processed = e.counted]
             f == [e EXCEPT !.pc = "label", !.index = end, !.k = 0,
                            !.batch = @ + 1]
             m == [mem[t] EXCEPT !.applied = <<>>]
  <2>1. /\ Commit(t, c, r, f, m) /\ w[t].pc = "labelCommit"
        /\ UNCHANGED <<owed, faults>>
    BY <1>7 DEF CommitBatch, CommitBatchLeaving, At, Commit
  <2>2. f.pc = "label" /\ f.st = w[t].st
    BY <1>p DEF Executor
  <2>3. m.files = mem[t].files
    BY <1>p DEF Memory
  <2>4. c.type = "labelling" /\ r.status = job.status
    BY <1>p
  <2> HIDE DEF c, r, f, m, e
  <2>5. CASE ~Insertable(c.type, c.batch)
    <3>1. Abandon(t, "done") /\ UNCHANGED <<cps, job>>
      BY <2>1, <2>5 DEF Commit
    <3>. QED
      BY <1>a, <1>p, <2>1, <3>1, AbandonedRun
  <2>6. CASE Insertable(c.type, c.batch)
    <3>1. /\ cps' = cps \cup {c} /\ Become(t, f) /\ Remember(t, m)
          /\ UNCHANGED task /\ job'.status = job.status
      BY <2>1, <2>4, <2>6 DEF Commit
    <3>2. CpsOf("enumeration")' = CpsOf("enumeration")
      BY <2>4, <3>1 DEF CpsOf
    <3>. QED
      BY <1>a, <1>k, <1>p, <2>1, <2>2, <2>3, <3>1, <3>2, LabelsOn DEF LabellingPCs
  <2>. QED
    BY <2>5, <2>6
<1>8. CASE AfterLabel(t)
  <2>1. CASE job.status = "running"
    <3> DEFINE e == [w[t] EXCEPT !.pc = "complete", !.st = "running"]
    <3>1. /\ e.pc = "complete" /\ Become(t, e)
          /\ UNCHANGED <<job, cps, task, mem, owed, faults>>
      BY <1>8, <1>p, <2>1 DEF AfterLabel, Executor
    <3> HIDE DEF e
    <3>2. Remember(t, mem[t]) /\ w'[t] = e
      BY <1>p, <3>1 DEF Remember, Become
    <3>3. Processed
      <4>1. CASE w[t].pc = "final"
        BY <1>f, <2>1, <4>1 DEF RunFits
      <4>2. CASE w[t].pc = "label" /\ w[t].index >= Len(mem[t].files)
        BY <1>a, <1>k, <4>2, AllLabelled
      <4>. QED
        BY <1>8, <4>1, <4>2 DEF AfterLabel, At
    <3>4. Processed' /\ Listed(Site)'
      <4>1. Harmless
        BY <3>1, StillHarmless
      <4>. QED
        BY <1>f, <2>1, <3>3, <4>1, HarmlessKeeps
    <3>5. RunFits(w[t], mem[t])'
      BY <3>1, <3>2, <3>4 DEF RunFits, Enumerates, Labels
    <3>. QED
      BY <1>a, <1>k, <1>p, <3>1, <3>2, <3>5, RunStays DEF RollsBack, RollbackPCs
  <2>2. CASE job.status # "running"
    BY <1>8, <1>a, <1>p, <2>2, LeftTheRun DEF AfterLabel
  <2>. QED
    BY <2>1, <2>2
<1>9. CASE Complete(t)
  <2>1. /\ Leave(t, "done") /\ UNCHANGED <<cps, owed, faults>>
        /\ job'.status = "completed" /\ w[t].pc = "complete"
    BY <1>9, <1>p DEF Complete, At
  <2>2. Listed(Site) /\ Processed
    BY <1>f, <2>1 DEF RunFits
  <2>. QED
    BY <1>a, <1>k, <1>p, <2>1, <2>2, LeftTheRun
<1>. QED
  BY <1>1, <1>4, <1>5, <1>6, <1>7, <1>8, <1>9 DEF LabelPhase


\* The executor of a rollback goes on as such.
LEMMA RollsOn ==
  ASSUME WholeInv, NEW t \in Task, Active(t), RollsBack(w[t]), Harmless,
         NEW e, NEW m, Become(t, e), Remember(t, m), RollsBack(e),
         UNCHANGED <<task, owed>>
  PROVE  RunInv'
<1>1. task[t].kind = "rollback"
  BY WholeParts DEF RunInv, KindFits
<1>2. job'.status = "pending" => job.status = "pending"
  BY DEF Harmless
<1>. QED
  BY <1>1, <1>2, RunMoves

LEMMA RollBackRun ==
  ASSUME WholeInv, NEW t \in Task, RollBack(t)
  PROVE  RunInv'
<1>p. /\ w[t] \in Executor /\ task \in [Task -> TaskRow] /\ mem[t] \in Memory
      /\ mem \in [Task -> Memory] /\ w \in [Task -> Executor] /\ faults \in Nat
      /\ job \in [status : Statuses, total : Nat, processed : Nat, dry : BOOLEAN]
  BY WholeParts
<1>a. Active(t) /\ w[t].pc \in RollbackPCs /\ RollsBack(w[t])
  BY DEF RollBack, RollbackInit, RollbackInitAhead, NextUndoBatch, Undo, UndoUnless,
         UndoFails, CommitUndo, AfterRollback, AfterRollbackIf, RollbackComplete,
         At, RollbackPCs, RollsBack
<1>1. CASE RollbackInit(t)
  <2>1. PICK e : Become(t, e) /\ e.pc \in {"rb", "rbEnd"}
    <3>1. ASSUME NEW index, NEW batch, RollbackFrom(t, index, batch)
          PROVE  \E e : Become(t, e) /\ e.pc \in {"rb", "rbEnd"}
      <4> DEFINE e == [w[t] EXCEPT !.pc = "rb", !.phase = "rollback",
                                   !.index = index, !.counted = index,
                                   !.batch = batch, !.k = 0]
      <4>1. e.pc = "rb" /\ Become(t, e)
        BY <1>p, <3>1 DEF RollbackFrom, Executor
      <4> HIDE DEF e
      <4>. QED
        BY <4>1
    <3>2. ASSUME Goto(t, "rbEnd")
          PROVE  \E e : Become(t, e) /\ e.pc \in {"rb", "rbEnd"}
      <4> DEFINE e == [w[t] EXCEPT !.pc = "rbEnd"]
      <4>1. e.pc = "rbEnd" /\ Become(t, e)
        BY <1>p, <3>2 DEF Goto, Executor
      <4> HIDE DEF e
      <4>. QED
        BY <4>1
    <3>3. \/ Goto(t, "rbEnd") \/ RollbackFrom(t, 0, 0)
          \/ \E c \in Latest(CpsOf("rollback")) :
               RollbackFrom(t, c.index + 0, c.batch + 1)
      BY <1>1 DEF RollbackInit, RollbackInitAhead
    <3>. QED
      BY <3>1, <3>2, <3>3
  <2>2. \E m : Remember(t, m)
    BY <1>1 DEF RollbackInit, RollbackInitAhead
  <2>3. UNCHANGED <<task, owed, cps, job, faults>>
    BY <1>1 DEF RollbackInit, RollbackInitAhead
  <2>. QED
    BY <1>a, <2>1, <2>2, <2>3, RollsOn, StillHarmless DEF RollsBack, RollbackPCs
<1>2. CASE NextUndoBatch(t)
  <2> DEFINE e == [w[t] EXCEPT !.pc = "undo"]
  <2>1. e.pc = "undo" /\ Become(t, e) /\ UNCHANGED <<task, owed, cps, job, faults, mem>>
    BY <1>2, <1>p DEF NextUndoBatch, Goto, Executor
  <2> HIDE DEF e
  <2>2. Remember(t, mem[t])
    BY <1>p, <2>1 DEF Remember
  <2>. QED
    BY <1>a, <2>1, <2>2, RollsOn, StillHarmless DEF RollsBack, RollbackPCs
<1>3. CASE Undo(t) \/ UndoFails(t)
  <2>1. PICK n : EntryDone(t, n)
    BY <1>3 DEF Undo, UndoUnless, UndoFails
  <2> DEFINE pc == IF w[t].k + 1 = BatchLen(w[t].index, mem[t].applied)
                     THEN "rbCommit" ELSE "undo"
             e == [w[t] EXCEPT !.k = @ + 1, !.counted = @ + n, !.pc = pc]
  <2>2. e.pc = pc /\ Become(t, e)
    BY <1>p, <2>1 DEF EntryDone, Executor
  <2>3. RollsBack(e)
    BY <2>2 DEF RollsBack, RollbackPCs
  <2> HIDE DEF e
  <2>4. UNCHANGED <<task, owed, cps, job, mem>>
    BY <1>3 DEF Undo, UndoUnless, UndoFails
  <2>5. Remember(t, mem[t])
    BY <1>p, <2>4 DEF Remember
  <2>6. faults' = faults \/ faults' = faults + 1
    BY <1>3 DEF Undo, UndoUnless, UndoFails, Fault
  <2>7. Harmless
    BY <1>p, <2>4, <2>6 DEF Harmless, CpsOf
  <2>. QED
    BY <1>a, <2>2, <2>3, <2>4, <2>5, <2>7, RollsOn
<1>4. CASE CommitUndo(t)
  <2> DEFINE e == w[t]
             c == [type |-> "rollback", batch |-> e.batch, sites |-> {},
                   total |-> 0, files |-> <<>>, index |-> e.counted,
                   counted |-> e.counted, applied |-> <<>>]
             f == [e EXCEPT !.pc = "rb", !.index = @ + e.k, !.k = 0,
                            !.batch = @ + 1]
  <2>1. Commit(t, c, job, f, mem[t]) /\ UNCHANGED <<owed, faults>>
    BY <1>4 DEF CommitUndo, Commit
  <2>2. f.pc = "rb" /\ c.type = "rollback"
    BY <1>p DEF Executor
  <2> HIDE DEF c, f, e
  <2>3. CASE ~Insertable(c.type, c.batch)
    <3>1. Abandon(t, "done") /\ UNCHANGED <<cps, job>>
      BY <2>1, <2>3 DEF Commit
    <3>. QED
      BY <1>a, <1>p, <2>1, <3>1, AbandonedRun
  <2>4. CASE Insertable(c.type, c.batch)
    <3>1. Become(t, f) /\ Remember(t, mem[t]) /\ UNCHANGED task
      BY <2>1, <2>4 DEF Commit
    <3>2. Harmless
      BY <2>1, <2>2, CommitHarmless
    <3>. QED
      BY <1>a, <2>1, <2>2, <3>1, <3>2, RollsOn DEF RollsBack, RollbackPCs
  <2>. QED
    BY <2>3, <2>4
<1>5. CASE AfterRollback(t)
  <2>1. CASE job.status = "rolling_back"
    <3> DEFINE e == [w[t] EXCEPT !.pc = "rbComplete", !.st = "rolling_back"]
    <3>1. e.pc = "rbComplete" /\ Become(t, e)
          /\ UNCHANGED <<task, owed, cps, job, faults, mem>>
      BY <1>5, <1>p, <2>1 DEF AfterRollback, AfterRollbackIf, Executor
    <3> HIDE DEF e
    <3>2. Remember(t, mem[t])
      BY <1>p, <3>1 DEF Remember
    <3>. QED
      BY <1>a, <3>1, <3>2, RollsOn, StillHarmless DEF RollsBack, RollbackPCs
  <2>2. CASE job.status # "rolling_back"
    BY <1>5, <1>a, <1>p, <2>2, LeftTheRun DEF AfterRollback, AfterRollbackIf
  <2>. QED
    BY <2>1, <2>2
<1>6. CASE RollbackComplete(t)
  BY <1>6, <1>a, <1>p, LeftTheRun DEF RollbackComplete
<1>. QED
  BY <1>1, <1>2, <1>3, <1>4, <1>5, <1>6 DEF RollBack

\* The API sets a job going once, and dispatches it once.
LEMMA ApiRun ==
  ASSUME "resume" \notin Allowed, WholeInv, ApiNext \/ UNCHANGED vars
  PROVE  RunInv'
<1>p. /\ task \in [Task -> TaskRow] /\ faults \in Nat /\ owed \in [Debts -> Nat]
      /\ job \in [status : Statuses, total : Nat, processed : Nat, dry : BOOLEAN]
      /\ RunInv
  BY WholeParts
<1>u. UNCHANGED <<cps, w, mem>>
  BY DEF ApiNext, UserRequest, Start, Pause, Resume, Cancel, Rollback,
         Accept, ApiSettle, Dispatch, SendSignal, LoseDispatch, SignalExpires, vars
<1>d. {"run", "rollback", "pause", "cancel"} \subseteq Debts
  BY DEF Debts
<1>f. faults' \in Nat /\ faults <= faults'
  <2>1. faults' = faults \/ faults' = faults + 1
    BY DEF ApiNext, UserRequest, Start, Pause, Resume, Cancel, Rollback,
           Accept, ApiSettle, Dispatch, SendSignal, LoseDispatch, SignalExpires, vars
  <2>. QED
    BY <1>p, <2>1
\* What is left to show where the tasks go on, or one is enqueued.
<1>1. ASSUME Harmless, RunOnce',
             \A u \in Task : \/ task'[u] = task[u]
                             \/ task[u].state = "none" /\ task'[u].state = "queued",
             job'.status = "completed" =>
               \E u \in Dispatched : task[u].state = "done"
      PROVE  RunInv'
  <2>1. \A u \in Task : Active(u)' => Active(u) /\ task'[u] = task[u]
    BY <1>1 DEF Active
  <2>2. ASSUME NEW u \in Task PROVE KindFits(u)'
    <3>1. KindFits(u)
      BY <1>p DEF RunInv
    <3>. QED
      BY <1>u, <2>1, <3>1 DEF KindFits, RollsBack
  <2>3. ASSUME NEW u \in Task, Active(u)', task'[u].kind = "run"
        PROVE  RunFits(w[u], mem[u])'
    <3>1. RunFits(w[u], mem[u])
      BY <1>p, <2>1, <2>3 DEF RunInv
    <3>. QED
      BY <1>1, <1>u, <3>1, HarmlessFits
  <2>4. job'.status = "completed" => \E u \in Dispatched' : task'[u].state = "done"
    <3> SUFFICES ASSUME job'.status = "completed"
                 PROVE  \E u \in Dispatched' : task'[u].state = "done"
      OBVIOUS
    <3>1. PICK u \in Dispatched : task[u].state = "done"
      BY <1>1
    <3>2. u \in Task /\ task'[u] = task[u]
      BY <1>1, <3>1 DEF Dispatched
    <3>. QED
      BY <3>1, <3>2 DEF Dispatched
  <2>. QED
    BY <1>1, <2>2, <2>3, <2>4, HarmlessKeeps DEF RunInv
\* A step that enqueues nothing and sets nothing going.
<1>2. ASSUME Harmless, UNCHANGED task, owed'["run"] <= owed["run"],
             owed'["run"] \in Nat, job'.status = "pending" => job.status = "pending"
      PROVE  RunInv'
  <2>1. Dispatched' = Dispatched
    BY <1>2 DEF Dispatched
  <2>2. owed["run"] \in Nat
    BY <1>d, <1>p
  <2>3. RunOnce'
    BY <1>2, <1>p, <2>1, <2>2 DEF RunInv, RunOnce
  <2>4. job'.status = "completed" => job.status = "completed"
    BY <1>2 DEF Harmless
  <2>. QED
    BY <1>1, <1>2, <1>p, <2>3, <2>4 DEF RunInv
<1>3. CASE Start
  <2>1. /\ job.status = "pending" /\ job'.status = "enumerating"
        /\ owed'["run"] = owed["run"] + 1 /\ UNCHANGED task
    BY <1>3, <1>p, <1>d DEF Start, Accept, Owe, TransitionFrom
  <2>2. owed["run"] = 0 /\ Dispatched = {}
    BY <1>p, <2>1 DEF RunInv, RunOnce
  <2>3. Dispatched' = {} /\ owed'["run"] = 1
    BY <2>1, <2>2 DEF Dispatched
  <2>4. RunOnce'
    BY <2>1, <2>3 DEF RunOnce
  <2>5. \A u \in Task : KindFits(u)'
    BY <1>p, <1>u, <2>1 DEF RunInv, KindFits, Active, RollsBack
  <2>6. \A u \in Task : ~(Active(u)' /\ task'[u].kind = "run")
    BY <2>3 DEF Dispatched, Active
  <2>. QED
    BY <2>1, <2>4, <2>5, <2>6 DEF RunInv
<1>4. CASE Pause \/ Cancel \/ Rollback
  <2>1. /\ job'.status \in {"paused", "failed", "rolling_back"}
        /\ UNCHANGED <<task, faults>>
    BY <1>4, <1>p DEF Pause, Cancel, Rollback, Accept
  <2>2. owed'["run"] = owed["run"]
    BY <1>4, <1>p, <1>d DEF Pause, Cancel, Rollback, Owe
  <2>3. owed["run"] \in Nat
    BY <1>p, <1>d
  <2>. QED
    BY <1>2, <1>u, <2>1, <2>2, <2>3, StillHarmless
<1>5. CASE Resume
  BY <1>5 DEF Resume, Accept
<1>6. ASSUME NEW debt \in Debts, Dispatch(debt)
      PROVE  RunInv'
  <2>1. PICK t \in Task :
          /\ task[t].state = "none"
          /\ task' = [task EXCEPT ![t] = [kind |-> debt, state |-> "queued",
                                          tries |-> 0]]
    BY <1>6 DEF Dispatch
  <2>2. /\ debt \in {"run", "rollback"} /\ owed[debt] > 0
        /\ owed' = [owed EXCEPT ![debt] = @ - 1] /\ UNCHANGED <<faults, job>>
    BY <1>6 DEF Dispatch, Settle
  <2>3. /\ task'[t].kind = debt /\ task'[t].state = "queued"
        /\ \A u \in Task : u # t => task'[u] = task[u]
    BY <1>p, <2>1
  <2>4. Harmless
    BY <1>u, <2>2, StillHarmless
  <2>5. owed["run"] \in Nat
    BY <1>p, <1>d
  <2>6. CASE debt = "run"
    <3>1. owed["run"] = 1 /\ owed'["run"] = 0 /\ Dispatched = {}
      BY <1>p, <1>d, <2>2, <2>5, <2>6 DEF RunInv, RunOnce
    <3>2. Dispatched' = {t}
      BY <2>3, <2>6, <3>1 DEF Dispatched
    <3>3. job.status \notin {"pending", "completed"}
      BY <1>p, <3>1 DEF RunInv, RunOnce
    <3>4. RunOnce'
      BY <2>2, <3>1, <3>2, <3>3 DEF RunOnce
    <3>. QED
      BY <1>1, <2>1, <2>2, <2>3, <2>4, <3>3, <3>4
  <2>7. CASE debt = "rollback"
    <3>1. owed'["run"] = owed["run"]
      BY <1>p, <1>d, <2>2, <2>7
    <3>2. Dispatched' = Dispatched
      BY <2>1, <2>3, <2>7 DEF Dispatched
    <3>3. RunOnce'
      BY <1>p, <2>2, <3>1, <3>2 DEF RunInv, RunOnce
    <3>. QED
      BY <1>1, <1>p, <2>1, <2>2, <2>3, <2>4, <3>3 DEF RunInv
  <2>. QED
    BY <2>2, <2>6, <2>7
<1>7. ASSUME NEW debt \in Debts, SendSignal(debt) \/ LoseDispatch(debt)
      PROVE  RunInv'
  <2>1. /\ owed[debt] > 0 /\ owed' = [owed EXCEPT ![debt] = @ - 1]
        /\ UNCHANGED <<task, job>>
    BY <1>7 DEF SendSignal, LoseDispatch, Settle
  <2>2. owed["run"] \in Nat /\ owed'["run"] \in Nat /\ owed'["run"] <= owed["run"]
    BY <1>p, <1>d, <2>1
  <2>3. Harmless
    BY <1>f, <1>u, <2>1 DEF Harmless, CpsOf
  <2>. QED
    BY <1>2, <2>1, <2>2, <2>3
<1>8. CASE SignalExpires \/ UNCHANGED vars
  <2>1. UNCHANGED <<task, job, owed>>
    BY <1>8 DEF SignalExpires, vars
  <2>2. owed["run"] \in Nat
    BY <1>p, <1>d
  <2>3. Harmless
    BY <1>f, <1>u, <2>1 DEF Harmless, CpsOf
  <2>. QED
    BY <1>2, <2>1, <2>2, <2>3
<1>. QED
  BY <1>3, <1>4, <1>5, <1>6, <1>7, <1>8 DEF ApiNext, UserRequest, ApiSettle

LEMMA RunStep ==
  ASSUME "resume" \notin Allowed, WholeInv, [Next]_vars
  PROVE  WholeInv'
<1>1. LogInv'
  BY StoreStep DEF WholeInv
<1>2. CASE ApiNext \/ UNCHANGED vars
  BY <1>1, <1>2, ApiRun DEF WholeInv
<1>3. CASE ExecutorNext
  BY <1>1, <1>3, BeginTaskRun, SignalledRun, EnumerateRun, LabelRun, RollBackRun,
     DisruptRun DEF WholeInv, ExecutorNext, Work
<1>. QED
  BY <1>2, <1>3 DEF Next

LEMMA WholeStart == Init => WholeInv
<1> SUFFICES ASSUME Init PROVE WholeInv
  OBVIOUS
<1>1. LogInv
  BY StoreInit
<1>2. /\ Dispatched = {} /\ \A t \in Task : ~Active(t)
      /\ owed["run"] \in {0, 1} /\ job.status \in {"pending", "enumerating"}
      /\ job.status = "pending" => owed["run"] = 0
  BY DEF Init, Created, Dispatched, Active, Debts, NoSignal
<1>3. RunOnce
  BY <1>2 DEF RunOnce
<1>. QED
  BY <1>1, <1>2, <1>3 DEF WholeInv, RunInv, KindFits

\* If no paused job is resumed, a job that says it is completed has labelled
\* its whole manifest and, unless a call failed, the manifest covers every
\* site: whatever crashes, is lost, cancelled or rolled back meanwhile.  (A
\* resume may set a second run going beside the first one.)
THEOREM SpecCompletedMeansProcessed ==
  ASSUME "resume" \notin Allowed
  PROVE  Spec => []CompletedMeansProcessed
<1>1. Init => WholeInv
  BY WholeStart
<1>2. WholeInv /\ [Next]_vars => WholeInv'
  BY RunStep
<1>3. WholeInv => CompletedMeansProcessed
  BY DEF WholeInv, RunInv, CompletedMeansProcessed, Listed, Processed
<1>. QED
  BY <1>1, <1>2, <1>3, PTL DEF Spec

-----------------------------------------------------------------------------
(* A rollback gives back every former label.                               *)

\* The executor t has read the labelling log and is to undo it.
Undoing(t) ==
  Active(t) /\ task[t].kind = "rollback" /\ w[t].pc # "rbInit"

\* The files that carry their former label, or have lost the way back to it.
Back == { f \in File : f \in excused \/ label[f] = InitLabel[f] }

Logged == { AllApplied[i].file : i \in 1 .. Len(AllApplied) }

\* The files that another executor holds, and those that any holds.
HeldBut(t) == UNION { Uncommitted(u) : u \in Task \ {t} }
Held == UNION { Uncommitted(u) : u \in Task }

\* The files whose former label does not hang on a note of the executor t.
Spare(t) == excused \cup Logged \cup HeldBut(t)

\* Files are noted within a batch, by a process that lives.
HandFits(t) ==
  /\ ~Active(t) => mem[t].applied = <<>>
  /\ task[t].kind = "run" /\ w[t].pc \notin { "capture", "apply", "labelCommit" } =>
       mem[t].applied = <<>>

\* A label that is not the former one is noted somewhere.
LabelsNoted == File \subseteq Back \cup Held \cup Logged

\* An entry of the log is true; where two executors labelled the same file,
\* the one that was too late still holds it or has given it up.
EntriesTrue ==
  \A i \in 1 .. Len(AllApplied) :
    \/ AllApplied[i].previous = InitLabel[AllApplied[i].file]
    \/ AllApplied[i].file \in excused \cup Held

\* So is a note of the executor t, or it will not get into the log.
NotesTrue(t) ==
  /\ task[t].kind = "run" =>
       \A i \in 1 .. Len(mem[t].applied) :
         \/ mem[t].applied[i].previous = InitLabel[mem[t].applied[i].file]
         \/ mem[t].applied[i].file \in Spare(t)
  /\ w[t].pc = "apply" =>
       mem[t].previous = InitLabel[CurrentFile(t)] \/ CurrentFile(t) \in Spare(t)

\* What a rollback has read is the log, but for what came too late for it,
\* and what it has gone through is undone.
UndoTrue(t) ==
  Undoing(t) =>
    /\ Prefix(mem[t].applied, AllApplied)
    /\ Held \subseteq excused
    /\ \A i \in 1 .. Len(AllApplied) :
         i > Len(mem[t].applied) => AllApplied[i].file \in excused
    /\ \A i \in 1 .. Len(mem[t].applied) :
         i <= w[t].index + w[t].k => mem[t].applied[i].file \in Back
    /\ w[t].pc \in { "rb", "undo", "rbCommit", "ack", "stop" } =>
         /\ w[t].counted <= w[t].index + w[t].k
         /\ w[t].index + w[t].k <= Len(mem[t].applied)

\* So is what a rollback checkpoint covers, except for what an executor has
\* labelled behind it.
CheckpointsTrue ==
  \A c \in CpsOf("rollback") :
    /\ c.index <= Len(AllApplied)
    /\ \A i \in 1 .. c.index : AllApplied[i].file \in Back \cup Held

RolledBack ==
  job.status = "rolled_back" =>
    /\ \E t \in Task : task[t].kind = "rollback" /\ task[t].state = "done"
    /\ Held \subseteq excused
    /\ halfway \/ File \subseteq Back

RestoreInv ==
  /\ \A t \in Task : KindFits(t) /\ HandFits(t)
  /\ ~job.dry =>
       /\ LabelsNoted /\ EntriesTrue /\ CheckpointsTrue /\ RolledBack
       /\ \A t \in Task : NotesTrue(t) /\ UndoTrue(t)

\* What the proofs below take from the invariants.
LEMMA RestoreParts ==
  ASSUME OnceInv, RestoreInv
  PROVE  /\ LogInv /\ ControlOK /\ DataOK
         /\ job \in [status : Statuses, total : Nat, processed : Nat, dry : BOOLEAN]
         /\ task \in [Task -> TaskRow] /\ w \in [Task -> Executor]
         /\ mem \in [Task -> Memory]
         /\ \A t \in Task : /\ w[t] \in Executor /\ mem[t] \in Memory
                            /\ mem[t].applied \in Seq(Entry)
                            /\ PhaseFits(w[t]) /\ Fits(w[t], mem[t])
                            /\ InHand(w[t], mem[t])
         /\ AllApplied \in Seq(Entry) /\ Len(AllApplied) \in Nat
         /\ \A i, j \in 1 .. Len(AllApplied) :
              AllApplied[i].file = AllApplied[j].file => i = j
         /\ \A i \in 1 .. Len(AllApplied) : AllApplied[i].file \in File
<1>1. LogInv /\ \A t \in Task : InHand(w[t], mem[t])
  BY OnceParts
<1>2. /\ ControlOK /\ DataOK /\ AllApplied \in Seq(Entry)
      /\ \A t \in Task : /\ w[t] \in Executor /\ PhaseFits(w[t])
                         /\ mem[t] \in Memory /\ Fits(w[t], mem[t])
  BY <1>1, LogParts
<1>3. \A t \in Task : mem[t].applied \in Seq(Entry)
  BY <1>2 DEF Memory
<1>4. \A i, j \in 1 .. Len(AllApplied) :
        AllApplied[i].file = AllApplied[j].file => i = j
  BY OnceParts DEF LogOnce
<1>5. \A i \in 1 .. Len(AllApplied) : AllApplied[i].file \in File
  <2> TAKE i \in 1 .. Len(AllApplied)
  <2>1. AllApplied[i] \in Entry
    BY <1>2
  <2>. QED
    BY <2>1 DEF Entry
<1>. QED
  BY <1>1, <1>2, <1>3, <1>4, <1>5 DEF ControlOK, DataOK

-----------------------------------------------------------------------------
(* What a step must keep.                                                  *)

\* Only the task t and its executor move.
OnlyTask(t) ==
  \A u \in Task : u # t => task'[u] = task[u] /\ w'[u] = w[u] /\ mem'[u] = mem[u]

\* Whatever leaves the executor's hand goes into the log or is excused, what
\* comes into it while a rollback is under way is excused, and what goes into
\* the log comes from it and is true.
HandMovesOn(t) ==
  /\ excused \subseteq excused'
  /\ Prefix(AllApplied, AllApplied')
  /\ Uncommitted(t) \subseteq Uncommitted(t)' \cup excused' \cup (Logged' \ Logged)
  /\ RollbackBegun => Uncommitted(t)' \subseteq Uncommitted(t) \cup excused'
  /\ \A i \in 1 .. Len(AllApplied') : i > Len(AllApplied) =>
       LET d == AllApplied'[i] IN
         /\ d.file \in Uncommitted(t)
         /\ d.previous = InitLabel[d.file] \/ d.file \in excused' \cup HeldBut(t)

\* A label is changed for its former one, or noted before a rollback begins.
LabelsMoveOn(t) ==
  \A f \in File :
    \/ label'[f] = label[f] \/ f \in Back'
    \/ f \in Uncommitted(t)' /\ ~RollbackBegun

LEMMA BackStays ==
  ASSUME NEW t \in Task, HandMovesOn(t), LabelsMoveOn(t)
  PROVE  /\ Back \subseteq Back' \cup Uncommitted(t)'
         /\ RollbackBegun => Back \subseteq Back'
BY DEF HandMovesOn, LabelsMoveOn, Back

LEMMA HeldMovesOn ==
  ASSUME NEW t \in Task, OnlyTask(t), HandMovesOn(t)
  PROVE  /\ HeldBut(t)' = HeldBut(t)
         /\ Held = HeldBut(t) \cup Uncommitted(t)
         /\ Held' = HeldBut(t) \cup Uncommitted(t)'
         /\ Held \subseteq Held' \cup excused' \cup (Logged' \ Logged)
         /\ Held \cap Logged \subseteq Held' \cup excused'
         /\ RollbackBegun /\ Held \subseteq excused => Held' \subseteq excused'
<1>1. \A u \in Task \ {t} : Uncommitted(u)' = Uncommitted(u)
  BY DEF OnlyTask, Uncommitted
<1>2. HeldBut(t)' = HeldBut(t)
  BY <1>1 DEF HeldBut
<1>3. Held = HeldBut(t) \cup Uncommitted(t)
  BY DEF Held, HeldBut
<1>4. Held' = HeldBut(t)' \cup Uncommitted(t)'
  BY DEF Held, HeldBut
<1>. QED
  BY <1>2, <1>3, <1>4 DEF HandMovesOn

\* What is needed of the log, before and after a step.
EntriesSound ==
  /\ AllApplied \in Seq(Entry)
  /\ \A i, j \in 1 .. Len(AllApplied) :
       AllApplied[i].file = AllApplied[j].file => i = j

LEMMA LogSound == OnceInv => EntriesSound
BY OnceParts, LogParts DEF LogOnce, EntriesSound

LEMMA LoggedStays ==
  ASSUME EntriesSound, EntriesSound', NEW t \in Task, HandMovesOn(t)
  PROVE  Logged \subseteq Logged'
<1> SUFFICES ASSUME NEW i \in 1 .. Len(AllApplied)
             PROVE  AllApplied[i].file \in Logged'
  BY DEF Logged
<1>1. i \in 1 .. Len(AllApplied') /\ AllApplied'[i] = AllApplied[i]
  BY DEF HandMovesOn, Prefix, EntriesSound
<1>2. AllApplied'[i].file \in Logged'
  BY <1>1 DEF Logged
<1>. QED
  BY <1>1, <1>2

\* Then what is said of the labels, the log and the other executors stays.
LEMMA LabelsStayNoted ==
  ASSUME RestoreInv, ~job.dry, EntriesSound, EntriesSound', NEW t \in Task,
         OnlyTask(t), HandMovesOn(t), LabelsMoveOn(t)
  PROVE  LabelsNoted'
<1>1. Back \subseteq Back' \cup Held'
  BY BackStays, HeldMovesOn
<1>2. (excused' \cap File) \subseteq Back'
  BY DEF Back
<1>3. (Held \cap File) \subseteq Held' \cup Back' \cup Logged'
  BY <1>2, HeldMovesOn
<1>4. Logged \subseteq Logged'
  BY LoggedStays
<1>. QED
  BY <1>1, <1>3, <1>4 DEF RestoreInv, LabelsNoted

LEMMA EntriesStayTrue ==
  ASSUME RestoreInv, ~job.dry, EntriesSound, EntriesSound', NEW t \in Task,
         OnlyTask(t), HandMovesOn(t)
  PROVE  EntriesTrue'
<1> SUFFICES ASSUME NEW i \in 1 .. Len(AllApplied')
             PROVE  \/ AllApplied'[i].previous = InitLabel[AllApplied'[i].file]
                    \/ AllApplied'[i].file \in excused' \cup Held'
  BY DEF EntriesTrue
<1>1. CASE i > Len(AllApplied)
  BY <1>1, HeldMovesOn DEF HandMovesOn
<1>2. CASE ~(i > Len(AllApplied))
  <2>1. i \in 1 .. Len(AllApplied) /\ AllApplied'[i] = AllApplied[i]
    BY <1>2 DEF EntriesSound, HandMovesOn, Prefix
  <2>2. AllApplied[i].file \in Logged
    BY <2>1 DEF Logged
  <2>3. \/ AllApplied[i].previous = InitLabel[AllApplied[i].file]
        \/ AllApplied[i].file \in excused \cup Held
    BY <2>1 DEF RestoreInv, EntriesTrue
  <2>4. excused \subseteq excused'
    BY DEF HandMovesOn
  <2>. QED
    BY <2>1, <2>2, <2>3, <2>4, HeldMovesOn
<1>. QED
  BY <1>1, <1>2

LEMMA SpareStays ==
  ASSUME EntriesSound, EntriesSound', NEW t \in Task, OnlyTask(t),
         HandMovesOn(t), NEW u \in Task
  PROVE  Spare(u) \subseteq Spare(u)'
<1>1. excused \subseteq excused' /\ Logged \subseteq Logged'
  BY LoggedStays DEF HandMovesOn
<1>2. ASSUME NEW v \in Task, v # u
      PROVE  Uncommitted(v) \subseteq HeldBut(u)' \cup excused' \cup Logged'
  <2>1. Uncommitted(v)' \subseteq HeldBut(u)'
    BY <1>2 DEF HeldBut
  <2>2. CASE v = t
    BY <2>1, <2>2 DEF HandMovesOn
  <2>3. CASE v # t
    BY <2>1, <2>3 DEF OnlyTask, Uncommitted
  <2>. QED
    BY <2>2, <2>3
<1>3. HeldBut(u) \subseteq HeldBut(u)' \cup excused' \cup Logged'
  BY <1>2 DEF HeldBut
<1>. QED
  BY <1>1, <1>3 DEF Spare

LEMMA NotesStayTrue ==
  ASSUME RestoreInv, ~job.dry, EntriesSound, EntriesSound', NEW t \in Task,
         OnlyTask(t), HandMovesOn(t), NEW u \in Task, u # t
  PROVE  NotesTrue(u)'
<1>1. NotesTrue(u) /\ task'[u] = task[u] /\ w'[u] = w[u] /\ mem'[u] = mem[u]
  BY DEF RestoreInv, OnlyTask
<1>2. Spare(u) \subseteq Spare(u)'
  BY SpareStays
<1>3. CurrentFile(u)' = CurrentFile(u)
  BY <1>1 DEF CurrentFile
<1>. QED
  BY <1>1, <1>2, <1>3 DEF NotesTrue

LEMMA UndoStaysTrue ==
  ASSUME RestoreInv, ~job.dry, EntriesSound, EntriesSound', NEW t \in Task,
         OnlyTask(t), HandMovesOn(t), LabelsMoveOn(t),
         NEW u \in Task, u # t, mem[u].applied \in Seq(Entry)
  PROVE  UndoTrue(u)'
<1> SUFFICES ASSUME Undoing(u)' PROVE UndoTrue(u)'
  BY DEF UndoTrue
<1>1. task'[u] = task[u] /\ w'[u] = w[u] /\ mem'[u] = mem[u]
  BY DEF OnlyTask
<1>2. Undoing(u) /\ RollbackBegun
  BY <1>1 DEF Undoing, Active, RollbackBegun
<1>3. UndoTrue(u)
  BY DEF RestoreInv
<1> DEFINE s == mem[u].applied
           A == AllApplied
           B == AllApplied'
<1>4. /\ s \in Seq(Entry) /\ A \in Seq(Entry) /\ B \in Seq(Entry)
      /\ Prefix(s, A) /\ Prefix(A, B)
  BY <1>2, <1>3 DEF UndoTrue, EntriesSound, HandMovesOn
<1>5. Prefix(s, B)
  <2> HIDE DEF s, A, B
  <2>. QED
    BY <1>4 DEF Prefix
<1>6. Held \subseteq excused /\ Held' \subseteq excused' /\ excused \subseteq excused'
  BY <1>2, <1>3, HeldMovesOn DEF UndoTrue, HandMovesOn
<1>7. Back \subseteq Back'
  BY <1>2, BackStays
<1>8. ASSUME NEW i \in 1 .. Len(B), i > Len(s) PROVE B[i].file \in excused'
  <2>1. CASE i > Len(A)
    <3>1. B[i].file \in Uncommitted(t)
      BY <1>8, <2>1 DEF HandMovesOn
    <3>. QED
      BY <1>6, <3>1 DEF Held
  <2>2. CASE ~(i > Len(A))
    <3>1. i \in 1 .. Len(A) /\ B[i] = A[i]
      BY <1>4, <2>2 DEF Prefix
    <3>. QED
      BY <1>2, <1>3, <1>6, <1>8, <3>1 DEF UndoTrue
  <2>. QED
    BY <2>1, <2>2
<1>. QED
  BY <1>1, <1>2, <1>3, <1>5, <1>6, <1>7, <1>8 DEF UndoTrue

\* A new rollback checkpoint covers what is undone.
CheckpointsMoveOn ==
  \A c \in CpsOf("rollback")' \ CpsOf("rollback") :
    /\ c.index <= Len(AllApplied)
    /\ \A i \in 1 .. c.index : AllApplied[i].file \in Back

LEMMA CheckpointsStayTrue ==
  ASSUME RestoreInv, ~job.dry, EntriesSound, EntriesSound', DataOK', NEW t \in Task,
         OnlyTask(t), HandMovesOn(t), LabelsMoveOn(t), CheckpointsMoveOn
  PROVE  CheckpointsTrue'
<1> SUFFICES ASSUME NEW c \in CpsOf("rollback")'
             PROVE  /\ c.index <= Len(AllApplied')
                    /\ \A i \in 1 .. c.index : AllApplied'[i].file \in Back' \cup Held'
  BY DEF CheckpointsTrue
<1>1. /\ c.index \in Nat /\ c.index <= Len(AllApplied)
      /\ \A i \in 1 .. c.index : AllApplied[i].file \in Back \cup Held
  <2>1. c.index \in Nat
    BY DEF DataOK, CpsOf, Checkpoint
  <2>2. CASE c \in CpsOf("rollback")
    BY <2>1, <2>2 DEF RestoreInv, CheckpointsTrue
  <2>3. CASE c \notin CpsOf("rollback")
    BY <2>1, <2>3 DEF CheckpointsMoveOn
  <2>. QED
    BY <2>2, <2>3
<1>2. Len(AllApplied) <= Len(AllApplied') /\ Len(AllApplied) \in Nat
      /\ Len(AllApplied') \in Nat
  BY DEF HandMovesOn, Prefix, EntriesSound
<1>3. ASSUME NEW i \in 1 .. c.index PROVE AllApplied'[i].file \in Back' \cup Held'
  <2>1. i \in 1 .. Len(AllApplied) /\ AllApplied'[i] = AllApplied[i]
    BY <1>1, <1>2 DEF HandMovesOn, Prefix
  <2> DEFINE f == AllApplied[i].file
  <2>2. f \in Logged /\ f \in File
    <3>1. AllApplied[i] \in Entry
      BY <2>1 DEF EntriesSound
    <3>. QED
      BY <2>1, <3>1 DEF Logged, Entry
  <2>3. f \in Back \cup Held
    BY <1>1
  <2> HIDE DEF f
  <2>4. f \in Back => f \in Back' \cup Held'
    BY BackStays, HeldMovesOn
  <2>5. f \in Held => f \in Held' \cup excused'
    BY <2>2, HeldMovesOn
  <2>6. f \in Back' \cup Held'
    BY <2>2, <2>3, <2>4, <2>5 DEF Back
  <2>. QED
    BY <2>1, <2>6 DEF f
<1>. QED
  BY <1>1, <1>2, <1>3

\* A job is rolled back by an executor only.
StatusMovesOn(t) ==
  /\ job'.status = "rolled_back" => job.status = "rolled_back" \/ RolledBack'
  /\ task[t].state = "done" => task'[t] = task[t]

LEMMA StaysRolledBack ==
  ASSUME RestoreInv, HalfwayStays, ~job.dry, NEW t \in Task,
         OnlyTask(t), HandMovesOn(t), LabelsMoveOn(t), StatusMovesOn(t)
  PROVE  RolledBack'
<1> SUFFICES ASSUME job.status = "rolled_back" PROVE RolledBack'
  BY DEF StatusMovesOn, RolledBack
<1>1. PICK r \in Task : task[r].kind = "rollback" /\ task[r].state = "done"
  BY DEF RestoreInv, RolledBack
<1>2. RollbackBegun
  BY <1>1 DEF RollbackBegun
<1>3. task'[r].kind = "rollback" /\ task'[r].state = "done"
  BY <1>1 DEF OnlyTask, StatusMovesOn
<1>4. Held' \subseteq excused'
  BY <1>2, HeldMovesOn DEF RestoreInv, RolledBack
<1>5. halfway' \/ File \subseteq Back'
  BY <1>2, BackStays DEF RestoreInv, RolledBack, HalfwayStays
<1>. QED
  BY <1>3, <1>4, <1>5 DEF RolledBack

\* So a step has to care for its own executor only.
RestoreMovesOn(t) ==
  /\ HandMovesOn(t) /\ LabelsMoveOn(t) /\ CheckpointsMoveOn /\ StatusMovesOn(t)
  /\ NotesTrue(t)' /\ UndoTrue(t)'

LEMMA RestoreFrame ==
  ASSUME OnceInv, OnceInv', RestoreInv, HalfwayStays, NEW t \in Task, OnlyTask(t),
         job'.dry = job.dry, KindFits(t)', HandFits(t)',
         ~job.dry => RestoreMovesOn(t)
  PROVE  RestoreInv'
<1>1. EntriesSound /\ EntriesSound' /\ DataOK'
  BY LogSound, PTL DEF OnceInv, LogInv, StoreOK
<1>2. ASSUME NEW u \in Task PROVE KindFits(u)' /\ HandFits(u)'
  <2>1. CASE u = t
    BY <2>1
  <2>2. CASE u # t
    BY <2>2 DEF RestoreInv, OnlyTask, KindFits, HandFits, Active, RollsBack
  <2>. QED
    BY <2>1, <2>2
<1>3. ASSUME ~job.dry
      PROVE  /\ LabelsNoted' /\ EntriesTrue' /\ CheckpointsTrue' /\ RolledBack'
             /\ \A u \in Task : NotesTrue(u)' /\ UndoTrue(u)'
  <2>1. RestoreMovesOn(t)
    BY <1>3
  <2>2. LabelsNoted' /\ EntriesTrue' /\ CheckpointsTrue' /\ RolledBack'
    BY <1>1, <1>3, <2>1, LabelsStayNoted, EntriesStayTrue, CheckpointsStayTrue,
       StaysRolledBack DEF RestoreMovesOn
  <2>3. ASSUME NEW u \in Task PROVE NotesTrue(u)' /\ UndoTrue(u)'
    <3>1. CASE u = t
      BY <2>1, <3>1 DEF RestoreMovesOn
    <3>2. CASE u # t
      <4>1. mem[u].applied \in Seq(Entry)
        BY RestoreParts
      <4>. QED
        BY <1>1, <1>3, <2>1, <3>2, <4>1, NotesStayTrue, UndoStaysTrue
        DEF RestoreMovesOn
    <3>. QED
      BY <3>1, <3>2
  <2>. QED
    BY <2>2, <2>3
<1>. QED
  BY <1>2, <1>3 DEF RestoreInv

-----------------------------------------------------------------------------
(* Steps that neither label nor log.                                       *)

\* The log stays, and so do the labels.
LEMMA NothingNew ==
  ASSUME OnceInv, NEW t \in Task, excused \subseteq excused',
         CpsOf("labelling")' = CpsOf("labelling"),
         Uncommitted(t) \subseteq Uncommitted(t)' \cup excused',
         Uncommitted(t)' \subseteq Uncommitted(t) \cup excused'
  PROVE  AllApplied' = AllApplied /\ HandMovesOn(t)
<1>1. AllApplied' = AllApplied /\ AllApplied \in Seq(Entry)
  BY OnceParts, LogParts, AllAppliedKept
<1>2. Prefix(AllApplied, AllApplied')
  BY <1>1 DEF Prefix
<1>. QED
  BY <1>1, <1>2 DEF HandMovesOn

\* The executor t moves on as e: it labels and undoes nothing.
LEMMA RestoreMoves ==
  ASSUME OnceInv, OnceInv', RestoreInv, HalfwayStays, NEW t \in Task, Active(t), NEW e,
         Become(t, e), UNCHANGED <<task, mem, label, excused>>,
         CpsOf("labelling")' = CpsOf("labelling"),
         CpsOf("rollback")' = CpsOf("rollback"), job'.dry = job.dry,
         job'.status = "rolled_back" => job.status = "rolled_back",
         RollsBack(e) <=> RollsBack(w[t]), e.pc # "apply",
         task[t].kind = "run" =>
           e.pc \in { "capture", "labelCommit" } \/ mem[t].applied = <<>>,
         task[t].kind = "rollback" =>
           /\ w[t].pc # "rbInit" /\ e.index = w[t].index /\ e.k = w[t].k
           /\ e.counted = w[t].counted
           /\ e.pc \in { "rb", "undo", "rbCommit", "ack", "stop" } =>
                w[t].pc \in { "rb", "undo", "rbCommit", "ack", "stop" }
  PROVE  RestoreInv'
<1>1. w' = [w EXCEPT ![t] = e] /\ w'[t] = e
  BY RestoreParts DEF Become
<1>2. OnlyTask(t)
  BY <1>1, RestoreParts DEF OnlyTask
<1>3. KindFits(t)' /\ HandFits(t)'
  <2>1. KindFits(t) /\ HandFits(t)
    BY DEF RestoreInv
  <2>2. RollsBack(w[t])' <=> RollsBack(w[t])
    BY <1>1 DEF RollsBack
  <2>. QED
    BY <1>1, <2>1, <2>2 DEF KindFits, HandFits, Active
<1>4. Uncommitted(t)' = Uncommitted(t)
  BY DEF Uncommitted
<1>5. AllApplied' = AllApplied /\ HandMovesOn(t)
  BY <1>4, NothingNew
<1>6. LabelsMoveOn(t) /\ CheckpointsMoveOn /\ StatusMovesOn(t)
  BY DEF LabelsMoveOn, CheckpointsMoveOn, StatusMovesOn
<1>7. ASSUME ~job.dry PROVE NotesTrue(t)' /\ UndoTrue(t)'
  <2>1. NotesTrue(t) /\ UndoTrue(t)
    BY <1>7 DEF RestoreInv
  <2>a. EntriesSound /\ EntriesSound'
    BY LogSound, PTL
  <2>2. Spare(t) \subseteq Spare(t)'
    BY <1>2, <1>5, <2>a, SpareStays
  <2>3. NotesTrue(t)'
    BY <1>1, <2>1, <2>2 DEF NotesTrue
  <2>4. Undoing(t)' => Undoing(t)
    BY DEF Undoing, Active
  <2>5. Held' = Held /\ Back' = Back
    BY <1>2, <1>4, <1>5, HeldMovesOn DEF Back
  <2>6. UndoTrue(t)'
    BY <1>1, <1>5, <2>1, <2>4, <2>5 DEF UndoTrue, Undoing
  <2>. QED
    BY <2>3, <2>6
<1>. QED
  BY <1>2, <1>3, <1>5, <1>6, <1>7, RestoreFrame DEF RestoreMovesOn

\* The executor t ends, or its task goes back to the queue.
LEMMA RestoreLeave ==
  ASSUME OnceInv, OnceInv', RestoreInv, HalfwayStays, NEW t \in Task, Active(t),
         NEW state \in {"queued", "done"}, Leave(t, state), UNCHANGED <<cps, label>>,
         job'.dry = job.dry,
         ~job.dry => excused \subseteq excused' /\ Uncommitted(t) \subseteq excused',
         ~job.dry /\ job'.status = "rolled_back" =>
           job.status = "rolled_back" \/ RolledBack'
  PROVE  RestoreInv'
<1>1. /\ task' = [task EXCEPT ![t].state = state]
      /\ w' = [w EXCEPT ![t] = NewExecutor] /\ w'[t] = NewExecutor
      /\ mem' = [mem EXCEPT ![t] = NewMemory] /\ mem'[t] = NewMemory
  BY RestoreParts DEF Leave, Become, Remember
<1>2. /\ task'[t].kind = task[t].kind /\ task'[t].state = state
      /\ task[t].state = "running"
  BY <1>1, RestoreParts DEF TaskRow, Active
<1>3. OnlyTask(t)
  BY <1>1, RestoreParts DEF OnlyTask
<1>4. NewMemory.applied = <<>> /\ NewExecutor.pc = "idle"
  BY DEF NewMemory, NewExecutor
<1>5. KindFits(t)' /\ HandFits(t)'
  BY <1>1, <1>2, <1>4 DEF KindFits, HandFits, Active
<1>6. ASSUME ~job.dry PROVE RestoreMovesOn(t)
  <2>1. Uncommitted(t)' = {}
    BY <1>1, <1>4 DEF Uncommitted
  <2>2. HandMovesOn(t)
    BY <1>6, <2>1, NothingNew DEF CpsOf
  <2>3. LabelsMoveOn(t) /\ CheckpointsMoveOn /\ StatusMovesOn(t)
    BY <1>2, <1>6 DEF LabelsMoveOn, CheckpointsMoveOn, StatusMovesOn, CpsOf
  <2>4. NotesTrue(t)' /\ UndoTrue(t)'
    BY <1>1, <1>2, <1>4 DEF NotesTrue, UndoTrue, Undoing, Active
  <2>. QED
    BY <2>2, <2>3, <2>4 DEF RestoreMovesOn
<1>. QED
  BY <1>3, <1>5, <1>6, RestoreFrame

LEMMA RestoreAbandon ==
  ASSUME OnceInv, OnceInv', RestoreInv, HalfwayStays, NEW t \in Task, Active(t),
         NEW state \in {"queued", "done"}, Abandon(t, state), UNCHANGED <<cps, label>>,
         job'.dry = job.dry, job'.status = "rolled_back" => job.status = "rolled_back"
  PROVE  RestoreInv'
BY RestoreLeave DEF Abandon

\* The API enqueues a task, or leaves the executors alone.
LEMMA RestoreApi ==
  ASSUME OnceInv, OnceInv', RestoreInv, HalfwayStays, ApiNext \/ UNCHANGED vars
  PROVE  RestoreInv'
<1>1. /\ UNCHANGED <<cps, w, mem, label, excused>>
      /\ job' = job \/ \E s \in Statuses \ {"rolled_back"} : job' = [job EXCEPT !.status = s]
  BY DEF ApiNext, UserRequest, Start, Pause, Resume, Cancel, Rollback, Accept,
         ApiSettle, Dispatch, SendSignal, LoseDispatch, SignalExpires, vars,
         Statuses
<1>2. job'.dry = job.dry /\ (job'.status = "rolled_back" => job.status = "rolled_back")
  BY <1>1, RestoreParts
<1>3. PICK t \in Task :
        \/ task' = task
        \/ /\ task[t].state = "none"
           /\ \E kind \in {"run", "rollback"} :
                task' = [task EXCEPT ![t] = [kind |-> kind, state |-> "queued",
                                             tries |-> 0]]
  <2>1. 0 \in Task
    BY ConstantTypes DEF Task
  <2>. QED
    BY <2>1 DEF ApiNext, UserRequest, Start, Pause, Resume, Cancel, Rollback,
         Accept, ApiSettle, Dispatch, SendSignal, LoseDispatch, SignalExpires, vars
<1>4. OnlyTask(t)
  BY <1>1, <1>3, RestoreParts DEF OnlyTask
<1>5. /\ Active(t)' => Active(t) /\ task'[t] = task[t]
      /\ task[t].state = "done" => task'[t] = task[t]
      /\ ~Active(t)' => ~Active(t)
      /\ task'[t].kind = task[t].kind \/ (~Active(t) /\ ~Active(t)')
  BY <1>3, RestoreParts DEF Active
<1>6. KindFits(t) /\ HandFits(t)
  BY DEF RestoreInv
<1>7. KindFits(t)' /\ HandFits(t)'
  BY <1>1, <1>5, <1>6 DEF KindFits, HandFits, Active, RollsBack
<1>8. Uncommitted(t)' = Uncommitted(t)
  <2>1. CASE task'[t].kind = task[t].kind
    BY <1>1, <2>1 DEF Uncommitted
  <2>2. CASE ~Active(t)
    <3>1. mem[t].applied = <<>> /\ mem'[t].applied = <<>>
      BY <1>1, <1>6, <2>2 DEF HandFits
    <3>2. Uncommitted(t) = {} /\ Uncommitted(t)' = {}
      BY <3>1 DEF Uncommitted
    <3>. QED
      BY <3>2
  <2>. QED
    BY <1>5, <2>1, <2>2
<1>9. AllApplied' = AllApplied /\ HandMovesOn(t)
  BY <1>1, <1>8, NothingNew DEF CpsOf
<1>10. ASSUME ~job.dry PROVE RestoreMovesOn(t)
  <2>1. LabelsMoveOn(t) /\ CheckpointsMoveOn /\ StatusMovesOn(t)
    BY <1>1, <1>2, <1>5 DEF LabelsMoveOn, CheckpointsMoveOn, StatusMovesOn, CpsOf
  <2>2. NotesTrue(t) /\ UndoTrue(t)
    BY <1>10 DEF RestoreInv
  <2>a. EntriesSound /\ EntriesSound'
    BY LogSound, PTL
  <2>3. Spare(t) \subseteq Spare(t)'
    BY <1>4, <1>9, <2>a, SpareStays
  <2>4. CurrentFile(t)' = CurrentFile(t)
    BY <1>1 DEF CurrentFile
  <2>5. NotesTrue(t)'
    BY <1>1, <1>5, <1>6, <2>2, <2>3, <2>4 DEF NotesTrue, HandFits
  <2>6. Held' = Held /\ Back' = Back
    BY <1>1, <1>4, <1>8, <1>9, HeldMovesOn DEF Back
  <2>7. UndoTrue(t)'
    BY <1>1, <1>5, <1>9, <2>2, <2>6 DEF UndoTrue, Undoing
  <2>. QED
    BY <1>9, <2>1, <2>5, <2>7 DEF RestoreMovesOn
<1>. QED
  BY <1>2, <1>4, <1>7, <1>10, RestoreFrame

-----------------------------------------------------------------------------
(* Checkpoints.                                                            *)

\* The end of a batch: what was noted is logged.
LEMMA RestoreLogs ==
  ASSUME OnceInv, OnceInv', RestoreInv, HalfwayStays, NEW t \in Task, Active(t),
         NEW c \in Checkpoint, NEW r, NEW e, NEW m, Commit(t, c, r, e, m),
         c.type = "labelling", Labels(w[t]), c.batch = w[t].batch,
         c.applied = mem[t].applied, m.applied = <<>>, task[t].kind = "run",
         ~RollsBack(e), e.pc # "apply", r.dry = job.dry,
         r.status = "rolled_back" => job.status = "rolled_back"
  PROVE  RestoreInv'
<1>1. CASE ~Insertable(c.type, c.batch)
  <2>1. Abandon(t, "done") /\ UNCHANGED <<cps, label, job>>
    BY <1>1 DEF Commit
  <2>. QED
    BY <2>1, RestoreAbandon
<1>2. CASE Insertable(c.type, c.batch)
  <2> DEFINE A == AllApplied
             B == AllApplied'
             q == mem[t].applied
  <2>1. /\ cps' = cps \cup {c} /\ job' = r /\ Become(t, e) /\ Remember(t, m)
        /\ UNCHANGED <<task, excused, label>>
    BY <1>2 DEF Commit
  <2>2. /\ w' = [w EXCEPT ![t] = e] /\ w'[t] = e
        /\ mem' = [mem EXCEPT ![t] = m] /\ mem'[t] = m
    BY <2>1, RestoreParts DEF Become, Remember
  <2>3. OnlyTask(t)
    BY <2>1, <2>2, RestoreParts DEF OnlyTask
  <2>4. KindFits(t)' /\ HandFits(t)'
    BY <2>1, <2>2 DEF KindFits, HandFits, Active, RollsBack
  <2>5. B = A \o q /\ A \in Seq(Entry) /\ q \in Seq(Entry)
    <3>1. c.batch = Batches("labelling")
      BY <1>2, RestoreParts, LabelsAtTheEnd
    <3>2. CpsOf("labelling")' = CpsOf("labelling") \cup {c}
      BY <2>1 DEF CpsOf
    <3>3. Dense("labelling") /\ cps \subseteq Checkpoint
      BY RestoreParts, LogParts DEF DataOK
    <3>4. B = A \o c.applied
      BY <3>1, <3>2, <3>3, AllAppliedGrows
    <3>. QED
      BY <3>4, RestoreParts
  <2>6. CpsOf("rollback")' = CpsOf("rollback")
    BY <2>1 DEF CpsOf
  <2>7. Uncommitted(t) = { q[i].file : i \in 1 .. Len(q) } /\ Uncommitted(t)' = {}
    <3>1. DOMAIN q = 1 .. Len(q)
      BY <2>5
    <3>2. mem'[t].applied = <<>>
      BY <2>2
    <3>3. Uncommitted(t)' = {}
      BY <3>2 DEF Uncommitted
    <3>. QED
      BY <3>1, <3>3 DEF Uncommitted
  <2>8. EntriesSound /\ EntriesSound'
    BY LogSound, PTL
  <2>9. \A i, j \in 1 .. Len(B) : B[i].file = B[j].file => i = j
    BY <2>8 DEF EntriesSound
  <2>10. Logged = { A[i].file : i \in 1 .. Len(A) }
         /\ Logged' = { B[i].file : i \in 1 .. Len(B) }
    BY DEF Logged
  <2> HIDE DEF A, B, q
  <2>11. /\ Len(A) \in Nat /\ Len(q) \in Nat /\ Len(B) = Len(A) + Len(q)
         /\ \A i \in 1 .. Len(A) : i \in 1 .. Len(B) /\ B[i] = A[i]
         /\ \A i \in 1 .. Len(q) : Len(A) + i \in 1 .. Len(B) /\ B[Len(A) + i] = q[i]
    BY <2>5
  <2>12. \A i \in 1 .. Len(q) : q[i].file \in Logged' /\ q[i].file \notin Logged
    <3> TAKE i \in 1 .. Len(q)
    <3>1. q[i].file \in Logged'
      BY <2>10, <2>11
    <3>2. ASSUME NEW j \in 1 .. Len(A), A[j].file = q[i].file PROVE FALSE
      <4>1. j = Len(A) + i
        BY <2>9, <2>11, <3>2
      <4>. QED
        BY <2>11, <4>1
    <3>. QED
      BY <2>10, <3>1, <3>2
  <2>13. ASSUME ~job.dry PROVE HandMovesOn(t)
    <3>1. Prefix(A, B)
      BY <2>11 DEF Prefix
    <3>2. Uncommitted(t) \subseteq Uncommitted(t)' \cup excused' \cup (Logged' \ Logged)
      BY <2>7, <2>12
    <3>3. ASSUME NEW i \in 1 .. Len(B), i > Len(A)
          PROVE  /\ B[i].file \in Uncommitted(t)
                 /\ \/ B[i].previous = InitLabel[B[i].file]
                    \/ B[i].file \in excused' \cup HeldBut(t)
      <4>1. i - Len(A) \in 1 .. Len(q) /\ B[i] = q[i - Len(A)]
        BY <2>11, <3>3
      <4> DEFINE n == i - Len(A)
      <4> HIDE DEF n
      <4>2. n \in 1 .. Len(q) /\ B[i] = q[n]
        BY <4>1 DEF n
      <4>3. q[n].previous = InitLabel[q[n].file] \/ q[n].file \in Spare(t)
        BY <2>13, <4>2 DEF RestoreInv, NotesTrue, q
      <4>. QED
        BY <2>1, <2>7, <2>12, <4>2, <4>3 DEF Spare
    <3>. QED
      BY <2>1, <2>7, <3>1, <3>2, <3>3 DEF HandMovesOn, A, B
  <2>14. LabelsMoveOn(t) /\ CheckpointsMoveOn /\ StatusMovesOn(t)
    BY <2>1, <2>6 DEF LabelsMoveOn, CheckpointsMoveOn, StatusMovesOn
  <2>15. NotesTrue(t)' /\ UndoTrue(t)'
    BY <2>1, <2>2 DEF NotesTrue, UndoTrue, Undoing
  <2>. QED
    BY <2>1, <2>3, <2>4, <2>13, <2>14, <2>15, RestoreFrame DEF RestoreMovesOn
<1>. QED
  BY <1>1, <1>2

\* Any other checkpoint: one of the rollback says how far it is.
LEMMA RestoreOther ==
  ASSUME OnceInv, OnceInv', RestoreInv, HalfwayStays, NEW t \in Task, Active(t),
         NEW c \in Checkpoint, NEW r, NEW e, Commit(t, c, r, e, mem[t]),
         c.type # "labelling", r.dry = job.dry,
         r.status = "rolled_back" => job.status = "rolled_back",
         RollsBack(e) <=> RollsBack(w[t]),
         e.pc \notin { "capture", "apply", "labelCommit" },
         c.type = "rollback" =>
           /\ task[t].kind = "rollback" /\ c.index = w[t].counted
           /\ w[t].pc \in { "rb", "undo", "rbCommit", "ack", "stop" },
         task[t].kind = "run" => w[t].pc \notin { "capture", "apply", "labelCommit" },
         task[t].kind = "rollback" =>
           /\ w[t].pc # "rbInit" /\ e.index + e.k = w[t].index + w[t].k
           /\ e.pc \in { "rb", "undo", "rbCommit", "ack", "stop" } =>
                /\ e.counted = w[t].counted
                /\ w[t].pc \in { "rb", "undo", "rbCommit", "ack", "stop" }
  PROVE  RestoreInv'
<1>1. CASE ~Insertable(c.type, c.batch)
  <2>1. Abandon(t, "done") /\ UNCHANGED <<cps, label, job>>
    BY <1>1 DEF Commit
  <2>. QED
    BY <2>1, RestoreAbandon
<1>2. CASE Insertable(c.type, c.batch)
  <2>1. /\ cps' = cps \cup {c} /\ job' = r /\ Become(t, e)
        /\ Remember(t, mem[t]) /\ UNCHANGED <<task, excused, label>>
    BY <1>2 DEF Commit
  <2>2. /\ w' = [w EXCEPT ![t] = e] /\ w'[t] = e /\ mem' = mem
    BY <2>1, RestoreParts DEF Become, Remember
  <2>3. OnlyTask(t)
    BY <2>1, <2>2, RestoreParts DEF OnlyTask
  <2>4. KindFits(t)' /\ HandFits(t)'
    <3>1. KindFits(t) /\ HandFits(t)
      BY DEF RestoreInv
    <3>2. RollsBack(w[t])' <=> RollsBack(w[t])
      BY <2>2 DEF RollsBack
    <3>. QED
      BY <2>1, <2>2, <3>1, <3>2 DEF KindFits, HandFits, Active
  <2>5. Uncommitted(t)' = Uncommitted(t)
    BY <2>1, <2>2 DEF Uncommitted
  <2>6. AllApplied' = AllApplied /\ HandMovesOn(t)
    BY <2>1, <2>5, NothingNew DEF CpsOf
  <2>7. LabelsMoveOn(t) /\ StatusMovesOn(t)
    BY <2>1 DEF LabelsMoveOn, StatusMovesOn
  <2>8. Back' = Back /\ Held' = Held
    BY <2>1, <2>3, <2>5, <2>6, HeldMovesOn DEF Back
  <2>9. ASSUME ~job.dry PROVE NotesTrue(t)' /\ UndoTrue(t)' /\ CheckpointsMoveOn
    <3>1. NotesTrue(t) /\ UndoTrue(t)
      BY <2>9 DEF RestoreInv
    <3>2. Spare(t)' = Spare(t)
      BY <2>1, <2>3, <2>6, HeldMovesOn DEF Spare, Logged
    <3>3. NotesTrue(t)'
      BY <2>1, <2>2, <3>1, <3>2 DEF NotesTrue
    <3>4. UndoTrue(t)'
      BY <2>1, <2>2, <2>6, <2>8, <3>1 DEF UndoTrue, Undoing, Active
    <3>5. CheckpointsMoveOn
      <4> SUFFICES ASSUME c.type = "rollback"
                   PROVE  /\ c.index <= Len(AllApplied)
                          /\ \A i \in 1 .. c.index : AllApplied[i].file \in Back
        BY <2>1 DEF CheckpointsMoveOn, CpsOf
      <4>1. Undoing(t)
        BY DEF Undoing
      <4> DEFINE s == mem[t].applied
                 n == w[t].index + w[t].k
      <4>2. /\ Prefix(s, AllApplied) /\ c.index <= n /\ n <= Len(s)
            /\ \A i \in 1 .. Len(s) : i <= n => s[i].file \in Back
        BY <3>1, <4>1 DEF UndoTrue
      <4>3. c.index \in Nat /\ n \in Nat /\ Len(s) \in Nat /\ Len(AllApplied) \in Nat
        BY RestoreParts DEF Executor, Checkpoint
      <4> HIDE DEF s, n
      <4>. QED
        BY <4>2, <4>3 DEF Prefix
    <3>. QED
      BY <3>3, <3>4, <3>5
  <2>. QED
    BY <2>1, <2>3, <2>4, <2>6, <2>7, <2>9, RestoreFrame DEF RestoreMovesOn
<1>. QED
  BY <1>1, <1>2

-----------------------------------------------------------------------------
(* The actions.                                                            *)

\* A task begins or is cut off.
LEMMA RestoreTask ==
  ASSUME OnceInv, OnceInv', RestoreInv, HalfwayStays, NEW t \in Task, BeginTask(t) \/ Disrupt(t)
  PROVE  RestoreInv'
<1>1. CASE BeginTask(t)
  <2> DEFINE pc == IF task[t].kind = "rollback" THEN "rbInit"
                   ELSE CASE job.status = "enumerating" -> "enumInit"
                          [] job.status = "running" -> "labelInit"
                          [] OTHER -> "final"
             e == [NewExecutor EXCEPT !.st = job.status, !.pc = pc]
  <2>1. /\ task[t].state = "queued"
        /\ task' = [task EXCEPT ![t].state = "running", ![t].tries = @ + 1]
        /\ w' = [w EXCEPT ![t] = e]
        /\ UNCHANGED <<job, cps, mem, label, excused>>
    BY <1>1 DEF BeginTask, Become
  <2>2. e.pc = pc
    BY DEF NewExecutor
  <2>3. /\ (task[t].kind = "rollback") => (pc = "rbInit")
        /\ (task[t].kind # "rollback") => (pc \in {"enumInit", "labelInit", "final"})
    OBVIOUS
  <2> HIDE DEF e, pc
  <2>4. /\ w'[t].pc = pc /\ mem[t].applied = <<>>
        /\ task'[t].kind = task[t].kind /\ task'[t].state = "running"
    BY <2>1, <2>2, RestoreParts DEF RestoreInv, HandFits, Active, TaskRow
  <2>5. OnlyTask(t)
    BY <2>1, RestoreParts DEF OnlyTask
  <2>6. KindFits(t)' /\ HandFits(t)'
    BY <2>1, <2>3, <2>4 DEF KindFits, HandFits, Active, RollsBack, RollbackPCs
  <2>7. Uncommitted(t)' = Uncommitted(t)
    BY <2>1, <2>4 DEF Uncommitted
  <2>8. HandMovesOn(t)
    BY <2>1, <2>7, NothingNew DEF CpsOf
  <2>9. LabelsMoveOn(t) /\ CheckpointsMoveOn /\ StatusMovesOn(t)
    BY <2>1 DEF LabelsMoveOn, CheckpointsMoveOn, StatusMovesOn, CpsOf
  <2>10. NotesTrue(t)' /\ UndoTrue(t)'
    BY <2>1, <2>3, <2>4 DEF NotesTrue, UndoTrue, Undoing
  <2>. QED
    BY <2>1, <2>5, <2>6, <2>8, <2>9, <2>10, RestoreFrame DEF RestoreMovesOn
<1>2. CASE Disrupt(t)
  <2>1. /\ Active(t) /\ UNCHANGED <<cps, label>>
        /\ \E state \in {"queued", "done"} : Abandon(t, state)
        /\ job' = job \/ job' = [job EXCEPT !.status = "failed"]
    BY <1>2 DEF Disrupt, Crash, Die, Timeout, Raise
  <2>2. job'.dry = job.dry /\ (job'.status = "rolled_back" => job.status = "rolled_back")
    BY <2>1, RestoreParts
  <2>. QED
    BY <2>1, <2>2, RestoreAbandon
<1>. QED
  BY <1>1, <1>2

LEMMA RestoreSignalled ==
  ASSUME OnceInv, OnceInv', RestoreInv, HalfwayStays, NEW t \in Task, Signalled(t)
  PROVE  RestoreInv'
<1>p. /\ w[t] \in Executor /\ PhaseFits(w[t]) /\ Fits(w[t], mem[t])
      /\ KindFits(t) /\ HandFits(t)
  BY RestoreParts DEF RestoreInv
<1>k. Active(t) /\ (task[t].kind = "run" <=> ~RollsBack(w[t]))
  <2>1. Active(t)
    BY DEF Signalled, SeeSignal, AckSignal, StopOnSignal, At
  <2>2. task[t].kind \in {"run", "rollback"}
    BY RestoreParts DEF TaskRow
  <2>. QED
    BY <1>p, <2>1, <2>2 DEF KindFits
<1>1. CASE SeeSignal(t) \/ AckSignal(t)
  <2>1. PICK e : /\ Become(t, e) /\ e.phase = w[t].phase /\ e.index = w[t].index
                 /\ e.k = w[t].k /\ e.counted = w[t].counted /\ e.pc \in {"ack", "stop"}
    <3>1. \A s \in {"pause", "cancel", "none"} :
            LET e == [w[t] EXCEPT !.pc = "ack", !.seen = s] IN
              /\ e.phase = w[t].phase /\ e.index = w[t].index
              /\ e.k = w[t].k /\ e.counted = w[t].counted /\ e.pc = "ack"
      BY <1>p DEF Executor
    <3>2. LET e == [w[t] EXCEPT !.pc = "stop"] IN
            /\ e.phase = w[t].phase /\ e.index = w[t].index
            /\ e.k = w[t].k /\ e.counted = w[t].counted /\ e.pc = "stop"
      BY <1>p DEF Executor
    <3>3. signal \in {"pause", "cancel", "none"}
      BY RestoreParts DEF ControlOK, Signals, NoSignal
    <3>. QED
      BY <1>1, <3>1, <3>2, <3>3 DEF SeeSignal, AckSignal, Goto
  <2>2. /\ UNCHANGED <<cps, mem, task, label, excused, job>>
        /\ w[t].pc \in {"enum", "list", "label", "rb", "ack"}
    BY <1>1 DEF SeeSignal, AckSignal, At
  <2>3. RollsBack(e) <=> RollsBack(w[t])
    BY <1>p, <2>1, <2>2 DEF RollsBack, RollbackPCs, PhaseFits
  <2>4. task[t].kind = "run" => mem[t].applied = <<>>
    BY <1>p, <2>2 DEF HandFits
  <2>5. task[t].kind = "rollback" => w[t].pc \in {"rb", "ack"}
    BY <1>k, <2>2 DEF RollsBack, RollbackPCs
  <2>. QED
    BY <1>k, <2>1, <2>2, <2>3, <2>4, <2>5, RestoreMoves DEF CpsOf
<1>3. CASE StopOnSignal(t)
  <2> DEFINE e == w[t]
             s == IF e.seen = "pause" THEN "paused" ELSE "failed"
             c == [type |-> e.phase, batch |-> e.batch,
                   sites |-> e.sites, total |-> e.total, files |-> <<>>,
                   index |-> IF e.phase = "rollback" THEN e.counted
                             ELSE e.index,
                   counted |-> e.counted, applied |-> <<>>]
             r == [job EXCEPT !.status = WithStatus(t, s)]
             f == [e EXCEPT !.st = s,
                            !.pc = CASE e.phase = "enumeration" -> "enumEnd"
                                     [] e.phase = "labelling" -> "final"
                                     [] OTHER -> "rbEnd"]
  <2>1. Commit(t, c, r, f, mem[t]) /\ w[t].pc = "stop"
    BY <1>3 DEF StopOnSignal, At
  <2>2. /\ e.phase \in {"enumeration", "labelling", "rollback"}
        /\ f.pc = IF e.phase = "enumeration" THEN "enumEnd"
                  ELSE IF e.phase = "labelling" THEN "final" ELSE "rbEnd"
        /\ f.index = e.index /\ f.k = e.k /\ f.counted = e.counted
    BY <1>p DEF Executor, CheckpointTypes
  <2>3. /\ c.type = e.phase /\ c.batch = e.batch /\ c.applied = <<>>
        /\ e.phase = "rollback" => c.index = e.counted
    OBVIOUS
  <2>4. c \in Checkpoint
    BY <1>p DEF Executor, Checkpoint
  <2>5. r.dry = job.dry /\ (r.status = "rolled_back" => job.status = "rolled_back")
    BY RestoreParts DEF WithStatus
  <2> HIDE DEF c, r, f
  <2>6. (RollsBack(f) <=> RollsBack(w[t])) /\ (RollsBack(w[t]) <=> e.phase = "rollback")
    BY <2>1, <2>2 DEF RollsBack, RollbackPCs
  <2>7. task[t].kind = "run" => mem[t].applied = <<>>
    BY <1>p, <2>1 DEF HandFits
  <2>8. CASE e.phase = "labelling"
    <3>1. Labels(w[t]) /\ task[t].kind = "run" /\ ~RollsBack(f) /\ f.pc # "apply"
      BY <1>k, <2>1, <2>2, <2>6, <2>8 DEF Labels
    <3>. QED
      BY <1>k, <2>1, <2>3, <2>4, <2>5, <2>7, <2>8, <3>1, RestoreLogs
  <2>9. CASE e.phase # "labelling"
    <3>1. /\ c.type # "labelling"
          /\ f.pc \in {"enumEnd", "rbEnd"} /\ w[t].pc = "stop"
          /\ c.type = "rollback" => task[t].kind = "rollback" /\ c.index = w[t].counted
      BY <1>k, <2>1, <2>2, <2>3, <2>6, <2>9, RestoreParts DEF TaskRow
    <3>2. RollsBack(f) <=> RollsBack(w[t])
      BY <2>6
    <3>. QED
      BY <1>k, <2>1, <2>2, <2>4, <2>5, <3>1, <3>2, RestoreOther
  <2>. QED
    BY <2>8, <2>9
<1>. QED
  BY <1>1, <1>3 DEF Signalled

\* A run goes on, between its batches.
LEMMA RestoreRuns ==
  ASSUME OnceInv, OnceInv', RestoreInv, HalfwayStays, NEW t \in Task, Active(t), NEW e,
         Become(t, e), UNCHANGED <<task, mem, label, excused>>,
         CpsOf("labelling")' = CpsOf("labelling"),
         CpsOf("rollback")' = CpsOf("rollback"), job'.dry = job.dry,
         job'.status = "rolled_back" => job.status = "rolled_back",
         w[t].pc \in { "enumInit", "enum", "list", "enumEnd", "toRunning",
                       "labelInit", "label", "final" },
         e.pc \notin RollbackPCs \cup { "ack", "stop", "apply" }
  PROVE  RestoreInv'
<1>1. ~RollsBack(w[t]) /\ ~RollsBack(e)
  BY DEF RollsBack, RollbackPCs
<1>2. task[t].kind = "run" /\ mem[t].applied = <<>>
  BY <1>1, RestoreParts DEF RestoreInv, KindFits, HandFits, TaskRow
<1>. QED
  BY <1>1, <1>2, RestoreMoves

LEMMA RestoreEnumerate ==
  ASSUME OnceInv, OnceInv', RestoreInv, HalfwayStays, NEW t \in Task, Enumerate(t)
  PROVE  RestoreInv'
<1>p. w[t] \in Executor /\ KindFits(t) /\ HandFits(t) /\ job.status \in Statuses
  BY RestoreParts DEF RestoreInv
<1>1. CASE EnumInit(t) \/ NextSite(t) \/ SkipSite(t) \/ AfterEnum(t) \/ ToRunning(t)
  <2>1. PICK e : Become(t, e) /\ e.pc \in { "enum", "list", "toRunning", "labelInit", "final" }
    <3>1. ASSUME EnumInit(t)
          PROVE  \E e : Become(t, e) /\ e.pc = "enum"
      <4>1. PICK sites, total, batch : EnumFrom(t, sites, total, batch)
        BY <3>1 DEF EnumInit
      <4> DEFINE e == [w[t] EXCEPT !.pc = "enum", !.phase = "enumeration",
                         !.todo = Site \ sites, !.sites = sites,
                         !.total = total, !.batch = batch]
      <4>2. e.pc = "enum" /\ Become(t, e)
        BY <1>p, <4>1 DEF EnumFrom, Executor
      <4> HIDE DEF e
      <4>. QED
        BY <4>2
    <3>2. ASSUME NextSite(t)
          PROVE  \E e : Become(t, e) /\ e.pc = "list"
      <4>1. [w[t] EXCEPT !.pc = "list"].pc = "list"
        BY <1>p DEF Executor
      <4>. QED
        BY <3>2, <4>1 DEF NextSite, Goto
    <3>3. ASSUME SkipSite(t)
          PROVE  \E e : Become(t, e) /\ e.pc = "enum"
      <4>1. PICK s \in w[t].todo :
              Become(t, [w[t] EXCEPT !.pc = "enum", !.todo = @ \ {s}])
        BY <3>3 DEF SkipSite
      <4>2. [w[t] EXCEPT !.pc = "enum", !.todo = @ \ {s}].pc = "enum"
        BY <1>p DEF Executor
      <4>. QED
        BY <4>1, <4>2
    <3>4. ASSUME AfterEnum(t)
          PROVE  \E e : Become(t, e) /\ e.pc \in { "toRunning", "labelInit", "final" }
      <4> DEFINE pc == CASE job.status = "enumerating" -> "toRunning"
                         [] job.status = "running" -> "labelInit"
                         [] OTHER -> "final"
                 e == [w[t] EXCEPT !.st = job.status, !.pc = pc]
      <4>1. Become(t, e) /\ e.pc = pc /\ pc \in { "toRunning", "labelInit", "final" }
        BY <1>p, <3>4 DEF AfterEnum, Executor
      <4> HIDE DEF e, pc
      <4>. QED
        BY <4>1
    <3>5. ASSUME ToRunning(t)
          PROVE  \E e : Become(t, e) /\ e.pc = "labelInit"
      <4>1. [w[t] EXCEPT !.pc = "labelInit", !.st = "running"].pc = "labelInit"
        BY <1>p DEF Executor
      <4>. QED
        BY <3>5, <4>1 DEF ToRunning, RunAndGoto
    <3>. QED
      BY <1>1, <3>1, <3>2, <3>3, <3>4, <3>5
  <2>2. /\ Active(t) /\ UNCHANGED <<task, mem, label, excused, cps>>
        /\ w[t].pc \in { "enumInit", "enum", "list", "enumEnd", "toRunning" }
        /\ job' = job \/ job' = [job EXCEPT !.status = "running"]
    BY <1>1 DEF EnumInit, NextSite, SkipSite, AfterEnum, ToRunning, RunAndGoto, At
  <2>3. job'.dry = job.dry /\ (job'.status = "rolled_back" => job.status = "rolled_back")
    BY <2>2, RestoreParts
  <2>. QED
    BY <2>1, <2>2, <2>3, RestoreRuns DEF CpsOf, RollbackPCs
<1>2. CASE ListSite(t)
  <2>0. PICK s \in w[t].todo : \E fs \in Listing[s] :
          LET e == [w[t] EXCEPT !.sites = @ \cup {s}, !.total = @ + Len(fs)]
              c == [type |-> "enumeration", batch |-> e.batch,
                    sites |-> e.sites, total |-> e.total, files |-> fs,
                    index |-> 0, counted |-> 0, applied |-> <<>>]
          IN Commit(t, c, [job EXCEPT !.total = e.total],
                    [e EXCEPT !.pc = "enum", !.todo = @ \ {s}, !.batch = @ + 1],
                    mem[t])
    BY <1>2 DEF ListSite
  <2>1. PICK fs \in Listing[s] :
          LET e == [w[t] EXCEPT !.sites = @ \cup {s}, !.total = @ + Len(fs)]
              c == [type |-> "enumeration", batch |-> e.batch,
                    sites |-> e.sites, total |-> e.total, files |-> fs,
                    index |-> 0, counted |-> 0, applied |-> <<>>]
          IN Commit(t, c, [job EXCEPT !.total = e.total],
                    [e EXCEPT !.pc = "enum", !.todo = @ \ {s}, !.batch = @ + 1],
                    mem[t])
    BY <2>0
  <2> DEFINE d == [w[t] EXCEPT !.sites = @ \cup {s}, !.total = @ + Len(fs)]
             c == [type |-> "enumeration", batch |-> d.batch,
                   sites |-> d.sites, total |-> d.total, files |-> fs,
                   index |-> 0, counted |-> 0, applied |-> <<>>]
             r == [job EXCEPT !.total = d.total]
             e == [d EXCEPT !.pc = "enum", !.todo = @ \ {s}, !.batch = @ + 1]
  <2>2. Commit(t, c, r, e, mem[t]) /\ Active(t) /\ w[t].pc = "list"
    BY <1>2, <2>1 DEF ListSite, At
  <2>3. s \in Site /\ fs \in Seq(File) /\ Len(fs) \in Nat
    BY <1>p, StoreAssumption DEF Executor, StoreAssumption
  <2>4. /\ d.batch \in Nat /\ d.sites \subseteq Site /\ d.total \in Nat
        /\ e.pc = "enum"
    BY <1>p, <2>3 DEF Executor
  <2>5. c \in Checkpoint /\ c.type = "enumeration"
    <3> HIDE DEF d
    <3>. QED
      BY <2>3, <2>4 DEF Checkpoint, CheckpointTypes
  <2>6. r.dry = job.dry /\ r.status = job.status
    BY RestoreParts
  <2>7. ~RollsBack(e) /\ ~RollsBack(w[t]) /\ task[t].kind = "run"
    BY <1>p, <2>2, <2>4, RestoreParts DEF RollsBack, RollbackPCs, KindFits, TaskRow
  <2> HIDE DEF c, d, e, r
  <2>. QED
    BY <2>2, <2>4, <2>5, <2>6, <2>7, RestoreOther
<1>. QED
  BY <1>1, <1>2 DEF Enumerate

\* The file in hand is none of those its executor has noted already.
LEMMA NotNotedYet ==
  ASSUME OnceInv, NEW t \in Task, w[t].pc \in { "capture", "apply" }
  PROVE  CurrentFile(t) \in File /\ CurrentFile(t) \notin Uncommitted(t)
<1>1. /\ LogInv /\ InHand(w[t], mem[t]) /\ Fits(w[t], mem[t])
      /\ mem[t] \in Memory /\ Manifest \in Seq(File) /\ Distinct(Manifest)
  BY OnceParts, LogParts DEF LogOnce
<1> DEFINE n == w[t].index + w[t].k
           q == mem[t].applied
           g == mem[t].files
<1>2. /\ n \in Nat /\ w[t].index \in Nat /\ n + 1 \in 1 .. Len(g)
      /\ CurrentFile(t) \in File /\ CurrentFile(t) = g[n + 1]
  BY <1>1, FileInHand DEF CurrentFile
<1>3. \A i \in 1 .. Len(q) : \E p \in w[t].index + 1 .. n : q[i].file = g[p]
  BY <1>1 DEF InHand, Labels
<1>4. Prefix(g, Manifest) /\ q \in Seq(Entry) /\ Len(g) \in Nat
  BY <1>1 DEF Fits, LabelFits, Labels, Memory
<1> HIDE DEF n, q, g
<1>5. \A i \in 1 .. Len(q) : q[i].file # g[n + 1]
  <2> SUFFICES ASSUME NEW i \in 1 .. Len(q), q[i].file = g[n + 1] PROVE FALSE
    OBVIOUS
  <2>1. PICK p \in w[t].index + 1 .. n : g[n + 1] = g[p]
    BY <1>3
  <2>2. /\ p \in 1 .. Len(Manifest) /\ n + 1 \in 1 .. Len(Manifest)
        /\ Manifest[p] = Manifest[n + 1] /\ p # n + 1
    BY <1>1, <1>2, <1>4, <2>1 DEF Prefix
  <2>. QED
    BY <1>1, <2>2 DEF Distinct
<1>6. DOMAIN q = 1 .. Len(q)
  BY <1>4
<1>. QED
  BY <1>2, <1>5, <1>6 DEF Uncommitted, q

\* The executor t is done with a step of its current file.
LEMMA RestoreFile ==
  ASSUME OnceInv, OnceInv', RestoreInv, HalfwayStays, NEW t \in Task, Active(t),
         w[t].pc \in { "capture", "apply" },
         NEW e, Become(t, e), e.pc \in { "capture", "apply", "labelCommit" },
         NEW m, Remember(t, m), UNCHANGED <<task, cps, job>>,
         ~job.dry =>
           /\ excused \subseteq excused'
           /\ \A f \in File \ {CurrentFile(t)} : label'[f] = label[f]
           /\ \/ label' = label \/ CurrentFile(t) \in excused'
              \/ m.applied # mem[t].applied /\ ~RollbackBegun
           /\ \/ m.applied = mem[t].applied
              \/ /\ w[t].pc = "apply"
                 /\ RollbackBegun => CurrentFile(t) \in excused'
                 /\ \E dry \in BOOLEAN :
                      m.applied = Append(mem[t].applied,
                        [file |-> CurrentFile(t), previous |-> mem[t].previous,
                         dry |-> dry])
           /\ e.pc = "apply" =>
                /\ e.index = w[t].index /\ e.k = w[t].k /\ m.files = mem[t].files
                /\ m.previous = label[CurrentFile(t)] \/ CurrentFile(t) \in excused'
  PROVE  RestoreInv'
<1> DEFINE f == CurrentFile(t)
<1>1. /\ w' = [w EXCEPT ![t] = e] /\ w'[t] = e
      /\ mem' = [mem EXCEPT ![t] = m] /\ mem'[t] = m
  BY RestoreParts DEF Become, Remember
<1>2. OnlyTask(t)
  BY <1>1, RestoreParts DEF OnlyTask
<1>3. ~RollsBack(w[t]) /\ ~RollsBack(e)
  BY DEF RollsBack, RollbackPCs
<1>4. task[t].kind = "run"
  BY <1>3, RestoreParts DEF RestoreInv, KindFits, TaskRow
<1>5. KindFits(t)' /\ HandFits(t)'
  BY <1>1, <1>3, <1>4 DEF KindFits, HandFits, Active, RollsBack
<1>6. ASSUME ~job.dry PROVE RestoreMovesOn(t)
  <2> DEFINE q == mem[t].applied
  <2>0. q \in Seq(Entry) /\ f \in File /\ f \notin Uncommitted(t)
    BY RestoreParts, NotNotedYet
  <2>1. AllApplied' = AllApplied /\ Prefix(AllApplied, AllApplied')
    <3>1. CpsOf("labelling")' = CpsOf("labelling")
      BY DEF CpsOf
    <3>2. AllApplied' = AllApplied /\ AllApplied \in Seq(Entry)
      BY <3>1, OnceParts, LogParts, AllAppliedKept
    <3>. QED
      BY <3>2 DEF Prefix
  <2>2. Uncommitted(t) = { q[i].file : i \in DOMAIN q }
        /\ Uncommitted(t)' = { m.applied[i].file : i \in DOMAIN m.applied }
    BY <1>1, <1>4 DEF Uncommitted
  <2>3. \/ m.applied = q /\ Uncommitted(t)' = Uncommitted(t)
        \/ /\ w[t].pc = "apply" /\ (RollbackBegun => f \in excused')
           /\ Uncommitted(t)' = Uncommitted(t) \cup {f}
           /\ Len(m.applied) = Len(q) + 1
           /\ \A i \in 1 .. Len(q) : m.applied[i] = q[i]
           /\ m.applied[Len(q) + 1].file = f
           /\ m.applied[Len(q) + 1].previous = mem[t].previous
    <3>1. CASE m.applied = q
      BY <2>2, <3>1
    <3>2. CASE m.applied # q
      <4>1. PICK dry \in BOOLEAN :
              m.applied = Append(q, [file |-> f, previous |-> mem[t].previous,
                                     dry |-> dry])
        BY <1>6, <3>2
      <4> DEFINE d == [file |-> f, previous |-> mem[t].previous, dry |-> dry]
      <4>2. d.file = f /\ d.previous = mem[t].previous
        OBVIOUS
      <4> HIDE DEF d, f, q
      <4>3. m.applied = Append(q, d)
        BY <4>1 DEF d
      <4>4. /\ DOMAIN q = 1 .. Len(q) /\ Len(q) \in Nat
            /\ DOMAIN m.applied = 1 .. Len(q) + 1 /\ Len(m.applied) = Len(q) + 1
            /\ \A i \in 1 .. Len(q) : m.applied[i] = q[i]
            /\ m.applied[Len(q) + 1] = d
        BY <2>0, <4>3
      <4>5. Uncommitted(t)' = Uncommitted(t) \cup {f}
        BY <2>2, <4>2, <4>4
      <4>. QED
        BY <1>6, <3>2, <4>2, <4>4, <4>5 DEF f, q
    <3>. QED
      BY <3>1, <3>2
  <2>4. HandMovesOn(t)
    BY <1>6, <2>1, <2>3 DEF HandMovesOn, EntriesSound
  <2>5. LabelsMoveOn(t)
    <3> SUFFICES ASSUME NEW g \in File, label'[g] # label[g]
                 PROVE  g \in Back' \/ (g \in Uncommitted(t)' /\ ~RollbackBegun)
      BY DEF LabelsMoveOn
    <3>1. g = f
      BY <1>6
    <3>. QED
      BY <1>6, <2>0, <2>3, <3>1 DEF Back
  <2>6. CheckpointsMoveOn /\ StatusMovesOn(t)
    BY DEF CheckpointsMoveOn, StatusMovesOn, CpsOf
  <2>7. EntriesSound /\ EntriesSound'
    BY LogSound, PTL
  <2>8. Spare(t) \subseteq Spare(t)'
    BY <1>2, <2>4, <2>7, SpareStays
  <2>9. NotesTrue(t) /\ LabelsNoted
    BY <1>6 DEF RestoreInv
  <2>10. \A i \in 1 .. Len(m.applied) :
           \/ m.applied[i].previous = InitLabel[m.applied[i].file]
           \/ m.applied[i].file \in Spare(t)'
    <3>1. \A i \in 1 .. Len(q) :
            \/ q[i].previous = InitLabel[q[i].file]
            \/ q[i].file \in Spare(t)'
      BY <1>4, <2>8, <2>9 DEF NotesTrue
    <3>2. CASE m.applied = q
      BY <3>1, <3>2
    <3>3. CASE m.applied # q
      <4>1. /\ w[t].pc = "apply" /\ Len(m.applied) = Len(q) + 1
            /\ \A i \in 1 .. Len(q) : m.applied[i] = q[i]
            /\ m.applied[Len(q) + 1].file = f
            /\ m.applied[Len(q) + 1].previous = mem[t].previous
        BY <2>3, <3>3
      <4>2. mem[t].previous = InitLabel[f] \/ f \in Spare(t)'
        BY <2>8, <2>9, <4>1 DEF NotesTrue
      <4>3. Len(q) \in Nat
        BY <2>0
      <4> HIDE DEF q, f
      <4>4. \A i \in 1 .. Len(m.applied) : i \in 1 .. Len(q) \/ i = Len(q) + 1
        BY <4>1, <4>3
      <4>. QED
        BY <3>1, <4>1, <4>2, <4>4
    <3>. QED
      BY <3>2, <3>3
  <2>11. e.pc = "apply" => m.previous = InitLabel[f] \/ f \in Spare(t)'
    <3> SUFFICES ASSUME e.pc = "apply", f \notin excused', m.previous = label[f]
                 PROVE  m.previous = InitLabel[f] \/ f \in Spare(t)'
      BY <1>6 DEF Spare
    <3>1. f \in Back \/ f \in HeldBut(t) \/ f \in Logged
      BY <1>2, <2>0, <2>4, <2>9, HeldMovesOn DEF LabelsNoted
    <3>2. f \notin excused
      BY <1>6
    <3>. QED
      BY <2>8, <3>1, <3>2 DEF Back, Spare
  <2>12. e.pc = "apply" => CurrentFile(t)' = f
    BY <1>1, <1>6 DEF CurrentFile
  <2>13. NotesTrue(t)'
    <3> HIDE DEF f
    <3>. QED
      BY <1>1, <2>10, <2>11, <2>12 DEF NotesTrue
  <2>14. UndoTrue(t)'
    BY <1>4 DEF UndoTrue, Undoing
  <2>. QED
    BY <2>4, <2>5, <2>6, <2>13, <2>14 DEF RestoreMovesOn
<1>. QED
  BY <1>2, <1>5, <1>6, RestoreFrame

LEMMA RestoreLabelFile ==
  ASSUME OnceInv, OnceInv', RestoreInv, HalfwayStays, NEW t \in Task, LabelFile(t)
  PROVE  RestoreInv'
<1>p. w[t] \in Executor /\ mem[t] \in Memory /\ mem[t].applied \in Seq(Entry)
  BY RestoreParts
<1> DEFINE f == CurrentFile(t)
           pc == IF w[t].k + 1 = BatchLen(w[t].index, mem[t].files)
                   THEN "labelCommit" ELSE "capture"
<1>1. /\ Active(t) /\ w[t].pc \in { "capture", "apply" }
      /\ UNCHANGED <<task, cps, job>>
  BY DEF LabelFile, NoteDryRun, Capture, ApplyLabel, ApplyRefused, ApplyUnknown, At
<1>2. ASSUME NEW n, FileDone(t, n)
      PROVE  \E e : Become(t, e) /\ e.pc \in { "capture", "labelCommit" }
  <2> DEFINE e == [w[t] EXCEPT !.k = @ + 1, !.counted = @ + n, !.pc = pc]
  <2>1. Become(t, e) /\ e.pc = pc
    BY <1>p, <1>2 DEF FileDone, Executor
  <2> HIDE DEF e
  <2>. QED
    BY <2>1
<1>3. ASSUME NEW dry \in BOOLEAN, Note(t, dry)
      PROVE  \E m : Remember(t, m)
                    /\ m.applied = Append(mem[t].applied,
                         [file |-> f, previous |-> mem[t].previous, dry |-> dry])
  <2> DEFINE d == [file |-> f, previous |-> mem[t].previous, dry |-> dry]
             m == [mem[t] EXCEPT !.applied = Append(@, d), !.previous = NoLabel]
  <2>1. Remember(t, m) /\ m.applied = Append(mem[t].applied, d)
    BY <1>p, <1>3 DEF Note, Memory
  <2> HIDE DEF m
  <2>. QED
    BY <2>1
<1>4. ASSUME Forget(t) PROVE \E m : Remember(t, m) /\ m.applied = mem[t].applied
  <2> DEFINE m == [mem[t] EXCEPT !.previous = NoLabel]
  <2>1. Remember(t, m) /\ m.applied = mem[t].applied
    BY <1>p, <1>4 DEF Forget, Memory
  <2> HIDE DEF m
  <2>. QED
    BY <2>1
<1>5. CASE NoteDryRun(t)
  <2>1. PICK e : Become(t, e) /\ e.pc \in { "capture", "labelCommit" }
    BY <1>2, <1>5 DEF NoteDryRun
  <2>2. PICK m : Remember(t, m)
    BY <1>3, <1>5 DEF NoteDryRun
  <2>3. job.dry
    BY <1>5 DEF NoteDryRun
  <2>. QED
    BY <1>1, <2>1, <2>2, <2>3, RestoreFile
<1>6. CASE Capture(t)
  <2> DEFINE e == [w[t] EXCEPT !.pc = "apply"]
  <2>1. Become(t, e) /\ e.pc = "apply" /\ e.index = w[t].index /\ e.k = w[t].k
    BY <1>p, <1>6 DEF Capture, Goto, Executor
  <2>2. PICK m : /\ Remember(t, m) /\ m.applied = mem[t].applied
                 /\ m.files = mem[t].files
                 /\ m.previous = label[f] \/ f \in excused'
    <3>1. CASE Remember(t, [mem[t] EXCEPT !.previous = label[f]])
      <4> DEFINE m == [mem[t] EXCEPT !.previous = label[f]]
      <4>1. m.applied = mem[t].applied /\ m.files = mem[t].files /\ m.previous = label[f]
        BY <1>p DEF Memory
      <4>2. Remember(t, m)
        BY <3>1
      <4> HIDE DEF m
      <4>. QED
        BY <4>1, <4>2
    <3>2. CASE UNCHANGED mem /\ f \in excused'
      BY <3>2, RestoreParts DEF Remember
    <3>. QED
      BY <1>6, <3>1, <3>2 DEF Capture
  <2>3. excused \subseteq excused' /\ label' = label
    BY <1>6 DEF Capture
  <2> HIDE DEF e
  <2>. QED
    BY <1>1, <2>1, <2>2, <2>3, RestoreFile
<1>7. CASE ApplyLabel(t)
  <2>1. PICK e : Become(t, e) /\ e.pc \in { "capture", "labelCommit" }
    BY <1>2, <1>7 DEF ApplyLabel
  <2>2. PICK m : /\ Remember(t, m)
                 /\ m.applied = Append(mem[t].applied,
                      [file |-> f, previous |-> mem[t].previous, dry |-> FALSE])
    BY <1>3, <1>7 DEF ApplyLabel
  <2>3. /\ w[t].pc = "apply" /\ label' = [label EXCEPT ![f] = Target]
        /\ excused \subseteq excused' /\ (RollbackBegun => f \in excused')
    BY <1>7 DEF ApplyLabel, At
  <2>4. \A g \in File \ {f} : label'[g] = label[g]
    BY <2>3, RestoreParts DEF DataOK
  <2>5. m.applied # mem[t].applied
    <3>1. Len(m.applied) = Len(mem[t].applied) + 1 /\ Len(mem[t].applied) \in Nat
      BY <1>p, <2>2
    <3>. QED
      BY <3>1
  <2>. QED
    BY <1>1, <2>1, <2>2, <2>3, <2>4, <2>5, RestoreFile
<1>8. CASE ApplyRefused(t) \/ ApplyUnknown(t)
  <2>1. PICK e : Become(t, e) /\ e.pc \in { "capture", "labelCommit" }
    BY <1>2, <1>8 DEF ApplyRefused, ApplyUnknown
  <2>2. PICK m : Remember(t, m) /\ m.applied = mem[t].applied
    BY <1>4, <1>8 DEF ApplyRefused, ApplyUnknown
  <2>3. /\ excused \subseteq excused'
        /\ label' = label \/ (label' = [label EXCEPT ![f] = Target] /\ f \in excused')
    BY <1>8 DEF ApplyRefused, ApplyUnknown
  <2>4. \A g \in File \ {f} : label'[g] = label[g]
    BY <2>3, RestoreParts DEF DataOK
  <2>. QED
    BY <1>1, <2>1, <2>2, <2>3, <2>4, RestoreFile
<1>. QED
  BY <1>5, <1>6, <1>7, <1>8 DEF LabelFile

\* The executor t begins to label, with nothing noted.
LEMMA RestoreLabelFrom ==
  ASSUME OnceInv, OnceInv', RestoreInv, HalfwayStays, NEW t \in Task,
         NEW index, NEW counted, NEW batch, LabelFrom(t, index, counted, batch)
  PROVE  RestoreInv'
<1> DEFINE e == [w[t] EXCEPT !.pc = "label", !.phase = "labelling",
                             !.index = index, !.counted = counted,
                             !.batch = batch, !.k = 0]
           m == [NewMemory EXCEPT !.files = Manifest]
<1>1. /\ Active(t) /\ w[t].pc = "labelInit"
      /\ w' = [w EXCEPT ![t] = e] /\ mem' = [mem EXCEPT ![t] = m]
      /\ UNCHANGED <<job, cps, task, label, excused>>
  BY DEF LabelFrom, At, Become, Remember
<1>2. e.pc = "label" /\ m.applied = <<>>
  BY RestoreParts DEF Executor, NewMemory
<1> HIDE DEF e, m
<1>3. w'[t] = e /\ mem'[t] = m
  BY <1>1, RestoreParts
<1>4. OnlyTask(t)
  BY <1>1, RestoreParts DEF OnlyTask
<1>5. task[t].kind = "run" /\ mem[t].applied = <<>>
  BY <1>1, RestoreParts DEF RestoreInv, KindFits, HandFits, TaskRow, RollsBack,
                            RollbackPCs
<1>6. KindFits(t)' /\ HandFits(t)'
  BY <1>1, <1>2, <1>3, <1>5 DEF KindFits, HandFits, RollsBack, RollbackPCs
<1>7. Uncommitted(t)' = Uncommitted(t)
  BY <1>1, <1>2, <1>3, <1>5 DEF Uncommitted
<1>8. HandMovesOn(t)
  BY <1>1, <1>7, NothingNew DEF CpsOf
<1>9. LabelsMoveOn(t) /\ CheckpointsMoveOn /\ StatusMovesOn(t)
  BY <1>1 DEF LabelsMoveOn, CheckpointsMoveOn, StatusMovesOn, CpsOf
<1>10. NotesTrue(t)' /\ UndoTrue(t)'
  BY <1>1, <1>2, <1>3, <1>5 DEF NotesTrue, UndoTrue, Undoing
<1>. QED
  BY <1>1, <1>4, <1>6, <1>8, <1>9, <1>10, RestoreFrame DEF RestoreMovesOn

LEMMA RestoreLabel ==
  ASSUME OnceInv, OnceInv', RestoreInv, HalfwayStays, NEW t \in Task, LabelPhase(t)
  PROVE  RestoreInv'
<1>p. w[t] \in Executor /\ mem[t] \in Memory /\ KindFits(t) /\ HandFits(t)
  BY RestoreParts DEF RestoreInv
<1>1. CASE \/ LabelConfigFails(t) \/ NextBatch(t)
           \/ At(t, "labelInit") /\ Goto(t, "final")
              /\ UNCHANGED <<job, cps, task, mem, label, excused>>
  <2>1. PICK e : Become(t, e) /\ e.pc \in { "final", "capture" }
    <3>1. /\ [w[t] EXCEPT !.pc = "final", !.st = "failed"].pc = "final"
          /\ [w[t] EXCEPT !.pc = "capture"].pc = "capture"
          /\ [w[t] EXCEPT !.pc = "final"].pc = "final"
      BY <1>p DEF Executor
    <3>. QED
      BY <1>1, <3>1 DEF LabelConfigFails, NextBatch, Goto
  <2>2. /\ Active(t) /\ UNCHANGED <<task, mem, label, excused, cps>>
        /\ w[t].pc \in { "labelInit", "label" }
        /\ job' = job \/ job' = [job EXCEPT !.status = "failed"]
    BY <1>1 DEF LabelConfigFails, NextBatch, At
  <2>3. job'.dry = job.dry /\ (job'.status = "rolled_back" => job.status = "rolled_back")
    BY <2>2, RestoreParts
  <2>. QED
    BY <2>1, <2>2, <2>3, RestoreRuns DEF CpsOf, RollbackPCs
<1>2. CASE LabelInit(t)
  <2>1. \/ At(t, "labelInit") /\ Goto(t, "final")
           /\ UNCHANGED <<job, cps, task, mem, label, excused>>
        \/ \E index, counted, batch : LabelFrom(t, index, counted, batch)
    BY <1>2 DEF LabelInit, StartLabelling
  <2>. QED
    BY <1>1, <2>1, RestoreLabelFrom
<1>3. CASE LabelFile(t)
  BY <1>3, RestoreLabelFile
<1>4. CASE CommitBatch(t)
  <2> DEFINE e == w[t]
             end == e.index + e.k
             c == [type |-> "labelling", batch |-> e.batch, sites |-> {},
                   total |-> 0, files |-> <<>>, index |-> end,
                   counted |-> e.counted, applied |-> mem[t].applied]
             r == [job EXCEPT !.processed = e.counted]
             f == [e EXCEPT !.pc = "label", !.index = end, !.k = 0, !.batch = @ + 1]
             m == [mem[t] EXCEPT !.applied = <<>>]
  <2>1. Commit(t, c, r, f, m) /\ Active(t) /\ w[t].pc = "labelCommit"
    BY <1>4 DEF CommitBatch, CommitBatchLeaving, At
  <2>2. /\ c.type = "labelling" /\ c.batch = e.batch /\ c.applied = mem[t].applied
        /\ f.pc = "label" /\ m.applied = <<>>
    BY <1>p DEF Executor, Memory
  <2>3. c \in Checkpoint
    BY <1>p DEF Executor, Memory, Checkpoint, CheckpointTypes
  <2>4. r.dry = job.dry /\ r.status = job.status
    BY RestoreParts
  <2> HIDE DEF c, r, f, m
  <2>5. Labels(w[t]) /\ ~RollsBack(f) /\ task[t].kind = "run"
    BY <1>p, <2>1, <2>2, RestoreParts
    DEF Labels, RollsBack, RollbackPCs, KindFits, TaskRow
  <2>. QED
    BY <2>1, <2>2, <2>3, <2>4, <2>5, RestoreLogs
<1>5. CASE AfterLabel(t)
  <2>1. /\ Active(t) /\ w[t].pc \in { "final", "label" }
        /\ UNCHANGED <<job, cps, label, excused>>
    BY <1>5 DEF AfterLabel, At
  <2>2. CASE job.status = "running"
    <3> DEFINE e == [w[t] EXCEPT !.pc = "complete", !.st = "running"]
    <3>1. Become(t, e) /\ e.pc = "complete" /\ UNCHANGED <<task, mem>>
      BY <1>p, <1>5, <2>2 DEF AfterLabel, Executor
    <3> HIDE DEF e
    <3>. QED
      BY <2>1, <3>1, RestoreRuns DEF CpsOf, RollbackPCs
  <2>3. CASE job.status # "running"
    <3>1. Leave(t, "done")
      BY <1>5, <2>3 DEF AfterLabel
    <3>2. Uncommitted(t) = {}
      BY <1>p, <2>1 DEF HandFits, Uncommitted
    <3>. QED
      BY <2>1, <3>1, <3>2, RestoreLeave
  <2>. QED
    BY <2>2, <2>3
<1>6. CASE Complete(t)
  <2>1. /\ Active(t) /\ w[t].pc = "complete" /\ Leave(t, "done")
        /\ UNCHANGED <<cps, label, excused>>
        /\ job' = [job EXCEPT !.status = "completed"]
    BY <1>6 DEF Complete, At
  <2>2. Uncommitted(t) = {}
    BY <1>p, <2>1 DEF HandFits, Uncommitted
  <2>3. job'.dry = job.dry /\ job'.status = "completed"
    BY <2>1, RestoreParts
  <2>. QED
    BY <2>1, <2>2, <2>3, RestoreLeave
<1>. QED
  BY <1>1, <1>2, <1>3, <1>4, <1>5, <1>6 DEF LabelPhase

-----------------------------------------------------------------------------
(* Undoing.                                                                *)

\* An executor of the rollback labels nothing and notes nothing.
LEMMA RollsFacts ==
  ASSUME OnceInv, RestoreInv, NEW t \in Task, Active(t), w[t].pc \in RollbackPCs
  PROVE  /\ task[t].kind = "rollback" /\ task[t].state = "running"
         /\ Uncommitted(t) = {} /\ RollsBack(w[t])
         /\ w[t] \in Executor /\ mem[t] \in Memory /\ mem[t].applied \in Seq(Entry)
         /\ w[t].index \in Nat /\ w[t].k \in Nat /\ w[t].counted \in Nat
<1>1. RollsBack(w[t]) /\ task[t].kind = "rollback"
  BY DEF RollsBack, RestoreInv, KindFits
<1>2. Uncommitted(t) = {}
  BY <1>1 DEF Uncommitted
<1>. QED
  BY <1>1, <1>2, RestoreParts DEF Active, Executor

\* The rollback reads the log and goes on behind its latest checkpoint.
LEMMA RestoreRollbackInit ==
  ASSUME OnceInv, OnceInv', RestoreInv, HalfwayStays, NEW t \in Task, RollbackInit(t)
  PROVE  RestoreInv'
<1> DEFINE A == AllApplied
           m == [NewMemory EXCEPT !.applied = A]
           f(index, batch) ==
             [w[t] EXCEPT !.pc = "rb", !.phase = "rollback",
                          !.index = index, !.counted = index,
                          !.batch = batch, !.k = 0]
<1>1. /\ Active(t) /\ w[t].pc = "rbInit"
      /\ mem' = [mem EXCEPT ![t] = m] /\ mem'[t] = m /\ m.applied = A
      /\ UNCHANGED <<job, cps, task, label>>
      /\ ~job.dry => excused' = excused \cup Held
  BY RestoreParts DEF RollbackInit, RollbackInitAhead, At, Remember, NewMemory, Held
<1>2. /\ task[t].kind = "rollback" /\ Uncommitted(t) = {} /\ w[t] \in Executor
  BY <1>1, RollsFacts DEF RollbackPCs
<1>3. A \in Seq(Entry) /\ Len(A) \in Nat /\ \A i \in 1 .. Len(A) : A[i].file \in File
  BY RestoreParts
<1>4. \A index, batch :
        /\ f(index, batch).pc = "rb" /\ f(index, batch).index = index
        /\ f(index, batch).counted = index /\ f(index, batch).k = 0
  BY <1>2 DEF Executor
<1>5. [w[t] EXCEPT !.pc = "rbEnd"].pc = "rbEnd"
  BY <1>2 DEF Executor
<1>6. \/ A = <<>> /\ Goto(t, "rbEnd")
      \/ Become(t, f(0, 0))
      \/ \E c \in CpsOf("rollback") : Become(t, f(c.index + 0, c.batch + 1))
  BY DEF RollbackInit, RollbackInitAhead, RollbackFrom, Latest
<1> HIDE DEF m, f
<1>7. PICK e :
        /\ Become(t, e)
        /\ \/ e.pc = "rbEnd" /\ A = <<>>
           \/ /\ e.pc = "rb" /\ e.k = 0 /\ e.counted = e.index
              /\ e.index = 0 \/ \E c \in CpsOf("rollback") : e.index = c.index
  <2>1. CASE A = <<>> /\ Goto(t, "rbEnd")
    BY <1>5, <2>1 DEF Goto
  <2>2. CASE Become(t, f(0, 0))
    BY <1>4, <2>2
  <2>3. CASE \E c \in CpsOf("rollback") : Become(t, f(c.index + 0, c.batch + 1))
    <3>1. PICK c \in CpsOf("rollback") : Become(t, f(c.index + 0, c.batch + 1))
      BY <2>3
    <3>2. c.index \in Nat
      BY RestoreParts DEF DataOK, CpsOf, Checkpoint
    <3>3. c.index + 0 = c.index
      BY <3>2
    <3>. QED
      BY <1>4, <3>1, <3>3
  <2>. QED
    BY <1>6, <2>1, <2>2, <2>3
<1>8. w' = [w EXCEPT ![t] = e] /\ w'[t] = e
  BY <1>7, RestoreParts DEF Become
<1>9. OnlyTask(t)
  BY <1>1, <1>8, RestoreParts DEF OnlyTask
<1>10. KindFits(t)' /\ HandFits(t)'
  BY <1>1, <1>2, <1>7, <1>8 DEF KindFits, HandFits, Active, RollsBack, RollbackPCs
<1>11. ASSUME ~job.dry PROVE RestoreMovesOn(t)
  <2>1. Uncommitted(t)' = {}
    BY <1>1, <1>2 DEF Uncommitted
  <2>2. CpsOf("labelling")' = CpsOf("labelling") /\ CpsOf("rollback")' = CpsOf("rollback")
    BY <1>1 DEF CpsOf
  <2>3. AllApplied' = A /\ HandMovesOn(t)
    BY <1>1, <1>2, <1>11, <2>1, <2>2, NothingNew
  <2>4. LabelsMoveOn(t) /\ CheckpointsMoveOn /\ StatusMovesOn(t)
    BY <1>1, <2>2 DEF LabelsMoveOn, CheckpointsMoveOn, StatusMovesOn
  <2>5. NotesTrue(t)'
    BY <1>1, <1>2, <1>7, <1>8 DEF NotesTrue
  <2>6. Held' \subseteq excused'
    BY <1>1, <1>9, <1>11, <2>1, <2>3, HeldMovesOn
  <2>7. Back \cup (Held \cap File) \subseteq Back'
    BY <1>1, <1>11 DEF Back
  <2>8. e.pc = "rb" =>
          /\ e.index \in Nat /\ e.index <= Len(A)
          /\ \A i \in 1 .. e.index : A[i].file \in Back \cup Held
    <3>1. CASE e.index = 0
      BY <1>3, <3>1
    <3>2. ASSUME NEW c \in CpsOf("rollback"), e.index = c.index
          PROVE  /\ e.index \in Nat /\ e.index <= Len(A)
                 /\ \A i \in 1 .. e.index : A[i].file \in Back \cup Held
      BY <1>11, <3>2, RestoreParts
      DEF DataOK, CpsOf, Checkpoint, RestoreInv, CheckpointsTrue
    <3>. QED
      BY <1>7, <3>1, <3>2
  <2>9. ASSUME NEW i \in 1 .. Len(A), i <= e.index + e.k PROVE A[i].file \in Back'
    <3>1. e.pc = "rb" /\ e.k = 0
      BY <1>7, <2>9
    <3>2. i \in 1 .. e.index
      BY <2>8, <2>9, <3>1
    <3>. QED
      BY <1>3, <2>7, <2>8, <3>1, <3>2
  <2>10. Prefix(A, A)
    BY <1>3 DEF Prefix
  <2>11. e.pc = "rb" => e.counted <= e.index + e.k /\ e.index + e.k <= Len(A)
    BY <1>3, <1>7, <2>8
  <2>12. UndoTrue(t)'
    <3> SUFFICES /\ Prefix(A, A) /\ Held' \subseteq excused'
                 /\ \A i \in 1 .. Len(A) : i > Len(A) => A[i].file \in excused'
                 /\ \A i \in 1 .. Len(A) : i <= e.index + e.k => A[i].file \in Back'
                 /\ e.pc \in { "rb", "undo", "rbCommit", "ack", "stop" } =>
                      e.counted <= e.index + e.k /\ e.index + e.k <= Len(A)
      BY <1>1, <1>8, <2>3 DEF UndoTrue
    <3>1. \A i \in 1 .. Len(A) : ~(i > Len(A))
      BY <1>3
    <3>. QED
      BY <1>7, <2>6, <2>9, <2>10, <2>11, <3>1
  <2>. QED
    BY <2>3, <2>4, <2>5, <2>12 DEF RestoreMovesOn
<1>. QED
  BY <1>1, <1>9, <1>10, <1>11, RestoreFrame

\* The entry in hand is undone, or its file excused.
LEMMA RestoreUndo ==
  ASSUME OnceInv, OnceInv', RestoreInv, HalfwayStays, NEW t \in Task, Undo(t) \/ UndoFails(t)
  PROVE  RestoreInv'
<1> DEFINE q == mem[t].applied
           A == AllApplied
           n == w[t].index + w[t].k
           d == CurrentEntry(t)
           pc == IF w[t].k + 1 = BatchLen(w[t].index, q) THEN "rbCommit" ELSE "undo"
<1>1. /\ Active(t) /\ w[t].pc = "undo" /\ UNCHANGED <<job, cps, mem, task>>
      /\ excused \subseteq excused'
  BY DEF Undo, UndoUnless, UndoFails, At
<1>2. /\ task[t].kind = "rollback" /\ task[t].state = "running"
      /\ Uncommitted(t) = {} /\ w[t] \in Executor /\ q \in Seq(Entry)
      /\ w[t].index \in Nat /\ w[t].k \in Nat /\ w[t].counted \in Nat
  BY <1>1, RollsFacts DEF RollbackPCs
<1>3. /\ d \in Entry /\ d = q[n + 1] /\ n + 1 <= Len(q) /\ d.dry = job.dry
      /\ d.file \in File /\ n \in Nat /\ Len(q) \in Nat
  <2>1. d \in Entry /\ d.dry = job.dry /\ w[t].index + w[t].k + 1 <= Len(q)
    BY <1>1, RestoreParts, EntryInHand
  <2>. QED
    BY <1>2, <2>1 DEF CurrentEntry, Entry
<1>4. PICK x \in {0, 1} : EntryDone(t, x)
  BY DEF Undo, UndoUnless, UndoFails
<1> DEFINE e == [w[t] EXCEPT !.k = @ + 1, !.counted = @ + x, !.pc = pc]
<1>5. /\ e.pc = pc /\ e.index = w[t].index /\ e.k = w[t].k + 1
      /\ e.counted = w[t].counted + x
  BY <1>2 DEF Executor
<1>6. w' = [w EXCEPT ![t] = e] /\ w'[t] = e
  BY <1>4, RestoreParts DEF EntryDone, Become
<1>7. pc \in {"rbCommit", "undo"}
  OBVIOUS
<1> HIDE DEF e, pc
<1>8. OnlyTask(t)
  BY <1>1, <1>6, RestoreParts DEF OnlyTask
<1>9. KindFits(t)' /\ HandFits(t)'
  BY <1>1, <1>2, <1>5, <1>6, <1>7
  DEF KindFits, HandFits, Active, RollsBack, RollbackPCs
<1>10. /\ \A i \in 1 .. Len(q) : i <= e.index + e.k => i <= n \/ i = n + 1
       /\ w[t].counted <= n => e.counted <= e.index + e.k
       /\ e.index + e.k <= Len(q)
  <2> DEFINE a == w[t].index
             b == w[t].k
             c == w[t].counted
             l == Len(q)
  <2>1. /\ a \in Nat /\ b \in Nat /\ c \in Nat /\ l \in Nat /\ n = a + b
        /\ e.index = a /\ e.k = b + 1 /\ e.counted = c + x /\ x \in {0, 1}
        /\ n + 1 <= l
    BY <1>2, <1>3, <1>5
  <2> HIDE DEF a, b, c, l, n
  <2>2. /\ \A i \in 1 .. l : i <= e.index + e.k => i <= n \/ i = n + 1
        /\ c <= n => e.counted <= e.index + e.k
        /\ e.index + e.k <= l
    BY <2>1
  <2>. QED
    BY <2>2 DEF c, l
<1>11. ASSUME ~job.dry PROVE RestoreMovesOn(t)
  <2>1. Uncommitted(t)' = {}
    BY <1>1, <1>2 DEF Uncommitted
  <2>2. CpsOf("labelling")' = CpsOf("labelling") /\ CpsOf("rollback")' = CpsOf("rollback")
    BY <1>1 DEF CpsOf
  <2>3. AllApplied' = A /\ HandMovesOn(t)
    BY <1>1, <1>2, <2>1, <2>2, NothingNew
  <2>4. UndoTrue(t) /\ EntriesTrue /\ Undoing(t)
    BY <1>1, <1>2, <1>11 DEF RestoreInv, Undoing
  <2>5. Prefix(q, A) /\ Held \subseteq excused /\ A \in Seq(Entry)
    BY <2>4, RestoreParts DEF UndoTrue
  <2>6. d.previous = InitLabel[d.file] \/ d.file \in excused
    <3> HIDE DEF d, q, A, n
    <3>1. n + 1 \in 1 .. Len(A) /\ d = A[n + 1]
      BY <1>3, <2>5 DEF Prefix
    <3>. QED
      BY <2>4, <2>5, <3>1 DEF EntriesTrue, A
  <2>7. d.file \in Back'
    <3>1. CASE Undo(t)
      <4>1. label' = [label EXCEPT ![d.file] = d.previous]
        BY <1>3, <1>11, <3>1 DEF Undo, UndoUnless
      <4>2. label'[d.file] = d.previous
        BY <1>3, <4>1, RestoreParts DEF DataOK
      <4>. QED
        BY <1>1, <1>3, <2>6, <4>2 DEF Back
    <3>2. CASE UndoFails(t)
      BY <1>3, <3>2 DEF UndoFails, Back
    <3>. QED
      BY <3>1, <3>2
  <2>8. \A g \in File : label'[g] = label[g] \/ g = d.file
    BY <1>3, RestoreParts DEF Undo, UndoUnless, UndoFails, DataOK
  <2>9. LabelsMoveOn(t) /\ CheckpointsMoveOn /\ StatusMovesOn(t)
    BY <1>1, <2>2, <2>7, <2>8 DEF LabelsMoveOn, CheckpointsMoveOn, StatusMovesOn
  <2>10. RollbackBegun
    BY <1>1, <1>2 DEF RollbackBegun
  <2>11. Back \subseteq Back' /\ Held' \subseteq excused'
    BY <1>8, <2>3, <2>5, <2>9, <2>10, BackStays, HeldMovesOn
  <2>12. ASSUME NEW i \in 1 .. Len(q), i <= e.index + e.k PROVE q[i].file \in Back'
    <3>1. CASE i <= n
      BY <2>4, <2>11, <3>1 DEF UndoTrue
    <3>2. CASE ~(i <= n)
      <4>1. i = n + 1
        BY <1>10, <2>12, <3>2
      <4>. QED
        BY <1>3, <2>7, <4>1
    <3>. QED
      BY <3>1, <3>2
  <2>13. e.counted <= e.index + e.k /\ e.index + e.k <= Len(q)
    <3>1. w[t].counted <= n
      BY <1>1, <2>4 DEF UndoTrue
    <3>. QED
      BY <1>10, <3>1
  <2>14. \A i \in 1 .. Len(A) : i > Len(q) => A[i].file \in excused'
    BY <1>1, <2>4 DEF UndoTrue
  <2>15. UndoTrue(t)'
    BY <1>1, <1>6, <2>3, <2>5, <2>11, <2>12, <2>13, <2>14 DEF UndoTrue
  <2>16. NotesTrue(t)'
    BY <1>1, <1>2, <1>5, <1>6, <1>7 DEF NotesTrue
  <2>. QED
    BY <2>3, <2>9, <2>15, <2>16 DEF RestoreMovesOn
<1>. QED
  BY <1>1, <1>8, <1>9, <1>11, RestoreFrame

\* The job says it is rolled back: the log is gone through, or a rollback
\* stopped half-way is taken for the whole.
LEMMA RestoreRollbackComplete ==
  ASSUME OnceInv, OnceInv', RestoreInv, HalfwayStays, NEW t \in Task, EndInv, RollbackComplete(t)
  PROVE  RestoreInv'
<1> DEFINE q == mem[t].applied
           A == AllApplied
<1>1. /\ Active(t) /\ w[t].pc = "rbComplete" /\ Leave(t, "done")
      /\ UNCHANGED <<cps, label, excused, halfway>>
      /\ job' = [job EXCEPT !.status = "rolled_back"]
  BY DEF RollbackComplete, At
<1>2. /\ task[t].kind = "rollback" /\ Uncommitted(t) = {} /\ q \in Seq(Entry)
      /\ w[t].index \in Nat /\ w[t].k \in Nat
  BY <1>1, RollsFacts DEF RollbackPCs
<1>3. job'.dry = job.dry
  BY <1>1, RestoreParts
<1>4. ASSUME ~job.dry PROVE RolledBack'
  <2>1. /\ task' = [task EXCEPT ![t].state = "done"]
        /\ w' = [w EXCEPT ![t] = NewExecutor]
        /\ mem' = [mem EXCEPT ![t] = NewMemory]
    BY <1>1 DEF Leave, Become, Remember
  <2>2. task'[t].kind = "rollback" /\ task'[t].state = "done"
    BY <1>2, <2>1, RestoreParts DEF TaskRow
  <2>3. OnlyTask(t)
    BY <2>1, RestoreParts DEF OnlyTask
  <2>4. UndoTrue(t) /\ LabelsNoted /\ Undoing(t)
    BY <1>1, <1>2, <1>4 DEF RestoreInv, Undoing
  <2>5. Uncommitted(t)' = {}
    BY <2>2 DEF Uncommitted
  <2>6. \A u \in Task \ {t} : Uncommitted(u)' = Uncommitted(u)
    BY <2>3 DEF OnlyTask, Uncommitted
  <2>7. Held' \subseteq Held
    BY <2>5, <2>6 DEF Held
  <2>8. Held' \subseteq excused'
    BY <1>1, <2>4, <2>7 DEF UndoTrue
  <2>9. Back \subseteq Back' /\ (excused' \cap File) \subseteq Back'
    BY <1>1 DEF Back
  <2>10. A \in Seq(Entry) /\ Prefix(q, A)
    BY <2>4, RestoreParts DEF UndoTrue
  <2>e. halfway \/ Len(q) <= w[t].index
    BY <1>1 DEF EndInv, EndFits
  <2>11. ASSUME ~halfway, NEW i \in 1 .. Len(A) PROVE A[i].file \in Back'
    <3>0. A[i].file \in File
      BY RestoreParts
    <3>1. CASE i > Len(q)
      BY <1>1, <2>4, <2>9, <3>0, <3>1 DEF UndoTrue
    <3>2. CASE ~(i > Len(q))
      <4>1. i \in 1 .. Len(q) /\ A[i] = q[i]
        <5> HIDE DEF q, A
        <5>. QED
          BY <1>2, <2>10, <3>2 DEF Prefix
      <4>2. i <= w[t].index + w[t].k
        <5>1. Len(q) <= w[t].index /\ Len(q) \in Nat
          BY <1>2, <2>e, <2>11
        <5> HIDE DEF q
        <5>. QED
          BY <1>2, <4>1, <5>1
      <4>. QED
        BY <2>4, <2>9, <4>1, <4>2 DEF UndoTrue
    <3>. QED
      BY <3>1, <3>2
  <2>12. ~halfway => Logged \subseteq Back'
    BY <2>11 DEF Logged
  <2>13. (Held \cap File) \subseteq Back'
    BY <1>1, <2>4, <2>9 DEF UndoTrue
  <2>14. halfway' \/ File \subseteq Back'
    BY <1>1, <2>4, <2>9, <2>12, <2>13 DEF LabelsNoted
  <2>. QED
    BY <2>2, <2>8, <2>14 DEF RolledBack
<1>. QED
  BY <1>1, <1>2, <1>3, <1>4, RestoreLeave

LEMMA RestoreRollBack ==
  ASSUME OnceInv, OnceInv', RestoreInv, HalfwayStays, EndInv, NEW t \in Task,
         RollBack(t)
  PROVE  RestoreInv'
<1>1. CASE NextUndoBatch(t)
  <2> DEFINE e == [w[t] EXCEPT !.pc = "undo"]
  <2>1. /\ Active(t) /\ w[t].pc = "rb" /\ Become(t, e)
        /\ UNCHANGED <<job, cps, task, mem, label, excused>>
    BY <1>1 DEF NextUndoBatch, At, Goto
  <2>2. /\ e.pc = "undo" /\ e.index = w[t].index /\ e.k = w[t].k
        /\ e.counted = w[t].counted
    BY RestoreParts DEF Executor
  <2>3. task[t].kind = "rollback" /\ RollsBack(w[t])
    BY <2>1, RollsFacts DEF RollbackPCs
  <2> HIDE DEF e
  <2>4. RollsBack(e)
    BY <2>2 DEF RollsBack, RollbackPCs
  <2>. QED
    BY <2>1, <2>2, <2>3, <2>4, RestoreMoves DEF CpsOf
<1>2. CASE CommitUndo(t)
  <2> DEFINE e == w[t]
             c == [type |-> "rollback", batch |-> e.batch, sites |-> {},
                   total |-> 0, files |-> <<>>, index |-> e.counted,
                   counted |-> e.counted, applied |-> <<>>]
             f == [e EXCEPT !.pc = "rb", !.index = @ + e.k, !.k = 0,
                            !.batch = @ + 1]
  <2>1. Active(t) /\ w[t].pc = "rbCommit" /\ Commit(t, c, job, f, mem[t])
    BY <1>2 DEF CommitUndo, At
  <2>2. task[t].kind = "rollback" /\ RollsBack(w[t]) /\ w[t] \in Executor
    BY <2>1, RollsFacts DEF RollbackPCs
  <2>3. /\ f.pc = "rb" /\ f.index = e.index + e.k /\ f.k = 0 /\ f.counted = e.counted
        /\ e.index + e.k \in Nat
    BY <2>2 DEF Executor
  <2>4. c \in Checkpoint /\ c.type = "rollback" /\ c.index = e.counted
    BY <2>2 DEF Executor, Checkpoint, CheckpointTypes
  <2> HIDE DEF c, f
  <2>5. RollsBack(f) /\ f.index + f.k = w[t].index + w[t].k
    BY <2>3 DEF RollsBack, RollbackPCs
  <2>. QED
    BY <2>1, <2>2, <2>3, <2>4, <2>5, RestoreOther
<1>3. CASE AfterRollback(t)
  <2>1. /\ Active(t) /\ w[t].pc \in {"rb", "rbEnd"}
        /\ UNCHANGED <<job, cps, label, excused>>
    BY <1>3 DEF AfterRollback, AfterRollbackIf, At
  <2>2. /\ task[t].kind = "rollback" /\ RollsBack(w[t]) /\ w[t] \in Executor
        /\ Uncommitted(t) = {}
    BY <2>1, RollsFacts DEF RollbackPCs
  <2>3. CASE job.status = "rolling_back"
    <3> DEFINE e == [w[t] EXCEPT !.pc = "rbComplete", !.st = "rolling_back"]
    <3>1. Become(t, e) /\ UNCHANGED <<task, mem>>
      BY <1>3, <2>3 DEF AfterRollback, AfterRollbackIf
    <3>2. /\ e.pc = "rbComplete" /\ e.index = w[t].index /\ e.k = w[t].k
          /\ e.counted = w[t].counted
      BY <2>2 DEF Executor
    <3> HIDE DEF e
    <3>3. RollsBack(e)
      BY <3>2 DEF RollsBack, RollbackPCs
    <3>. QED
      BY <2>1, <2>2, <3>1, <3>2, <3>3, RestoreMoves DEF CpsOf
  <2>4. CASE job.status # "rolling_back"
    <3>1. Leave(t, "done")
      BY <1>3, <2>4 DEF AfterRollback, AfterRollbackIf
    <3>. QED
      BY <2>1, <2>2, <3>1, RestoreLeave
  <2>. QED
    BY <2>3, <2>4
<1>. QED
  BY <1>1, <1>2, <1>3, RestoreRollbackInit, RestoreUndo, RestoreRollbackComplete
  DEF RollBack

-----------------------------------------------------------------------------

LEMMA RestoreStep ==
  ASSUME FilesInOnePlace, OnceInv, EndInv, RestoreInv, [Next]_vars
  PROVE  OnceInv' /\ EndInv' /\ RestoreInv'
<1>0. EndInv' /\ HalfwayStays
  BY OnceParts, EndStep
<1>1. OnceInv'
  BY OnceStep
<1>2. CASE ApiNext \/ UNCHANGED vars
  BY <1>0, <1>1, <1>2, RestoreApi
<1>3. CASE ExecutorNext
  <2>1. PICK t \in Task : Work(t) \/ Disrupt(t)
    BY <1>3 DEF ExecutorNext
  <2>2. CASE BeginTask(t) \/ Disrupt(t)
    BY <1>0, <1>1, <2>2, RestoreTask
  <2>3. CASE Signalled(t)
    BY <1>0, <1>1, <2>3, RestoreSignalled
  <2>4. CASE Enumerate(t)
    BY <1>0, <1>1, <2>4, RestoreEnumerate
  <2>5. CASE LabelPhase(t)
    BY <1>0, <1>1, <2>5, RestoreLabel
  <2>6. CASE RollBack(t)
    BY <1>0, <1>1, <2>6, RestoreRollBack
  <2>. QED
    BY <2>1, <2>2, <2>3, <2>4, <2>5, <2>6 DEF Work
<1>. QED
  BY <1>0, <1>1, <1>2, <1>3 DEF Next

LEMMA RestoreStart == Init => RestoreInv
<1> SUFFICES ASSUME Init PROVE RestoreInv
  OBVIOUS
<1>1. /\ \A t \in Task : ~Active(t) /\ w[t].pc = "idle" /\ mem[t].applied = <<>>
      /\ cps = {} /\ label = InitLabel /\ job.status \in {"pending", "enumerating"}
  BY DEF Init, Created, Active, NewExecutor, NewMemory
<1>2. CpsOf("labelling") = {} /\ CpsOf("rollback") = {}
  BY <1>1 DEF CpsOf
<1>3. AllApplied = <<>>
  BY <1>2 DEF Batches, AllApplied, FlattenSeq
<1>4. File \subseteq Back
  BY <1>1 DEF Back
<1>5. \A t \in Task : KindFits(t) /\ HandFits(t) /\ NotesTrue(t) /\ UndoTrue(t)
  BY <1>1 DEF KindFits, HandFits, NotesTrue, UndoTrue, Undoing
<1>. QED
  BY <1>1, <1>2, <1>3, <1>4, <1>5
  DEF RestoreInv, LabelsNoted, EntriesTrue, CheckpointsTrue, RolledBack

\* If walking the tenant's drives finds a file in one place only, then
\* whenever the job says that it is rolled back, every file carries the
\* label it had before the job, but for those whose former label a fault, a
\* crash or an executor behind the rollback has lost: whatever else is
\* paused, cancelled, resumed, delivered twice or run side by side.  One job
\* is excepted as a whole: one whose rollback a signal has stopped while its
\* user asked for another, so that the executor that was stopped declares
\* it rolled back.
THEOREM SpecRollbackRestores ==
  ASSUME FilesInOnePlace
  PROVE  Spec => []RollbackRestores
<1>1. Init => OnceInv /\ EndInv /\ RestoreInv
  BY OnceInit, EndStart, RestoreStart
<1>2. OnceInv /\ EndInv /\ RestoreInv /\ [Next]_vars
        => OnceInv' /\ EndInv' /\ RestoreInv'
  BY RestoreStep
<1>3. OnceInv /\ RestoreInv => RollbackRestores
  <2> SUFFICES ASSUME OnceInv, RestoreInv, job.status = "rolled_back", ~halfway,
                      NEW f \in File \ excused
               PROVE  label[f] = InitLabel[f]
    BY DEF RollbackRestores
  <2>1. CASE job.dry
    BY <2>1, RestoreParts, LogParts DEF DryRunTouchesNothing
  <2>2. CASE ~job.dry
    BY <2>2 DEF RestoreInv, RolledBack, Back
  <2>. QED
    BY <2>1, <2>2
<1>. QED
  BY <1>1, <1>2, <1>3, PTL DEF Spec

-----------------------------------------------------------------------------
(* A job that nobody interferes with progresses as JobProgress says.       *)

\* The user starts the job and does nothing else; calls do not fail.
Undisturbed == Allowed \subseteq {"start"} /\ MaxFaults = 0

\* The sites that the log declares completed, and the files handled.
Completed == UNION { c.sites : c \in CpsOf("enumeration") }

Handled ==
  IF CpsOf("labelling") = {} THEN 0
  ELSE (CHOOSE c \in Latest(CpsOf("labelling")) : TRUE).index

\* There is no signal and no rollback, and the log has what only the two
\* phases of the run write.
PlainStore ==
  /\ signal = NoSignal
  /\ \A d \in Debts \ {"run"} : owed[d] = 0
  /\ \A t \in Task : task[t].kind = "run"
  /\ job.status \in { "pending", "enumerating", "running", "completed" }
  /\ \A c \in cps : /\ c.type # "rollback"
                    /\ c.type = "labelling" => c.sites = {}
  /\ \A c, d \in CpsOf("labelling") : c.batch < d.batch => c.index <= d.index

\* The row says which phase the one executor is in.
PlainFits(e) ==
  /\ e.pc \notin { "ack", "stop", "enumEnd" }
  /\ e.pc \in { "enumInit", "enum", "list", "toRunning" } =>
       job.status = "enumerating"
  /\ e.pc \in LabellingPCs \cup { "labelInit", "complete" } =>
       job.status = "running"
  /\ e.pc \in { "enum", "list" } => e.sites \subseteq Completed
  /\ e.pc = "labelCommit" => e.k \in 1 .. BatchSize

PlainInv == PlainStore /\ \A t \in Task : Active(t) => PlainFits(w[t])

LEMMA ProgressIs ==
  /\ Progress!progress = <<job.status, Completed, Len(Manifest), Handled>>
  /\ Progress!progress' = <<job.status, Completed, Len(Manifest), Handled>>'
BY DEF Progress!progress, Completed, Handled

\* What the proofs below take from the invariants.
LEMMA PlainParts ==
  ASSUME Undisturbed, WholeInv, PlainInv
  PROVE  /\ PlainStore /\ faults = 0 /\ MaxFaults = 0
         /\ \A t \in Task : /\ w[t] \in Executor /\ mem[t] \in Memory
                            /\ task[t] \in TaskRow
         /\ \A t \in Task : Active(t) => /\ PlainFits(w[t]) /\ RunFits(w[t], mem[t])
                                         /\ ~RollsBack(w[t])
<1>1. /\ PlainStore /\ MaxFaults = 0 /\ RunInv /\ ControlOK
      /\ task \in [Task -> TaskRow] /\ w \in [Task -> Executor]
      /\ mem \in [Task -> Memory]
      /\ \A t \in Task : Active(t) => PlainFits(w[t])
  BY WholeParts DEF PlainInv, Undisturbed
<1>2. faults = 0
  BY <1>1 DEF ControlOK
<1>3. ASSUME NEW t \in Task, Active(t)
      PROVE  RunFits(w[t], mem[t]) /\ ~RollsBack(w[t])
  BY <1>1, <1>3 DEF RunInv, KindFits, PlainStore
<1>. QED
  BY <1>1, <1>2, <1>3

\* Only one executor is ever at work.
LEMMA OnlyOne ==
  ASSUME WholeInv, PlainStore, NEW t \in Task, task[t].state # "none",
         NEW u \in Task, u # t
  PROVE  ~Active(u)
<1>1. RunOnce
  BY WholeParts DEF RunInv
<1>. QED
  BY <1>1 DEF RunOnce, Dispatched, PlainStore, Active

\* While the log stays, the abstract job has the same sites and files.
LEMMA SameLog ==
  ASSUME WholeInv, UNCHANGED cps
  PROVE  Completed' = Completed /\ Manifest' = Manifest /\ Handled' = Handled
<1>1. /\ CpsOf("labelling")' = CpsOf("labelling")
      /\ CpsOf("enumeration")' = CpsOf("enumeration")
  BY DEF CpsOf
<1>2. Manifest' = Manifest
  BY <1>1, LogParts, ManifestKept DEF WholeInv
<1>3. Completed' = Completed
  BY <1>1 DEF Completed
<1>4. Handled' = Handled
  <2> DEFINE H(S) == IF S = {} THEN 0 ELSE (CHOOSE c \in Latest(S) : TRUE).index
  <2>1. Handled = H(CpsOf("labelling"))
    BY DEF Handled
  <2>2. Handled' = H(CpsOf("labelling")')
    BY DEF Handled, Latest
  <2> HIDE DEF H
  <2>. QED
    BY <1>1, <2>1, <2>2
<1>. QED
  BY <1>2, <1>3, <1>4

\* A step that the abstract job does not notice.
Quiet ==
  /\ UNCHANGED <<cps, signal, owed>>
  /\ job'.status = job.status
  /\ \A u \in Task : task'[u].kind = task[u].kind

LEMMA QuietStep ==
  ASSUME WholeInv, PlainStore, Quiet
  PROVE  /\ PlainStore' /\ UNCHANGED Progress!progress
         /\ Completed' = Completed
<1>1. PlainStore'
  BY DEF PlainStore, Quiet, CpsOf
<1>2. cps' = cps /\ job'.status = job.status
  BY DEF Quiet
<1> HIDE DEF Quiet
<1>. QED
  BY <1>1, <1>2, SameLog, ProgressIs

\* A step of the one executor t keeps the invariant if t fits afterwards.
LEMMA PlainMoves ==
  ASSUME WholeInv, PlainInv, NEW t \in Task, task[t].state # "none",
         \A u \in Task : u # t => task'[u] = task[u],
         PlainStore', Active(t)' => PlainFits(w[t])'
  PROVE  PlainInv'
<1>1. ASSUME NEW u \in Task, u # t PROVE ~Active(u)'
  BY <1>1, OnlyOne DEF PlainInv, Active
<1>. QED
  BY <1>1 DEF PlainInv

\* The executor leaves: no other is at work.
LEMMA PlainLeaves ==
  ASSUME WholeInv, PlainInv, NEW t \in Task, Active(t),
         NEW state \in {"queued", "done"}, Leave(t, state),
         UNCHANGED <<cps, signal, owed>>, job'.status = job.status
  PROVE  PlainInv' /\ UNCHANGED Progress!progress
<1>1. task \in [Task -> TaskRow] /\ task' = [task EXCEPT ![t].state = state]
  BY WholeParts DEF Leave
<1>2. /\ \A u \in Task : u # t => task'[u] = task[u]
      /\ \A u \in Task : task'[u].kind = task[u].kind
      /\ task'[t].state = state
  BY <1>1 DEF TaskRow
<1>3. Quiet
  BY <1>2 DEF Quiet
<1>4. task[t].state # "none" /\ ~Active(t)'
  BY <1>2 DEF Active
<1>. QED
  BY <1>2, <1>3, <1>4, QuietStep, PlainMoves DEF PlainInv

\* It goes on as e.
LEMMA PlainGoesOn ==
  ASSUME WholeInv, PlainInv, NEW t \in Task, Active(t), NEW e, Become(t, e),
         UNCHANGED <<cps, signal, owed, task>>, job'.status = job.status,
         PlainFits(e)
  PROVE  PlainInv' /\ UNCHANGED Progress!progress
<1>1. w \in [Task -> Executor] /\ w' = [w EXCEPT ![t] = e]
  BY WholeParts DEF Become
<1>2. w'[t] = e
  BY <1>1
<1>3. Quiet
  BY DEF Quiet
<1>4. task[t].state # "none"
  BY DEF Active
<1>5. PlainStore' /\ Completed' = Completed /\ UNCHANGED Progress!progress
  BY <1>3, QuietStep DEF PlainInv
<1>6. PlainFits(w[t])'
  BY <1>2, <1>5 DEF PlainFits
<1>. QED
  BY <1>4, <1>5, <1>6, PlainMoves

\* What a step looks like to JobProgress.
Follows ==
  Progress!Begin \/ Progress!Worker \/ UNCHANGED Progress!progress

\* The user can only start the job, once, and its run is enqueued.
LEMMA PlainApi ==
  ASSUME Undisturbed, WholeInv, PlainInv, ApiNext
  PROVE  PlainInv' /\ Follows
<1>p. /\ PlainStore /\ faults = 0 /\ MaxFaults = 0 /\ RunOnce
      /\ owed \in [Debts -> Nat]
      /\ job \in [status : Statuses, total : Nat, processed : Nat, dry : BOOLEAN]
      /\ task \in [Task -> TaskRow]
  BY PlainParts, WholeParts DEF RunInv
<1>1. CASE UserRequest
  <2>1. Start
    BY <1>1 DEF UserRequest, Pause, Resume, Cancel, Rollback, Accept, Undisturbed
  <2>2. /\ job.status = "pending" /\ job'.status = "enumerating"
        /\ UNCHANGED <<cps, signal, task, w>>
        /\ owed' = [owed EXCEPT !["run"] = @ + 1]
    BY <1>p, <2>1 DEF Start, Accept, Owe, TransitionFrom
  <2>3. \A u \in Task : ~Active(u)
    BY <1>p, <2>2 DEF RunOnce, Dispatched, Active, PlainStore
  <2>4. PlainStore'
    BY <1>p, <2>2 DEF PlainStore, CpsOf, Debts
  <2>5. Completed' = Completed /\ Manifest' = Manifest /\ Handled' = Handled
    BY <2>2, SameLog
  <2>6. Progress!Begin
    BY <2>2, <2>5 DEF Progress!Begin, Completed, Handled
  <2>7. PlainInv'
    BY <2>2, <2>3, <2>4 DEF PlainInv, Active
  <2>. QED
    BY <2>6, <2>7 DEF Follows
<1>2. ASSUME NEW debt \in Debts, Dispatch(debt)
      PROVE  PlainInv' /\ Follows
  <2>1. debt = "run"
    BY <1>p, <1>2 DEF Dispatch, Settle, PlainStore
  <2>2. PICK t \in Task :
          /\ task[t].state = "none"
          /\ task' = [task EXCEPT ![t] = [kind |-> debt, state |-> "queued",
                                          tries |-> 0]]
    BY <1>2 DEF Dispatch
  <2>3. /\ UNCHANGED <<job, cps, signal, w>>
        /\ owed' = [owed EXCEPT !["run"] = @ - 1]
    BY <1>2, <2>1 DEF Dispatch, Settle
  <2>4. /\ \A u \in Task : u # t => task'[u] = task[u]
        /\ task'[t].kind = "run" /\ task'[t].state = "queued"
    BY <1>p, <2>1, <2>2
  <2>5. PlainStore'
    BY <1>p, <2>3, <2>4 DEF PlainStore, CpsOf, Debts
  <2>6. Completed' = Completed /\ Manifest' = Manifest /\ Handled' = Handled
    BY <2>3, SameLog
  <2>7. \A u \in Task : Active(u)' => Active(u)
    BY <2>4 DEF Active
  <2>8. \A u \in Task : Active(u) => PlainFits(w[u])'
    BY <2>3, <2>6 DEF PlainFits, PlainInv
  <2>. QED
    BY <2>3, <2>5, <2>6, <2>7, <2>8, ProgressIs DEF PlainInv, Follows
<1>3. ASSUME NEW debt \in Debts, SendSignal(debt)
      PROVE  FALSE
  BY <1>p, <1>3 DEF SendSignal, Settle, Signals, PlainStore
<1>4. ASSUME NEW debt \in Debts, LoseDispatch(debt)
      PROVE  FALSE
  BY <1>p, <1>4 DEF LoseDispatch
<1>5. ~SignalExpires
  BY <1>p DEF SignalExpires
<1>. QED
  BY <1>1, <1>2, <1>3, <1>4, <1>5 DEF ApiNext, ApiSettle

LEMMA PlainBegin ==
  ASSUME Undisturbed, WholeInv, PlainInv, NEW t \in Task, BeginTask(t)
  PROVE  PlainInv' /\ Follows
<1>p. /\ PlainStore /\ task \in [Task -> TaskRow] /\ w \in [Task -> Executor]
  BY PlainParts, WholeParts
<1>1. /\ task[t].state = "queued"
      /\ task' = [task EXCEPT ![t].state = "running", ![t].tries = @ + 1]
      /\ UNCHANGED <<job, cps, signal, owed>>
  BY DEF BeginTask
<1>2. /\ \A u \in Task : u # t => task'[u] = task[u]
      /\ \A u \in Task : task'[u].kind = task[u].kind
      /\ task[t].kind = "run"
  BY <1>p, <1>1 DEF TaskRow, PlainStore
<1>3. w'[t].pc = CASE job.status = "enumerating" -> "enumInit"
                   [] job.status = "running" -> "labelInit"
                   [] OTHER -> "final"
  BY <1>p, <1>2 DEF BeginTask, Become, NewExecutor
<1>4. PlainFits(w[t])'
  BY <1>1, <1>3 DEF PlainFits, LabellingPCs
<1>5. Quiet
  BY <1>1, <1>2 DEF Quiet
<1>. QED
  BY <1>1, <1>2, <1>4, <1>5, QuietStep, PlainMoves DEF PlainInv, Follows

\* Nothing disturbs the executor but the death of its process.
LEMMA PlainDisrupt ==
  ASSUME Undisturbed, WholeInv, PlainInv, NEW t \in Task, Disrupt(t)
  PROVE  PlainInv' /\ Follows
<1>1. ~Timeout(t) /\ ~Raise(t)
  BY PlainParts DEF Timeout, Raise, Fault
<1>2. Crash(t)
  BY <1>1 DEF Disrupt
<1>3. PICK state \in {"queued", "done"} : Die(t, state)
  BY <1>2 DEF Crash
<1>. QED
  BY <1>3, PlainLeaves DEF Die, Abandon, Follows

LEMMA PlainSignalled ==
  ASSUME Undisturbed, WholeInv, PlainInv, NEW t \in Task
  PROVE  ~Signalled(t)
<1>1. Active(t) => w[t].pc \notin { "ack", "stop" }
  BY PlainParts DEF PlainFits
<1>. QED
  BY <1>1, PlainParts DEF Signalled, SeeSignal, AckSignal, StopOnSignal, At, PlainStore

LEMMA PlainRollBack ==
  ASSUME Undisturbed, WholeInv, PlainInv, NEW t \in Task
  PROVE  ~RollBack(t)
<1>1. Active(t) => w[t].pc \notin RollbackPCs
  BY PlainParts DEF RollsBack
<1>. QED
  BY <1>1 DEF RollbackPCs, RollBack, RollbackInit, RollbackInitAhead, NextUndoBatch,
     Undo, UndoUnless, UndoFails, CommitUndo, AfterRollback, AfterRollbackIf,
     RollbackComplete, At

\* A site is listed: no site of the log is still to be looked at.
LEMMA PlainListSite ==
  ASSUME Undisturbed, WholeInv, PlainInv, NEW t \in Task, ListSite(t)
  PROVE  PlainInv' /\ Follows
<1>p. /\ PlainStore /\ w[t] \in Executor /\ w \in [Task -> Executor]
      /\ LogInv /\ Positioned(w[t]) /\ Dense("enumeration") /\ DataOK
      /\ Manifest \in Seq(File) /\ Active(t) /\ w[t].pc = "list"
      /\ job \in [status : Statuses, total : Nat, processed : Nat, dry : BOOLEAN]
  BY PlainParts, WholeParts, LogParts DEF LogInv, EnumInv, ListSite, At
<1>f. job.status = "enumerating" /\ w[t].sites \subseteq Completed
  BY <1>p, PlainParts DEF PlainFits
<1>1. PICK s, fs, c, r, e :
        /\ s \in w[t].todo /\ fs \in Listing[s]
        /\ Commit(t, c, r, e, mem[t])
        /\ c.type = "enumeration" /\ c.batch = w[t].batch /\ c.files = fs
        /\ c.sites = w[t].sites \cup {s} /\ c \in Checkpoint
        /\ r.status = job.status
        /\ e.pc = "enum" /\ e.sites = w[t].sites \cup {s}
  <2>1. PICK s \in w[t].todo : \E fs \in Listing[s] :
          LET e == [w[t] EXCEPT !.sites = @ \cup {s}, !.total = @ + Len(fs)]
              c == [type |-> "enumeration", batch |-> e.batch,
                    sites |-> e.sites, total |-> e.total, files |-> fs,
                    index |-> 0, counted |-> 0, applied |-> <<>>]
          IN Commit(t, c, [job EXCEPT !.total = e.total],
                    [e EXCEPT !.pc = "enum", !.todo = @ \ {s},
                              !.batch = @ + 1],
                    mem[t])
    BY DEF ListSite
  <2>2. PICK fs \in Listing[s] :
          LET e == [w[t] EXCEPT !.sites = @ \cup {s}, !.total = @ + Len(fs)]
              c == [type |-> "enumeration", batch |-> e.batch,
                    sites |-> e.sites, total |-> e.total, files |-> fs,
                    index |-> 0, counted |-> 0, applied |-> <<>>]
          IN Commit(t, c, [job EXCEPT !.total = e.total],
                    [e EXCEPT !.pc = "enum", !.todo = @ \ {s},
                              !.batch = @ + 1],
                    mem[t])
    BY <2>1
  <2> DEFINE e == [w[t] EXCEPT !.sites = @ \cup {s}, !.total = @ + Len(fs)]
             c == [type |-> "enumeration", batch |-> e.batch,
                   sites |-> e.sites, total |-> e.total, files |-> fs,
                   index |-> 0, counted |-> 0, applied |-> <<>>]
             r == [job EXCEPT !.total = e.total]
             f == [e EXCEPT !.pc = "enum", !.todo = @ \ {s}, !.batch = @ + 1]
  <2>3. Commit(t, c, r, f, mem[t])
    BY <2>2
  <2>4. r.status = job.status
    BY <1>p
  <2>5. f.pc = "enum" /\ f.sites = w[t].sites \cup {s}
    BY <1>p DEF Executor
  <2>6. /\ e.batch = w[t].batch /\ e.sites = w[t].sites \cup {s}
        /\ e.total = w[t].total + Len(fs)
    BY <1>p DEF Executor
  <2>7. s \in Site /\ fs \in Seq(File)
    BY <1>p, StoreAssumption DEF Executor
  <2>8. e.batch \in Nat /\ e.total \in Nat /\ e.sites \in SUBSET Site
    BY <1>p, <2>6, <2>7 DEF Executor
  <2>9. c \in Checkpoint
    <3> HIDE DEF e
    <3>. QED
      BY <2>7, <2>8 DEF Checkpoint, CheckpointTypes
  <2>10. /\ c.type = "enumeration" /\ c.batch = w[t].batch /\ c.files = fs
         /\ c.sites = w[t].sites \cup {s}
    BY <2>6
  <2> HIDE DEF e, c, r, f
  <2>. QED
    BY <2>3, <2>4, <2>5, <2>9, <2>10
<1>2. UNCHANGED <<signal, owed>>
  BY DEF ListSite, Commit
<1>3. CASE ~Insertable(c.type, c.batch)
  <2>1. Abandon(t, "done") /\ UNCHANGED <<cps, job>>
    BY <1>1, <1>3 DEF Commit
  <2>. QED
    BY <1>2, <1>p, <2>1, PlainLeaves DEF Abandon, Follows
<1>4. CASE Insertable(c.type, c.batch)
  <2>1. /\ cps' = cps \cup {c} /\ w'[t] = e /\ UNCHANGED task
        /\ job'.status = job.status
    BY <1>1, <1>4, <1>p DEF Commit, Become
  <2>2. /\ CpsOf("enumeration")' = CpsOf("enumeration") \cup {c}
        /\ CpsOf("labelling")' = CpsOf("labelling")
    BY <1>1, <2>1 DEF CpsOf
  <2>3. MayList(w[t])
    BY <1>p DEF MayList
  <2>4. c.batch = Batches("enumeration") /\ c.batch \in Nat
    BY <1>1, <1>4, <1>p, <2>3, ListsAtTheEnd DEF Checkpoint
  <2>5. Manifest' = Manifest \o fs
    BY <1>1, <1>p, <2>2, <2>4, ManifestGrows DEF DataOK
  <2>6. fs \in Seq(File) /\ s \in Site
    BY <1>1, <1>p DEF Checkpoint, Executor
  <2>7. Len(Manifest)' = Len(Manifest) + Len(fs)
    BY <1>p, <2>5, <2>6
  <2>8. Completed' = Completed \cup {s}
    <3>1. Completed' = Completed \cup c.sites
      BY <2>2 DEF Completed
    <3>. QED
      BY <1>1, <1>f, <3>1
  <2>9. s \notin Completed
    <3> SUFFICES ASSUME NEW d \in CpsOf("enumeration"), s \in d.sites
                 PROVE  FALSE
      BY DEF Completed
    <3>1. d.batch < w[t].batch
      BY <1>1, <1>p, <2>4 DEF Dense
    <3>. QED
      BY <1>1, <1>p, <2>3, <3>1 DEF Positioned
  <2>10. Handled' = Handled
    <3> DEFINE H(S) == IF S = {} THEN 0 ELSE (CHOOSE d \in Latest(S) : TRUE).index
    <3>1. Handled = H(CpsOf("labelling"))
      BY DEF Handled
    <3>2. Handled' = H(CpsOf("labelling")')
      BY DEF Handled, Latest
    <3> HIDE DEF H
    <3>. QED
      BY <2>2, <3>1, <3>2
  <2>11. Len(fs) \in { Len(gs) : gs \in UNION { Listing[x] : x \in Site } }
    BY <1>1, <2>6
  <2>12. Progress!CompleteSite
    <3> DEFINE Counts == { Len(gs) : gs \in UNION { Listing[x] : x \in Site } }
    <3>1. \E x \in Site \ Completed : Completed' = Completed \cup {x}
      BY <2>6, <2>8, <2>9
    <3>2. \E n \in Counts : Len(Manifest)' = Len(Manifest) + n
      BY <2>7, <2>11
    <3>3. job.status = "enumerating" /\ job'.status = job.status
      BY <1>f, <2>1
    <3>. QED
      BY <2>10, <3>1, <3>2, <3>3 DEF Progress!CompleteSite, Completed, Handled
  <2>13. PlainStore'
    BY <1>1, <1>2, <1>p, <2>1, <2>2 DEF PlainStore
  <2>14. PlainFits(w[t])'
    <3>1. w'[t].sites \subseteq Completed'
      BY <1>1, <1>f, <2>1, <2>8
    <3>. QED
      BY <1>1, <1>f, <2>1, <3>1 DEF PlainFits, LabellingPCs
  <2>15. PlainInv'
    BY <1>p, <2>1, <2>13, <2>14, PlainMoves DEF Active
  <2>. QED
    BY <2>12, <2>15 DEF Follows, Progress!Worker
<1>. QED
  BY <1>3, <1>4

LEMMA PlainEnumerate ==
  ASSUME Undisturbed, WholeInv, PlainInv, NEW t \in Task, Enumerate(t)
  PROVE  PlainInv' /\ Follows
<1>p. /\ PlainStore /\ w[t] \in Executor /\ w \in [Task -> Executor]
      /\ job \in [status : Statuses, total : Nat, processed : Nat, dry : BOOLEAN]
  BY PlainParts, WholeParts
<1>a. Active(t)
  BY DEF Enumerate, EnumInit, NextSite, ListSite, SkipSite, AfterEnum, ToRunning,
         RunAndGoto, At
<1>f. PlainFits(w[t]) /\ RunFits(w[t], mem[t])
  BY <1>a, PlainParts
<1>1. CASE EnumInit(t)
  <2>1. PICK sites, total, batch :
          EnumFrom(t, sites, total, batch) /\ sites \subseteq Completed
    <3>1. ASSUME NEW c \in Latest(CpsOf("enumeration"))
          PROVE  c.sites \subseteq Completed
      BY DEF Latest, Completed
    <3>. QED
      BY <1>1, <3>1 DEF EnumInit
  <2> DEFINE e == [w[t] EXCEPT !.pc = "enum", !.phase = "enumeration",
                               !.todo = Site \ sites, !.sites = sites,
                               !.total = total, !.batch = batch]
  <2>2. e.pc = "enum" /\ e.sites = sites
    BY <1>p DEF Executor
  <2>3. /\ Become(t, e) /\ UNCHANGED <<cps, signal, owed, task, job>>
        /\ w[t].pc = "enumInit"
    BY <1>1, <2>1 DEF EnumFrom, EnumInit, At
  <2> HIDE DEF e
  <2>4. PlainFits(e)
    BY <1>f, <2>1, <2>2, <2>3 DEF PlainFits, LabellingPCs
  <2>. QED
    BY <1>a, <2>3, <2>4, PlainGoesOn DEF Follows
<1>2. CASE NextSite(t)
  <2> DEFINE e == [w[t] EXCEPT !.pc = "list"]
  <2>1. e.pc = "list" /\ e.sites = w[t].sites
    BY <1>p DEF Executor
  <2>2. Become(t, e) /\ UNCHANGED <<cps, signal, owed, task, job>>
        /\ w[t].pc = "enum"
    BY <1>2 DEF NextSite, Goto, At
  <2> HIDE DEF e
  <2>3. PlainFits(e)
    BY <1>f, <2>1, <2>2 DEF PlainFits, LabellingPCs
  <2>. QED
    BY <1>a, <2>2, <2>3, PlainGoesOn DEF Follows
<1>3. ~SkipSite(t)
  BY PlainParts DEF SkipSite, Fault
<1>4. CASE AfterEnum(t)
  <2>1. w[t].pc = "enum" /\ job.status = "enumerating"
    BY <1>4, <1>f DEF AfterEnum, At, PlainFits
  <2> DEFINE e == [w[t] EXCEPT !.st = job.status, !.pc = "toRunning"]
  <2>2. e.pc = "toRunning"
    BY <1>p DEF Executor
  <2>3. Become(t, e) /\ UNCHANGED <<cps, signal, owed, task, job>>
    BY <1>4, <2>1 DEF AfterEnum
  <2> HIDE DEF e
  <2>4. PlainFits(e)
    BY <2>1, <2>2 DEF PlainFits, LabellingPCs
  <2>. QED
    BY <1>a, <2>3, <2>4, PlainGoesOn DEF Follows
<1>5. CASE ToRunning(t)
  <2> DEFINE e == [w[t] EXCEPT !.pc = "labelInit", !.st = "running"]
  <2>1. e.pc = "labelInit"
    BY <1>p DEF Executor
  <2>2. /\ Become(t, e) /\ UNCHANGED <<cps, signal, owed, task>>
        /\ job'.status = "running" /\ w[t].pc = "toRunning"
    BY <1>5, <1>p DEF ToRunning, RunAndGoto, At
  <2> HIDE DEF e
  <2>3. w'[t] = e
    BY <1>p, <2>2 DEF Become
  <2>4. job.status = "enumerating"
    BY <1>f, <2>2 DEF PlainFits
  <2>5. Completed = Site
    <3>1. \A s \in Site : \E c \in cps : s \in c.sites
      BY <1>f, <2>2, PlainParts DEF RunFits, Listed
    <3>2. \A c \in cps : c.sites # {} => c.type = "enumeration"
      <4> TAKE c \in cps
      <4>1. c.type \in CheckpointTypes
        BY WholeParts DEF ControlOK
      <4>. QED
        BY <1>p, <4>1 DEF PlainStore, CheckpointTypes
    <3>3. \A c \in cps : c.sites \subseteq Site
      BY WholeParts DEF ControlOK
    <3>. QED
      BY <3>1, <3>2, <3>3 DEF Completed, CpsOf
  <2>6. Completed' = Completed /\ Manifest' = Manifest /\ Handled' = Handled
    BY <2>2, SameLog
  <2>7. Progress!AllEnumerated
    BY <2>2, <2>4, <2>5, <2>6 DEF Progress!AllEnumerated, Completed, Handled
  <2>8. PlainStore'
    BY <1>p, <2>2 DEF PlainStore, CpsOf
  <2>9. PlainFits(w[t])'
    BY <2>1, <2>2, <2>3 DEF PlainFits, LabellingPCs
  <2>10. PlainInv'
    BY <1>a, <2>2, <2>8, <2>9, PlainMoves DEF Active
  <2>. QED
    BY <2>7, <2>10 DEF Follows, Progress!Worker
<1>. QED
  BY <1>1, <1>2, <1>3, <1>4, <1>5, PlainListSite DEF Enumerate

\* The latest of a set of checkpoints is the one behind all others.
LEMMA LatestIs ==
  ASSUME NEW S, NEW c \in S, c.batch \in Int,
         \A d \in S \ {c} : d.batch \in Int /\ d.batch < c.batch
  PROVE  (CHOOSE d \in Latest(S) : TRUE) = c
<1>1. c \in Latest(S)
  BY DEF Latest
<1>2. \A d \in Latest(S) : d = c
  BY DEF Latest
<1>. QED
  BY <1>1, <1>2

\* The files handled are those up to the newest checkpoint's index.
LEMMA HandledIs ==
  ASSUME WholeInv, NEW c \in CpsOf("labelling"), Newest(c)
  PROVE  Handled = c.index
<1>1. Dense("labelling") /\ Batches("labelling") \in Nat
  BY LogParts DEF WholeInv, Dense
<1>2. c.batch = Batches("labelling") - 1
  BY DEF Newest, CpsOf
<1>3. \A d \in CpsOf("labelling") \ {c} : d.batch \in Int /\ d.batch < c.batch
  BY <1>1, <1>2 DEF Dense
<1>4. c.batch \in Int
  BY <1>1, <1>2
<1>5. (CHOOSE d \in Latest(CpsOf("labelling")) : TRUE) = c
  BY <1>3, <1>4, LatestIs
<1>. QED
  BY <1>5 DEF Handled

\* A file is handled.
LEMMA PlainFileDone ==
  ASSUME WholeInv, PlainInv, NEW t \in Task, Active(t),
         w[t].pc \in {"capture", "apply"}, NEW n, FileDone(t, n),
         UNCHANGED <<job, cps, signal, owed, task>>
  PROVE  PlainInv' /\ Follows
<1>p. w[t] \in Executor /\ PlainFits(w[t]) /\ mem[t] \in Memory
      /\ BatchSize \in Nat \ {0}
  BY WholeParts, StoreAssumption DEF PlainInv
<1> DEFINE pc == IF w[t].k + 1 = BatchLen(w[t].index, mem[t].files)
                   THEN "labelCommit" ELSE "capture"
           e == [w[t] EXCEPT !.k = @ + 1, !.counted = @ + n, !.pc = pc]
<1>1. e.pc = pc /\ e.k = w[t].k + 1 /\ e.k \in Nat \ {0}
  BY <1>p DEF Executor
<1>2. Become(t, e)
  BY DEF FileDone
<1>3. pc = "labelCommit" => w[t].k + 1 <= BatchSize
  <2>1. Len(mem[t].files) \in Nat /\ w[t].index \in Nat /\ w[t].k \in Nat
    BY <1>p DEF Memory, Executor
  <2>2. BatchLen(w[t].index, mem[t].files) <= BatchSize
    BY <1>p, <2>1 DEF BatchLen
  <2>. QED
    BY <2>2
<1>4. pc \in {"labelCommit", "capture"}
  OBVIOUS
<1> HIDE DEF e, pc
<1>5. e.pc = "labelCommit" => e.k \in 1 .. BatchSize
  BY <1>p, <1>1, <1>3
<1>6. job.status = "running"
  BY <1>p DEF PlainFits, LabellingPCs
<1>7. PlainFits(e)
  BY <1>1, <1>4, <1>5, <1>6 DEF PlainFits
<1>. QED
  BY <1>2, <1>7, PlainGoesOn DEF Follows

\* A batch is committed behind the ones before it.
LEMMA PlainCommitBatch ==
  ASSUME Undisturbed, WholeInv, PlainInv, NEW t \in Task, CommitBatch(t)
  PROVE  PlainInv' /\ Follows
<1>p. /\ PlainStore /\ w[t] \in Executor /\ w \in [Task -> Executor]
      /\ LogInv /\ Dense("labelling") /\ DataOK /\ LabelFits(w[t], mem[t])
      /\ Manifest \in Seq(File) /\ Active(t) /\ w[t].pc = "labelCommit"
      /\ job \in [status : Statuses, total : Nat, processed : Nat, dry : BOOLEAN]
      /\ BatchSize \in Nat
  BY PlainParts, WholeParts, LogParts, StoreAssumption
     DEF CommitBatch, CommitBatchLeaving, At, Fits
<1>f. /\ job.status = "running" /\ w[t].k \in 1 .. BatchSize
      /\ mem[t].files = Manifest /\ Labels(w[t])
  <2>1. Labels(w[t])
    BY <1>p DEF Labels
  <2>. QED
    BY <1>p, <2>1, PlainParts DEF PlainFits, RunFits, LabellingPCs
<1>1. PICK c, r, e, m :
        /\ Commit(t, c, r, e, m)
        /\ c.type = "labelling" /\ c.batch = w[t].batch /\ c.sites = {}
        /\ c.index = w[t].index + w[t].k
        /\ r.status = job.status /\ e.pc = "label"
  <2> DEFINE v == w[t]
             end == v.index + v.k
             c == [type |-> "labelling", batch |-> v.batch, sites |-> {},
                   total |-> 0, files |-> <<>>, index |-> end,
                   counted |-> v.counted, applied |-> mem[t].applied]
             r == [job EXCEPT !.processed = v.counted]
             e == [v EXCEPT !.pc = "label", !.index = end, !.k = 0,
                            !.batch = @ + 1]
             m == [mem[t] EXCEPT !.applied = <<>>]
  <2>1. Commit(t, c, r, e, m)
    BY DEF CommitBatch, CommitBatchLeaving
  <2>2. e.pc = "label"
    BY <1>p DEF Executor
  <2>3. r.status = job.status
    BY <1>p
  <2>4. /\ c.type = "labelling" /\ c.batch = w[t].batch /\ c.sites = {}
        /\ c.index = w[t].index + w[t].k
    OBVIOUS
  <2> HIDE DEF c, r, e, m
  <2>. QED
    BY <2>1, <2>2, <2>3, <2>4
<1>2. UNCHANGED <<signal, owed>>
  BY DEF CommitBatch, CommitBatchLeaving, Commit
<1>3. CASE ~Insertable(c.type, c.batch)
  <2>1. Abandon(t, "done") /\ UNCHANGED <<cps, job>>
    BY <1>1, <1>3 DEF Commit
  <2>. QED
    BY <1>2, <1>p, <2>1, PlainLeaves DEF Abandon, Follows
<1>4. CASE Insertable(c.type, c.batch)
  <2>1. /\ cps' = cps \cup {c} /\ w'[t] = e /\ UNCHANGED task
        /\ job'.status = job.status
    BY <1>1, <1>4, <1>p DEF Commit, Become
  <2>2. /\ CpsOf("labelling")' = CpsOf("labelling") \cup {c}
        /\ CpsOf("enumeration")' = CpsOf("enumeration")
    BY <1>1, <2>1 DEF CpsOf
  <2>3. /\ c.batch = Batches("labelling") /\ c.batch \in Nat
        /\ \A d \in CpsOf("labelling") : Newest(d) => d.index = w[t].index
    BY <1>1, <1>4, <1>p, <1>f, LabelsAtTheEnd DEF Executor
  <2>4. \A d \in CpsOf("labelling") : d.batch \in Nat /\ d.batch < c.batch
    BY <1>p, <2>3 DEF Dense
  <2>5. Manifest' = Manifest
    BY <1>p, <2>2, LogParts, ManifestKept
  <2>6. Completed' = Completed
    BY <2>2 DEF Completed
  <2>7. Handled = w[t].index
    <3>1. CASE c.batch = 0
      <4>1. CpsOf("labelling") = {}
        BY <2>4, <3>1
      <4>2. w[t].index = 0
        BY <1>1, <1>f, <1>p, <3>1 DEF LabelFits
      <4>. QED
        BY <4>1, <4>2 DEF Handled
    <3>2. CASE c.batch # 0
      <4>1. PICK d \in CpsOf("labelling") : d.batch = c.batch - 1
        <5>1. c.batch - 1 \in 0 .. Batches("labelling") - 1
          BY <2>3, <3>2
        <5>. QED
          BY <1>p, <5>1 DEF Dense
      <4>2. Newest(d)
        BY <2>3, <4>1 DEF Newest, CpsOf
      <4>. QED
        BY <2>3, <4>2, HandledIs
    <3>. QED
      BY <3>1, <3>2
  <2>8. Handled' = w[t].index + w[t].k
    <3>1. Handled' = (CHOOSE d \in Latest(CpsOf("labelling")') : TRUE).index
      BY <2>2 DEF Handled, Latest
    <3>2. \A d \in CpsOf("labelling")' \ {c} : d.batch \in Int /\ d.batch < c.batch
      BY <2>2, <2>4
    <3>3. (CHOOSE d \in Latest(CpsOf("labelling")') : TRUE) = c
      BY <2>2, <2>3, <3>2, LatestIs
    <3>. QED
      BY <1>1, <3>1, <3>3
  <2>9. w[t].index + w[t].k <= Len(Manifest)
    BY <1>f, <1>p DEF LabelFits
  <2>10. Progress!LabelBatch
    <3>1. \E n \in 1 .. BatchSize :
            Handled + n <= Len(Manifest) /\ Handled' = Handled + n
      BY <1>f, <2>7, <2>8, <2>9
    <3>. QED
      BY <1>f, <2>1, <2>5, <2>6, <3>1 DEF Progress!LabelBatch, Completed, Handled
  <2>11. PlainStore'
    <3>1. \A d \in CpsOf("labelling") : d.index <= c.index
      <4> TAKE d \in CpsOf("labelling")
      <4>1. Batches("labelling") \in Nat
        BY <1>p DEF Dense
      <4>2. PICK l \in CpsOf("labelling") : l.batch = Batches("labelling") - 1
        <5>1. Batches("labelling") - 1 \in 0 .. Batches("labelling") - 1
          BY <2>3, <2>4, <4>1
        <5>. QED
          BY <1>p, <5>1 DEF Dense
      <4>3. Newest(l)
        BY <4>2 DEF Newest, CpsOf
      <4>4. l.index = w[t].index
        BY <2>3, <4>3
      <4>5. d.batch < l.batch \/ d = l
        BY <1>p, <2>3, <2>4, <4>1, <4>2 DEF Dense
      <4>6. d.index <= l.index
        <5>1. l.index <= l.index
          BY <1>p, <4>4 DEF Executor
        <5>. QED
          BY <1>p, <4>5, <5>1 DEF PlainStore
      <4>7. d.index \in Nat
        BY WholeParts DEF ControlOK, CpsOf
      <4>. QED
        BY <1>1, <1>f, <1>p, <4>4, <4>6, <4>7 DEF Executor
    <3>2. \A x, y \in CpsOf("labelling")' : x.batch < y.batch => x.index <= y.index
      <4>1. \A x, y \in CpsOf("labelling") : x.batch < y.batch => x.index <= y.index
        BY <1>p DEF PlainStore
      <4>2. \A x \in CpsOf("labelling") : ~(c.batch < x.batch)
        BY <2>3, <2>4
      <4>3. ~(c.batch < c.batch)
        BY <2>3
      <4>. QED
        BY <2>2, <3>1, <4>1, <4>2, <4>3
    <3>. QED
      BY <1>1, <1>2, <1>p, <2>1, <3>2 DEF PlainStore
  <2>12. PlainFits(w[t])'
    BY <1>1, <1>f, <2>1 DEF PlainFits
  <2>13. PlainInv'
    BY <1>p, <2>1, <2>11, <2>12, PlainMoves DEF Active
  <2>. QED
    BY <2>10, <2>13 DEF Follows, Progress!Worker
<1>. QED
  BY <1>3, <1>4

\* The job is declared completed where the log has reached its end.
LEMMA PlainComplete ==
  ASSUME Undisturbed, WholeInv, PlainInv, NEW t \in Task, Complete(t)
  PROVE  PlainInv' /\ Follows
<1>p. /\ PlainStore /\ w[t] \in Executor /\ w \in [Task -> Executor]
      /\ task \in [Task -> TaskRow] /\ LogInv /\ RowFits
      /\ Dense("labelling") /\ Manifest \in Seq(File)
      /\ job \in [status : Statuses, total : Nat, processed : Nat, dry : BOOLEAN]
  BY PlainParts, WholeParts, LogParts
<1>1. /\ Active(t) /\ w[t].pc = "complete" /\ Leave(t, "done")
      /\ UNCHANGED <<cps, signal, owed>> /\ job'.status = "completed"
  BY <1>p DEF Complete, At
<1>2. job.status = "running" /\ Processed
  BY <1>1, PlainParts DEF PlainFits, RunFits
<1>3. /\ \A u \in Task : u # t => task'[u] = task[u]
      /\ \A u \in Task : task'[u].kind = task[u].kind
      /\ ~Active(t)'
  BY <1>1, <1>p DEF Leave, TaskRow, Active
<1>4. Completed' = Completed /\ Manifest' = Manifest /\ Handled' = Handled
  BY <1>1, SameLog
<1>5. Handled = Len(Manifest)
  <2>1. CASE CpsOf("labelling") = {}
    <3>1. Manifest = <<>>
      BY <1>2, <2>1 DEF Processed
    <3>. QED
      BY <2>1, <3>1 DEF Handled
  <2>2. CASE CpsOf("labelling") # {}
    <3>1. PICK c \in CpsOf("labelling") : c.batch = Batches("labelling") - 1
      <4>1. Batches("labelling") \in Nat
        BY <1>p DEF Dense
      <4>2. PICK d \in CpsOf("labelling") : TRUE
        BY <2>2
      <4>3. d.batch \in 0 .. Batches("labelling") - 1
        BY <1>p DEF Dense
      <4>4. Batches("labelling") - 1 \in 0 .. Batches("labelling") - 1
        BY <4>1, <4>3
      <4>. QED
        BY <1>p, <4>4 DEF Dense
    <3>2. Newest(c)
      BY <3>1 DEF Newest, CpsOf
    <3>3. Handled = c.index
      BY <3>2, HandledIs
    <3>4. c.index <= Len(Manifest) /\ c.index \in Nat /\ Len(Manifest) \in Nat
      BY <1>p, WholeParts DEF RowFits, ControlOK, CpsOf
    <3>5. CASE Manifest = <<>>
      BY <3>3, <3>4, <3>5
    <3>6. CASE Manifest # <<>>
      <4>1. PICK d \in CpsOf("labelling") : d.index = Len(Manifest)
        BY <1>2, <3>6 DEF Processed
      <4>2. d.batch < c.batch \/ d = c
        <5>1. Batches("labelling") \in Nat /\ d.batch \in 0 .. Batches("labelling") - 1
          BY <1>p DEF Dense
        <5>2. d.batch < c.batch \/ d.batch = c.batch
          BY <3>1, <5>1
        <5>. QED
          BY <1>p, <5>2 DEF Dense
      <4>3. d = c \/ d.index <= c.index
        BY <1>p, <4>2 DEF PlainStore
      <4>. QED
        BY <3>3, <3>4, <4>1, <4>3
    <3>. QED
      BY <3>5, <3>6
  <2>. QED
    BY <2>1, <2>2
<1>6. Progress!Complete
  BY <1>1, <1>2, <1>4, <1>5 DEF Progress!Complete, Completed, Handled
<1>7. PlainStore'
  BY <1>1, <1>3, <1>p DEF PlainStore, CpsOf
<1>8. PlainInv'
  BY <1>1, <1>3, <1>7, PlainMoves DEF Active
<1>. QED
  BY <1>6, <1>8 DEF Follows, Progress!Worker

LEMMA PlainLabel ==
  ASSUME Undisturbed, WholeInv, PlainInv, NEW t \in Task, LabelPhase(t)
  PROVE  PlainInv' /\ Follows
<1>p. /\ PlainStore /\ w[t] \in Executor /\ w \in [Task -> Executor]
  BY PlainParts, WholeParts
<1>a. Active(t)
  BY DEF LabelPhase, LabelConfigFails, LabelInit, StartLabelling, LabelFrom,
         NextBatch, LabelFile, NoteDryRun, Capture, ApplyLabel, ApplyRefused,
         ApplyUnknown, CommitBatch, CommitBatchLeaving, AfterLabel, Complete, At
<1>f. PlainFits(w[t])
  BY <1>a, PlainParts
<1>1. ~LabelConfigFails(t) /\ ~ApplyRefused(t) /\ ~ApplyUnknown(t)
  BY PlainParts DEF LabelConfigFails, ApplyRefused, ApplyUnknown, Fault
<1>2. ASSUME NEW pc \in {"final", "capture", "apply"}, Goto(t, pc),
             UNCHANGED <<job, cps, signal, owed, task>>,
             pc # "final" => w[t].pc \in LabellingPCs
      PROVE  PlainInv' /\ Follows
  <2> DEFINE e == [w[t] EXCEPT !.pc = pc]
  <2>1. e.pc = pc /\ Become(t, e)
    BY <1>2, <1>p DEF Executor, Goto
  <2> HIDE DEF e
  <2>2. PlainFits(e)
    BY <1>2, <1>f, <2>1 DEF PlainFits, LabellingPCs
  <2>. QED
    BY <1>2, <1>a, <2>1, <2>2, PlainGoesOn DEF Follows
<1>3. ASSUME NEW index, NEW counted, NEW batch, LabelFrom(t, index, counted, batch)
      PROVE  PlainInv' /\ Follows
  <2> DEFINE e == [w[t] EXCEPT !.pc = "label", !.phase = "labelling",
                               !.index = index, !.counted = counted,
                               !.batch = batch, !.k = 0]
  <2>1. e.pc = "label"
    BY <1>p DEF Executor
  <2>2. /\ Become(t, e) /\ w[t].pc = "labelInit"
        /\ UNCHANGED <<job, cps, signal, owed, task>>
    BY <1>3 DEF LabelFrom, At
  <2> HIDE DEF e
  <2>3. PlainFits(e)
    BY <1>f, <2>1, <2>2 DEF PlainFits
  <2>. QED
    BY <1>a, <2>2, <2>3, PlainGoesOn DEF Follows
<1>4. CASE LabelInit(t)
  <2>1. CASE \E c \in Latest(CpsOf("labelling")) :
               LabelFrom(t, c.index, c.counted, c.batch + 1)
    BY <1>3, <2>1
  <2>2. CASE LabelFrom(t, 0, 0, 0)
    BY <1>3, <2>2
  <2>3. CASE Goto(t, "final") /\ UNCHANGED <<job, cps, signal, owed, task>>
    BY <1>2, <2>3
  <2>. QED
    BY <1>4, <2>1, <2>2, <2>3 DEF LabelInit, StartLabelling
<1>5. CASE NextBatch(t)
  BY <1>2, <1>5 DEF NextBatch, At, LabellingPCs
<1>6. CASE Capture(t)
  BY <1>2, <1>6 DEF Capture, At, LabellingPCs
<1>7. CASE NoteDryRun(t) \/ ApplyLabel(t)
  <2>1. /\ FileDone(t, 1) /\ w[t].pc \in {"capture", "apply"}
        /\ UNCHANGED <<job, cps, signal, owed, task>>
    BY <1>7 DEF NoteDryRun, ApplyLabel, At
  <2>. QED
    BY <1>a, <2>1, PlainFileDone
<1>8. CASE AfterLabel(t)
  <2>1. CASE job.status = "running"
    <3> DEFINE e == [w[t] EXCEPT !.pc = "complete", !.st = "running"]
    <3>1. /\ e.pc = "complete" /\ Become(t, e)
          /\ UNCHANGED <<job, cps, signal, owed, task>>
      BY <1>8, <1>p, <2>1 DEF AfterLabel, Executor
    <3> HIDE DEF e
    <3>2. PlainFits(e)
      BY <2>1, <3>1 DEF PlainFits, LabellingPCs
    <3>. QED
      BY <1>a, <3>1, <3>2, PlainGoesOn DEF Follows
  <2>2. CASE job.status # "running"
    BY <1>8, <1>a, <2>2, PlainLeaves DEF AfterLabel, Follows
  <2>. QED
    BY <2>1, <2>2
<1>. QED
  BY <1>1, <1>4, <1>5, <1>6, <1>7, <1>8, PlainCommitBatch, PlainComplete
     DEF LabelPhase, LabelFile

LEMMA PlainStep ==
  ASSUME Undisturbed, WholeInv, PlainInv, [Next]_vars
  PROVE  PlainInv' /\ Follows
<1>1. CASE UNCHANGED vars
  <2>1. Quiet /\ UNCHANGED <<job, task, w>>
    BY <1>1 DEF vars, Quiet
  <2>2. PlainStore' /\ UNCHANGED Progress!progress /\ Completed' = Completed
    BY <2>1, QuietStep DEF PlainInv
  <2>3. \A t \in Task : Active(t)' => PlainFits(w[t])'
    BY <2>1, <2>2 DEF PlainInv, PlainFits, Active
  <2>. QED
    BY <2>2, <2>3 DEF PlainInv, Follows
<1>2. CASE ApiNext
  BY <1>2, PlainApi
<1>3. CASE ExecutorNext
  BY <1>3, PlainBegin, PlainSignalled, PlainEnumerate, PlainLabel, PlainRollBack,
     PlainDisrupt DEF ExecutorNext, Work
<1>. QED
  BY <1>1, <1>2, <1>3 DEF Next

LEMMA PlainStart ==
  ASSUME Init
  PROVE  PlainInv /\ Progress!Init
<1>1. /\ cps = {} /\ \A t \in Task : ~Active(t) /\ task[t].kind = "run"
      /\ job.status \in {"pending", "enumerating"} /\ signal = NoSignal
      /\ \A d \in Debts \ {"run"} : owed[d] = 0
  BY DEF Init, Created, Active, Debts, NoSignal
<1>2. /\ CpsOf("enumeration") = {} /\ CpsOf("labelling") = {}
  BY <1>1 DEF CpsOf
<1>3. PlainInv
  BY <1>1, <1>2 DEF PlainInv, PlainStore
<1>4. Completed = {} /\ Handled = 0
  BY <1>2 DEF Completed, Handled
<1>5. Len(Manifest) = 0
  <2>1. LogInv
    BY StoreInit
  <2>2. job.total = 0
    BY DEF Init, Created
  <2>. QED
    BY <2>1, <2>2, LogParts DEF RowFits
<1>. QED
  BY <1>1, <1>3, <1>4, <1>5 DEF Progress!Init, Completed, Handled

\* The step part of RefinesProgress: whatever crashes and is delivered again,
\* a job that the user only starts, and whose calls succeed, commits one new
\* site after the other, all of them before it labels, then one batch after
\* the other from where the last one ended, and is completed only when every
\* file found has been handled (run, _enumerate, _label).
THEOREM SpecRefinesProgressSteps ==
  ASSUME Allowed \subseteq {"start"}, MaxFaults = 0
  PROVE  Spec => /\ Progress!Init
                 /\ [][Progress!Begin \/ Progress!Worker]_(Progress!progress)
<1>u. Undisturbed
  BY DEF Undisturbed
<1>r. "resume" \notin Allowed
  OBVIOUS
<1>1. Init => WholeInv /\ PlainInv /\ Progress!Init
  BY PlainStart, WholeStart
<1>2. WholeInv /\ PlainInv /\ [Next]_vars =>
        /\ WholeInv' /\ PlainInv'
        /\ [Progress!Begin \/ Progress!Worker]_(Progress!progress)
  <2> SUFFICES ASSUME WholeInv, PlainInv, [Next]_vars
               PROVE  /\ WholeInv' /\ PlainInv'
                      /\ [Progress!Begin \/ Progress!Worker]_(Progress!progress)
    OBVIOUS
  <2>1. WholeInv'
    BY <1>r, RunStep
  <2>2. PlainInv' /\ Follows
    BY <1>u, PlainStep
  <2>. QED
    BY <2>1, <2>2 DEF Follows
<1>. QED
  BY <1>1, <1>2, PTL DEF Spec
=============================================================================
