--------------------------- MODULE Scheduler_proofs ----------------------------
(***************************************************************************)
(* Proofs about Scheduler, for any sources, schedules, minutes and slots.  *)
(***************************************************************************)
EXTENDS Scheduler, TLAPS

Types ==
  /\ minute \in Minute
  /\ eligible \subseteq Source
  /\ tick \in [Minute -> Tick]
  /\ clones \subseteq Clone

\* Later ticks are not queued yet.
Future == \A m \in Minute : m > minute => tick[m].state = "none"

\* A running tick began, and began its transaction, in a minute gone by.
Timely ==
  \A m \in Minute : Running(m) =>
    tick[m].now <= tick[m].txn /\ tick[m].txn <= minute

\* Ticks that run at the same time are on record.
Recorded ==
  \A m, n \in Minute :
    Running(m) /\ Running(n) /\ m # n => {m, n} \in overlaps

\* A clone is born in the minute it is for or later, and its tick has begun.
Born ==
  \A c \in clones :
    c.born >= c.due /\ tick[c.tick].state \in {"running", "done"}

\* A tick has no clone of a job it has yet to look at or to create.
Ahead ==
  \A c \in clones : Running(c.tick) =>
    /\ c.source \notin tick[c.tick].todo
    /\ tick[c.tick].pc = "create" => c.source \notin tick[c.tick].cur

\* What is being cloned is no longer to be looked at.
Disjoint == \A m \in Minute : Running(m) /\ tick[m].pc = "create" =>
              tick[m].cur \cap tick[m].todo = {}

\* A tick clones a job once.
OncePerTick ==
  \A c, d \in clones : c.tick = d.tick /\ c.source = d.source => c = d

\* What is born after the guard and before the clone it has let pass comes
\* from a tick that runs at the same time.
Guarded ==
  \A m \in Minute, c \in clones :
    /\ Running(m) /\ tick[m].pc = "create"
    /\ c.source \in tick[m].cur
    /\ c.born >= tick[m].now
    => {m, c.tick} \in overlaps

SchedInv ==
  /\ Types /\ Future /\ Timely /\ Recorded /\ Born
  /\ Ahead /\ Disjoint /\ OncePerTick /\ Guarded
  /\ NoTwinsInTurn

USE DEF Running

\* Minutes are naturals from zero.
LEMMA MinuteNat == Minute \subseteq Nat /\ MaxMinute \in Nat /\ 0 \in Minute
BY SchedulerAssumption DEF Minute

\* Initially the first tick is queued and nothing is cloned.
THEOREM SchedInit == Init => SchedInv
<1>. SUFFICES ASSUME Init PROVE SchedInv
  OBVIOUS
<1>1. NewTick \in Tick /\ [NewTick EXCEPT !.state = "queued"] \in Tick
  BY MinuteNat DEF NewTick, Tick
<1>2. \A m \in Minute : tick[m].state = IF m = 0 THEN "queued" ELSE "none"
  BY DEF Init, NewTick
<1>3. Types
  BY <1>1, MinuteNat DEF Init, Types
<1>4. Future
  BY <1>2, MinuteNat DEF Init, Future
<1>. QED
  BY <1>2, <1>3, <1>4
  DEF Init, SchedInv, Timely, Recorded, Born, Ahead, Disjoint, OncePerTick, Guarded,
      NoTwinsInTurn

-----------------------------------------------------------------------------
(* What happens around the ticks.                                          *)

\* The next minute's tick is queued: it was none, so it has no clones.
LEMMA StepClock ==
  ASSUME SchedInv, ClockAdvances
  PROVE  SchedInv'
<1>1. /\ minute + 1 \in Minute /\ minute' = minute + 1 /\ minute \in Nat
      /\ tick' = [tick EXCEPT ![minute + 1].state = "queued"]
      /\ UNCHANGED <<eligible, clones, overlaps>>
      /\ tick[minute + 1].state = "none"
  BY MinuteNat DEF ClockAdvances, SchedInv, Types, Future, Minute
<1>2. Types'
  BY <1>1 DEF SchedInv, Types, Tick
<1>3. \A m \in Minute : Running(m)' => Running(m) /\ tick'[m] = tick[m]
  BY <1>1, <1>2 DEF SchedInv, Types, Tick
<1>4. Future'
  BY <1>1, MinuteNat DEF SchedInv, Types, Future
<1>5. Timely' /\ Recorded'
  BY <1>1, <1>3, MinuteNat DEF SchedInv, Types, Tick, Timely, Recorded
<1>6. \A c \in clones : c.tick \in Minute /\ c.tick # minute + 1
                       /\ tick'[c.tick] = tick[c.tick]
  BY <1>1 DEF SchedInv, Types, Clone, Born
<1>7. Born' /\ Ahead' /\ Disjoint' /\ OncePerTick'
  BY <1>1, <1>6 DEF SchedInv, Born, Ahead, Disjoint, OncePerTick
<1>8. Guarded' /\ NoTwinsInTurn'
  BY <1>1, <1>3 DEF SchedInv, Guarded, NoTwinsInTurn, Twins
<1>. QED
  BY <1>2, <1>4, <1>5, <1>7, <1>8 DEF SchedInv

\* Users and other tasks leave the ticks and their clones alone.
LEMMA StepFrame ==
  ASSUME SchedInv, eligible' \subseteq Source,
         UNCHANGED <<minute, tick, clones, overlaps>>
  PROVE  SchedInv'
BY DEF SchedInv, Types, Future, Timely, Recorded, Born, Ahead, Disjoint, OncePerTick,
       Guarded, NoTwinsInTurn, Twins

-----------------------------------------------------------------------------
(* The steps of a tick.                                                    *)

\* A tick that begins has no clones; the ticks that run are put on record.
LEMMA StepBegin ==
  ASSUME SchedInv, NEW m \in Minute, BeginTick(m)
  PROVE  SchedInv'
<1>1. /\ tick[m].state = "queued"
      /\ tick' = [tick EXCEPT ![m] =
           [NewTick EXCEPT !.state = "running", !.now = minute, !.txn = minute,
                           !.found = eligible, !.todo = eligible]]
      /\ overlaps' = overlaps \cup { {m, n} : n \in { n \in Minute : Running(n) } }
      /\ UNCHANGED <<minute, eligible, clones>>
  BY DEF BeginTick
<1>2. [NewTick EXCEPT !.state = "running", !.now = minute, !.txn = minute,
                      !.found = eligible, !.todo = eligible] \in Tick
  BY MinuteNat DEF SchedInv, Types, NewTick, Tick
<1>3. Types'
  BY <1>1, <1>2 DEF SchedInv, Types
<1>4. /\ tick'[m].now = minute /\ tick'[m].txn = minute /\ tick'[m].pc = "next"
      /\ tick'[m].state = "running"
      /\ \A n \in Minute \ {m} : tick'[n] = tick[n]
  BY <1>1 DEF SchedInv, Types, NewTick
<1>5. Future' /\ Timely'
  BY <1>1, <1>4, MinuteNat DEF SchedInv, Types, Future, Timely
<1>6. Recorded'
  <2>. SUFFICES ASSUME NEW i \in Minute, NEW j \in Minute,
                       Running(i)', Running(j)', i # j
                PROVE  {i, j} \in overlaps'
    BY DEF Recorded
  <2>1. CASE i # m /\ j # m
    BY <2>1, <1>1, <1>4 DEF SchedInv, Recorded
  <2>2. CASE i = m
    BY <2>2, <1>1, <1>4
  <2>3. CASE j = m
    <3>1. {i, j} = {m, i} /\ Running(i)
      BY <2>3, <1>4
    <3>. QED
      BY <3>1, <1>1
  <2>. QED
    BY <2>1, <2>2, <2>3
<1>7. \A c \in clones : c.tick \in Minute \ {m}
  BY <1>1 DEF SchedInv, Types, Clone, Born
<1>8. Born' /\ Ahead' /\ Disjoint' /\ OncePerTick'
  BY <1>1, <1>4, <1>7 DEF SchedInv, Born, Ahead, Disjoint, OncePerTick
<1>9. Guarded' /\ NoTwinsInTurn'
  BY <1>1, <1>4 DEF SchedInv, Guarded, NoTwinsInTurn, Twins
<1>. QED
  BY <1>3, <1>5, <1>6, <1>8, <1>9 DEF SchedInv

\* A tick goes on to its next job, or ends.
LEMMA StepOn ==
  ASSUME SchedInv, NEW m \in Minute, Running(m), NEW t \in Tick,
         tick' = [tick EXCEPT ![m] = t],
         t.state \in {"running", "done"}, t.pc # "create",
         t.now = tick[m].now, t.txn = tick[m].txn, t.todo \subseteq tick[m].todo,
         UNCHANGED <<minute, eligible, clones, overlaps>>
  PROVE  SchedInv'
<1>1. tick'[m] = t /\ \A n \in Minute \ {m} : tick'[n] = tick[n]
  BY DEF SchedInv, Types
<1>2. Types'
  BY DEF SchedInv, Types
<1>3. \A n \in Minute : Running(n)' => Running(n)
  BY <1>1
<1>4. Future' /\ Timely' /\ Recorded'
  BY <1>1, <1>3 DEF SchedInv, Future, Timely, Recorded
<1>5. \A c \in clones : c.tick \in Minute
  BY DEF SchedInv, Types, Clone
<1>6. Born' /\ Ahead' /\ Disjoint' /\ OncePerTick'
  BY <1>1, <1>5 DEF SchedInv, Born, Ahead, Disjoint, OncePerTick
<1>7. Guarded' /\ NoTwinsInTurn'
  BY <1>1, <1>3 DEF SchedInv, Guarded, NoTwinsInTurn, Twins
<1>. QED
  BY <1>2, <1>4, <1>6, <1>7 DEF SchedInv

\* The guard lets a job pass: there is no clone of it as young as the tick.
LEMMA StepGuard ==
  ASSUME SchedInv, NEW m \in Minute, NEW s \in Source,
         At(m, "next"), s \in tick[m].todo,
         ~ Recent(s, tick[m].now),
         tick' = [tick EXCEPT ![m] =
           [tick[m] EXCEPT !.todo = @ \ {s}, !.cur = {s}, !.pc = "create"]],
         UNCHANGED <<minute, eligible, clones, overlaps>>
  PROVE  SchedInv'
<1>1. /\ tick[m] \in Tick
      /\ tick'[m] = [tick[m] EXCEPT !.todo = @ \ {s}, !.cur = {s}, !.pc = "create"]
      /\ \A n \in Minute \ {m} : tick'[n] = tick[n]
  BY DEF SchedInv, Types
<1>2. /\ tick'[m] \in Tick
      /\ tick'[m].state = tick[m].state /\ tick'[m].cur = {s}
      /\ tick'[m].todo = tick[m].todo \ {s}
      /\ tick'[m].now = tick[m].now /\ tick'[m].txn = tick[m].txn
  <2>1. {s} \in SUBSET Source /\ tick[m].todo \ {s} \in SUBSET Source
    BY <1>1 DEF Tick
  <2>2. ASSUME NEW u, u = tick'[m]
        PROVE  /\ u \in Tick /\ u.state = tick[m].state /\ u.cur = {s}
               /\ u.todo = tick[m].todo \ {s}
               /\ u.now = tick[m].now /\ u.txn = tick[m].txn
    <3>. DEFINE todo == tick[m].todo \ {s}
                cur == {s}
                t == tick[m]
    <3>1. /\ t \in Tick /\ todo \in SUBSET Source /\ cur \in SUBSET Source
          /\ u = [t EXCEPT !.todo = todo, !.cur = cur, !.pc = "create"]
      BY <1>1, <2>1, <2>2
    <3>. HIDE DEF todo, cur, t
    <3>2. /\ u \in Tick /\ u.state = t.state /\ u.now = t.now /\ u.txn = t.txn
          /\ u.todo = todo /\ u.cur = cur
      BY <3>1 DEF Tick
    <3>. QED
      BY <3>2 DEF todo, cur, t
  <2>. QED
    BY <2>2
<1>3. Types'
  BY <1>2 DEF SchedInv, Types
<1>4. \A n \in Minute : tick'[n].state = tick[n].state
  BY <1>1, <1>2
<1>5. Future' /\ Timely' /\ Recorded'
  BY <1>1, <1>2, <1>4 DEF SchedInv, Future, Timely, Recorded
<1>6. \A c \in clones : c.tick \in Minute
  BY DEF SchedInv, Types, Clone
<1>7. Born' /\ OncePerTick'
  BY <1>4, <1>6 DEF SchedInv, Born, OncePerTick
<1>8. Ahead' /\ Disjoint'
  BY <1>1, <1>2, <1>6 DEF SchedInv, Ahead, Disjoint, At
<1>9. Guarded'
  BY <1>1, <1>2, <1>4 DEF SchedInv, Guarded, Recent
<1>10. NoTwinsInTurn'
  BY DEF SchedInv, NoTwinsInTurn, Twins
<1>. QED
  BY <1>3, <1>5, <1>7, <1>8, <1>9, <1>10 DEF SchedInv

\* The clone is committed: whatever is as young was made by a tick that runs
\* at the same time, and this tick runs together with all that are creating.
LEMMA StepCreate ==
  ASSUME SchedInv, NEW m \in Minute, CreateClone(m)
  PROVE  SchedInv'
<1>. PICK s \in tick[m].cur :
       clones' = clones \cup { [source |-> s, due |-> tick[m].now,
                                born |-> tick[m].txn, tick |-> m,
                                sent |-> FALSE] }
  BY DEF CreateClone
<1>. DEFINE new == [source |-> s, due |-> tick[m].now, born |-> tick[m].txn,
                    tick |-> m, sent |-> FALSE]
<1>1. /\ Running(m) /\ tick[m].pc = "create" /\ tick[m] \in Tick
      /\ minute \in Nat /\ tick[m].now \in Nat /\ tick[m].txn \in Nat
      /\ tick' = [tick EXCEPT ![m] =
                    [tick[m] EXCEPT !.pc = "enqueue", !.txn = minute]]
      /\ UNCHANGED <<minute, eligible, overlaps>>
  BY MinuteNat DEF CreateClone, At, Become, SchedInv, Types, Tick
<1>2. /\ tick'[m] \in Tick /\ tick'[m].pc = "enqueue"
      /\ tick'[m].state = tick[m].state /\ tick'[m].now = tick[m].now
      /\ tick'[m].todo = tick[m].todo /\ tick'[m].txn = minute
      /\ \A n \in Minute \ {m} : tick'[n] = tick[n]
  BY <1>1 DEF SchedInv, Types, Tick
<1>3. /\ new \in Clone /\ clones' = clones \cup {new}
      /\ new.tick = m /\ new.source = s /\ new.due = tick[m].now
      /\ new.born = tick[m].txn
  BY <1>1 DEF Tick, Clone
<1>h. HIDE DEF new
<1>4. Types'
  BY <1>1, <1>2, <1>3 DEF SchedInv, Types
<1>5. \A n \in Minute : tick'[n].state = tick[n].state
  BY <1>1, <1>2
<1>6. Future' /\ Timely' /\ Recorded'
  <2>1. Future'
    BY <1>1, <1>5 DEF SchedInv, Future
  <2>2. tick[m].now <= minute
    BY <1>1 DEF SchedInv, Timely
  <2>3. Timely'
    BY <1>1, <1>2, <1>5, <2>2 DEF SchedInv, Timely
  <2>4. Recorded'
    BY <1>1, <1>5 DEF SchedInv, Recorded
  <2>. QED
    BY <2>1, <2>3, <2>4
<1>7. \A c \in clones : c.tick \in Minute /\ c.born \in Nat /\ c.due \in Nat
  BY MinuteNat DEF SchedInv, Types, Clone
<1>8. Born'
  BY <1>1, <1>2, <1>3, <1>5, <1>7 DEF SchedInv, Born, Timely
<1>9. Ahead' /\ Disjoint'
  <2>1. new.source \notin tick[m].todo
    BY <1>1, <1>3 DEF SchedInv, Disjoint
  <2>. QED
    BY <2>1, <1>1, <1>2, <1>3, <1>7 DEF SchedInv, Ahead, Disjoint
<1>10. OncePerTick'
  <2>1. \A c \in clones : c.tick = m => c.source # s
    BY <1>1 DEF SchedInv, Ahead
  <2>. QED
    BY <2>1, <1>3 DEF SchedInv, OncePerTick
<1>11. Guarded'
  <2>. SUFFICES ASSUME NEW n \in Minute, NEW c \in clones', Running(n)',
                       tick'[n].pc = "create", c.source \in tick'[n].cur,
                       c.born >= tick'[n].now
                PROVE  {n, c.tick} \in overlaps
    BY <1>1 DEF Guarded
  <2>1. n # m /\ tick'[n] = tick[n]
    BY <1>2
  <2>2. CASE c \in clones
    BY <2>1, <2>2 DEF SchedInv, Guarded
  <2>3. CASE c = new
    BY <2>1, <2>3, <1>1, <1>3 DEF SchedInv, Recorded
  <2>. QED
    BY <1>3, <2>2, <2>3
<1>12. NoTwinsInTurn'
  <2>1. \A d \in clones : d.source = s /\ d.due = tick[m].now
                           => {m, d.tick} \in overlaps
    BY <1>1, <1>7 DEF SchedInv, Born, Guarded
  <2>2. \A d \in clones : {d.tick, m} = {m, d.tick}
    OBVIOUS
  <2>. QED
    BY <1>1, <1>3, <2>1, <2>2 DEF SchedInv, NoTwinsInTurn, Twins
<1>. QED
  BY <1>4, <1>6, <1>8, <1>9, <1>10, <1>11, <1>12 DEF SchedInv

\* The dispatch is noted on the clone, which keeps all that is said of it.
LEMMA StepEnqueue ==
  ASSUME SchedInv, NEW m \in Minute, EnqueueRun(m)
  PROVE  SchedInv'
<1>. DEFINE Sent(c) == IF c.tick = m /\ c.source \in tick[m].cur
                         THEN [c EXCEPT !.sent = TRUE] ELSE c
<1>1. /\ Running(m) /\ tick[m] \in Tick
      /\ tick' = [tick EXCEPT ![m] = [tick[m] EXCEPT !.pc = "next", !.cur = {}]]
      /\ clones' = { Sent(c) : c \in clones }
      /\ UNCHANGED <<minute, eligible, overlaps>>
  BY DEF EnqueueRun, At, Become, SchedInv, Types
<1>2. /\ tick'[m] \in Tick /\ tick'[m].pc = "next"
      /\ tick'[m].state = tick[m].state /\ tick'[m].now = tick[m].now
      /\ tick'[m].todo = tick[m].todo /\ tick'[m].txn = tick[m].txn
      /\ \A n \in Minute \ {m} : tick'[n] = tick[n]
  BY <1>1 DEF SchedInv, Types, Tick
<1>3. \A c \in clones : /\ Sent(c) \in Clone /\ Sent(c).source = c.source
                         /\ Sent(c).due = c.due /\ Sent(c).born = c.born
                         /\ Sent(c).tick = c.tick /\ c.tick \in Minute
  BY DEF SchedInv, Types, Clone
<1>. HIDE DEF Sent
<1>4. \A d \in clones' : \E c \in clones :
        /\ d = Sent(c) /\ d \in Clone /\ d.source = c.source /\ d.due = c.due
        /\ d.born = c.born /\ d.tick = c.tick /\ c.tick \in Minute
  BY <1>1, <1>3
<1>5. Types'
  BY <1>1, <1>2, <1>4 DEF SchedInv, Types
<1>6. \A n \in Minute : tick'[n].state = tick[n].state
  BY <1>1, <1>2
<1>7. Future' /\ Timely' /\ Recorded'
  BY <1>1, <1>2, <1>6 DEF SchedInv, Future, Timely, Recorded
<1>8. Born' /\ Ahead' /\ Disjoint'
  BY <1>2, <1>4, <1>6 DEF SchedInv, Born, Ahead, Disjoint
<1>9. OncePerTick'
  BY <1>4 DEF SchedInv, OncePerTick
<1>10. Guarded'
  BY <1>1, <1>2, <1>4 DEF SchedInv, Guarded
<1>11. NoTwinsInTurn'
  BY <1>1, <1>4 DEF SchedInv, NoTwinsInTurn, Twins
<1>. QED
  BY <1>5, <1>7, <1>8, <1>9, <1>10, <1>11 DEF SchedInv

\* The steps of one tick, and its being cut short.
LEMMA StepTick ==
  ASSUME SchedInv, NEW m \in Minute, TickStep(m) \/ CutShort(m)
  PROVE  SchedInv'
<1>. DEFINE Ended(cut) == [tick[m] EXCEPT !.state = "done", !.pc = "next",
                                         !.todo = {}, !.cur = {}, !.cut = cut]
<1>1. tick[m] \in Tick
  BY DEF SchedInv, Types
<1>2. \A cut \in BOOLEAN :
        /\ Ended(cut) \in Tick /\ Ended(cut).state = "done"
        /\ Ended(cut).pc = "next" /\ Ended(cut).todo = {}
        /\ Ended(cut).now = tick[m].now /\ Ended(cut).txn = tick[m].txn
  BY <1>1 DEF Tick
<1>3. \A s \in Source :
        LET t == [tick[m] EXCEPT !.todo = @ \ {s}] IN
          /\ t \in Tick /\ t.state = tick[m].state /\ t.pc = tick[m].pc
          /\ t.todo \subseteq tick[m].todo
          /\ t.now = tick[m].now /\ t.txn = tick[m].txn
  BY <1>1 DEF Tick
<1>. HIDE DEF Ended
<1>4. CASE SkipNotDue(m)
  <2>1. PICK s \in tick[m].todo : Become(m, [tick[m] EXCEPT !.todo = @ \ {s}])
    BY <1>4 DEF SkipNotDue
  <2>2. s \in Source
    BY <1>1 DEF Tick
  <2>3. Running(m) /\ tick[m].pc = "next"
        /\ UNCHANGED <<minute, eligible, clones, overlaps>>
    BY <1>4 DEF SkipNotDue, At
  <2>. QED
    BY <2>1, <2>2, <2>3, <1>3, StepOn DEF Become
<1>5. CASE Guard(m)
  <2>1. PICK s \in tick[m].todo :
          Become(m, IF Recent(s, tick[m].now)
                      THEN [tick[m] EXCEPT !.todo = @ \ {s}]
                      ELSE [tick[m] EXCEPT !.todo = @ \ {s}, !.cur = {s},
                                           !.pc = "create"])
    BY <1>5 DEF Guard, GuardSince
  <2>2. s \in Source
    BY <1>1 DEF Tick
  <2>3. Running(m) /\ tick[m].pc = "next" /\ At(m, "next")
        /\ UNCHANGED <<minute, eligible, clones, overlaps>>
    BY <1>5 DEF Guard, GuardSince, At
  <2>4. CASE Recent(s, tick[m].now)
    BY <2>1, <2>2, <2>3, <2>4, <1>3, StepOn DEF Become
  <2>5. CASE ~ Recent(s, tick[m].now)
    BY <2>1, <2>2, <2>3, <2>5, StepGuard DEF Become
  <2>. QED
    BY <2>4, <2>5
<1>6. CASE EndTick(m) \/ RaiseOnBroken(m) \/ CutShort(m)
  <2>1. PICK cut \in BOOLEAN : tick' = [tick EXCEPT ![m] = Ended(cut)]
    BY <1>6 DEF EndTick, RaiseOnBroken, CutShort, Over, Become, Ended
  <2>2. Running(m) /\ UNCHANGED <<minute, eligible, clones, overlaps>>
    BY <1>6 DEF EndTick, RaiseOnBroken, CutShort, At
  <2>. QED
    BY <2>1, <2>2, <1>2, StepOn
<1>. QED
  BY <1>4, <1>5, <1>6, StepBegin, StepCreate, StepEnqueue DEF TickStep

\* Every step keeps SchedInv.
THEOREM SchedStep == SchedInv /\ [Next]_vars => SchedInv'
<1>. SUFFICES ASSUME SchedInv, [Next]_vars PROVE SchedInv'
  OBVIOUS
<1>1. CASE ClockAdvances
  BY <1>1, StepClock
<1>2. CASE OthersChange \/ \E s \in Source : SourceChanges(s) \/ Copy(s)
  <2>1. UNCHANGED <<minute, tick, clones, overlaps>> /\ eligible' \subseteq Source
    BY <1>2 DEF OthersChange, SourceChanges, Copy, SchedInv, Types
  <2>. QED
    BY <2>1, StepFrame
<1>3. CASE \E m \in Minute : TickStep(m) \/ CutShort(m)
  BY <1>3, StepTick
<1>4. CASE UNCHANGED vars
  <2>1. UNCHANGED <<minute, tick, clones, overlaps>> /\ eligible' \subseteq Source
    BY <1>4 DEF vars, SchedInv, Types
  <2>. QED
    BY <2>1, StepFrame
<1>. QED
  BY <1>1, <1>2, <1>3, <1>4 DEF Next

\* However late its ticks begin, the scheduler clones a job twice for one
\* minute only by ticks that run at the same time (trigger_scheduled_jobs).
THEOREM SpecNoTwinsInTurn == Spec => []NoTwinsInTurn
<1>1. SchedInv => NoTwinsInTurn
  BY DEF SchedInv
<1>. QED
  BY <1>1, SchedInit, SchedStep, PTL DEF Spec

-----------------------------------------------------------------------------
(* A tick serves the jobs it has found.                                    *)

\* A due job that a tick has found has a clone or a copy as young as the
\* tick, unless the tick has yet to look at it or is creating its clone.
Handled ==
  \A m \in Minute : (Running(m) \/ Undisturbed(m)) /\ Sound(m) =>
    \A s \in Wanted(m) :
      \/ Recent(s, tick[m].now)
      \/ Running(m) /\ s \in tick[m].todo
      \/ At(m, "create") /\ s \in tick[m].cur

\* A running tick looks at what it has found, and clones one job at a time;
\* it has not been cut short.
Narrow ==
  \A m \in Minute : Running(m) =>
    /\ ~tick[m].cut
    /\ tick[m].todo \subseteq tick[m].found
    /\ tick[m].pc = "create" => \E s \in Source : tick[m].cur = {s}

\* A clone is dispatched unless its tick is at it or was cut short.
Dispatched ==
  \A c \in clones :
    \/ c.sent \/ tick[c.tick].cut
    \/ At(c.tick, "enqueue") /\ c.source \in tick[c.tick].cur

ServeInv == Handled /\ Narrow /\ Dispatched

\* What the steps of a tick make of its record.
LEMMA TickKept ==
  ASSUME SchedInv, NEW m \in Minute
  PROVE  /\ tick[m] \in Tick
         /\ \A t : Become(m, t) =>
              tick'[m] = t /\ \A n \in Minute \ {m} : tick'[n] = tick[n]
BY DEF SchedInv, Types, Become

LEMMA PassFields ==
  ASSUME SchedInv, NEW m \in Minute, NEW s,
         Become(m, [tick[m] EXCEPT !.todo = @ \ {s}])
  PROVE  /\ tick'[m].state = tick[m].state /\ tick'[m].pc = tick[m].pc
         /\ tick'[m].todo = tick[m].todo \ {s}
         /\ tick'[m].found = tick[m].found /\ tick'[m].now = tick[m].now
         /\ tick'[m].cut = tick[m].cut
BY TickKept DEF Tick

LEMMA TakeFields ==
  ASSUME SchedInv, NEW m \in Minute, NEW s,
         Become(m, [tick[m] EXCEPT !.todo = @ \ {s}, !.cur = {s}, !.pc = "create"])
  PROVE  /\ tick'[m].state = tick[m].state /\ tick'[m].pc = "create"
         /\ tick'[m].todo = tick[m].todo \ {s} /\ tick'[m].cur = {s}
         /\ tick'[m].found = tick[m].found /\ tick'[m].now = tick[m].now
         /\ tick'[m].cut = tick[m].cut
<1>1. /\ tick'[m] = [tick[m] EXCEPT !.todo = @ \ {s}, !.cur = {s}, !.pc = "create"]
      /\ tick[m] \in Tick
  BY TickKept
<1>. QED
  BY <1>1 DEF Tick

LEMMA CreateFields ==
  ASSUME SchedInv, NEW m \in Minute, CreateClone(m)
  PROVE  /\ tick[m].state = "running"
         /\ tick'[m].state = "running" /\ tick'[m].pc = "enqueue"
         /\ tick'[m].todo = tick[m].todo /\ tick'[m].cur = tick[m].cur
         /\ tick'[m].found = tick[m].found /\ tick'[m].now = tick[m].now
         /\ tick'[m].cut = tick[m].cut
<1>1. /\ tick'[m] = [tick[m] EXCEPT !.pc = "enqueue", !.txn = minute]
      /\ tick[m] \in Tick /\ tick[m].state = "running"
  BY TickKept DEF CreateClone, At
<1>. QED
  BY <1>1 DEF Tick

LEMMA EnqueueFields ==
  ASSUME SchedInv, NEW m \in Minute, EnqueueRun(m)
  PROVE  /\ tick[m].state = "running"
         /\ tick'[m].state = "running" /\ tick'[m].pc = "next"
         /\ tick'[m].todo = tick[m].todo /\ tick'[m].cut = tick[m].cut
         /\ tick'[m].found = tick[m].found /\ tick'[m].now = tick[m].now
<1>1. /\ tick'[m] = [tick[m] EXCEPT !.pc = "next", !.cur = {}]
      /\ tick[m] \in Tick /\ tick[m].state = "running"
  BY TickKept DEF EnqueueRun, At
<1>. QED
  BY <1>1 DEF Tick

LEMMA OverFields ==
  ASSUME SchedInv, NEW m \in Minute, NEW cut, Over(m, cut)
  PROVE  /\ tick'[m].state = "done" /\ tick'[m].pc = "next"
         /\ tick'[m].found = tick[m].found /\ tick'[m].now = tick[m].now
         /\ tick'[m].cut = cut
         /\ \A n \in Minute \ {m} : tick'[n] = tick[n]
<1>1. /\ tick'[m] = [tick[m] EXCEPT !.state = "done", !.pc = "next", !.todo = {},
                                    !.cur = {}, !.cut = cut]
      /\ tick[m] \in Tick
      /\ \A n \in Minute \ {m} : tick'[n] = tick[n]
  BY TickKept DEF Over
<1>. QED
  BY <1>1 DEF Tick

\* A clone that is dispatched keeps its source and its birth.
LEMMA SentFields ==
  ASSUME SchedInv, NEW c \in clones, NEW d, d = [c EXCEPT !.sent = TRUE]
  PROVE  /\ d.source = c.source /\ d.born = c.born /\ d.tick = c.tick /\ d.sent
         /\ c.tick \in Minute
BY DEF SchedInv, Types, Clone

\* Clones and copies stay, and with them what is recent.
LEMMA RecentStays ==
  ASSUME SchedInv, [Next]_vars, NEW s, NEW k, Recent(s, k)
  PROVE  Recent(s, k)'
<1>1. copies \subseteq copies'
  BY DEF Next, vars, ClockAdvances, OthersChange, SourceChanges, Copy, TickStep,
     BeginTick, SkipNotDue, Guard, GuardSince, CreateClone, EnqueueRun, EndTick,
     RaiseOnBroken, CutShort
<1>2. \A c \in clones : \E d \in clones' : d.source = c.source /\ d.born = c.born
  <2>1. CASE \E m \in Minute : EnqueueRun(m)
    <3>1. PICK m \in Minute :
            clones' = { IF c.tick = m /\ c.source \in tick[m].cur
                          THEN [c EXCEPT !.sent = TRUE] ELSE c : c \in clones }
      BY <2>1 DEF EnqueueRun
    <3>. SUFFICES ASSUME NEW c \in clones
                  PROVE  \E d \in clones' : d.source = c.source /\ d.born = c.born
      OBVIOUS
    <3>2. CASE c.tick = m /\ c.source \in tick[m].cur
      <4>1. [c EXCEPT !.sent = TRUE] \in clones'
        BY <3>1, <3>2
      <4>. QED
        BY <4>1, SentFields
    <3>3. CASE ~(c.tick = m /\ c.source \in tick[m].cur)
      BY <3>1, <3>3
    <3>. QED
      BY <3>2, <3>3
  <2>2. CASE ~ \E m \in Minute : EnqueueRun(m)
    <3>1. clones \subseteq clones'
      BY <2>2 DEF Next, vars, ClockAdvances, OthersChange, SourceChanges, Copy,
         TickStep, BeginTick, SkipNotDue, Guard, GuardSince, CreateClone,
         EndTick, RaiseOnBroken, CutShort
    <3>. QED
      BY <3>1
  <2>. QED
    BY <2>1, <2>2
<1>. QED
  BY <1>1, <1>2 DEF Recent

\* Where the ticks that run or have ended stay as they are.
LEMMA ServeFrame ==
  ASSUME SchedInv, ServeInv, [Next]_vars,
         \A m \in Minute : Running(m)' \/ tick'[m].state = "done" =>
           tick'[m] = tick[m],
         \A c \in clones : tick'[c.tick] = tick[c.tick],
         UNCHANGED clones
  PROVE  ServeInv'
<1>1. Handled'
  <2>. SUFFICES ASSUME NEW m \in Minute, (Running(m) \/ Undisturbed(m))', Sound(m)',
                       NEW s \in Wanted(m)'
                PROVE  \/ Recent(s, tick[m].now)'
                       \/ Running(m)' /\ s \in tick'[m].todo
                       \/ At(m, "create")' /\ s \in tick'[m].cur
    BY DEF Handled
  <2>1. tick'[m] = tick[m]
    BY DEF Undisturbed
  <2>2. \/ Recent(s, tick[m].now)
        \/ Running(m) /\ s \in tick[m].todo
        \/ At(m, "create") /\ s \in tick[m].cur
    BY <2>1 DEF ServeInv, Handled, Undisturbed, Sound, Wanted
  <2>3. Recent(s, tick[m].now) => Recent(s, tick[m].now)'
    <3>1. PICK k : k = tick[m].now
      OBVIOUS
    <3>2. k = tick'[m].now
      BY <2>1, <3>1
    <3>3. Recent(s, k) => Recent(s, k)'
      BY RecentStays
    <3>. QED
      BY <3>1, <3>2, <3>3
  <2>. QED
    BY <2>1, <2>2, <2>3 DEF At
<1>2. Narrow'
  BY DEF ServeInv, Narrow
<1>3. Dispatched'
  BY DEF ServeInv, Dispatched, At
<1>. QED
  BY <1>1, <1>2, <1>3 DEF ServeInv

\* A step of tick m is judged by what becomes of m and of the clones.
LEMMA ServeStep ==
  ASSUME SchedInv, ServeInv, [Next]_vars, NEW m \in Minute,
         \A n \in Minute \ {m} : tick'[n] = tick[n],
         ASSUME (Running(m) \/ Undisturbed(m))', Sound(m)', NEW s \in Wanted(m)'
         PROVE  \/ Recent(s, tick[m].now)'
                \/ Running(m)' /\ s \in tick'[m].todo
                \/ At(m, "create")' /\ s \in tick'[m].cur,
         Running(m)' =>
           /\ ~tick'[m].cut
           /\ tick'[m].todo \subseteq tick'[m].found
           /\ tick'[m].pc = "create" => \E s \in Source : tick'[m].cur = {s},
         Dispatched'
  PROVE  ServeInv'
<1>1. Handled'
  <2>. SUFFICES ASSUME NEW n \in Minute, (Running(n) \/ Undisturbed(n))', Sound(n)',
                       NEW s \in Wanted(n)', n # m
                PROVE  \/ Recent(s, tick[n].now)'
                       \/ Running(n)' /\ s \in tick'[n].todo
                       \/ At(n, "create")' /\ s \in tick'[n].cur
    BY DEF Handled
  <2>1. tick'[n] = tick[n]
    OBVIOUS
  <2>2. \/ Recent(s, tick[n].now)
        \/ Running(n) /\ s \in tick[n].todo
        \/ At(n, "create") /\ s \in tick[n].cur
    BY <2>1 DEF ServeInv, Handled, Undisturbed, Sound, Wanted
  <2>3. Recent(s, tick[n].now) => Recent(s, tick[n].now)'
    <3>1. PICK k : k = tick[n].now
      OBVIOUS
    <3>2. k = tick'[n].now
      BY <2>1, <3>1
    <3>3. Recent(s, k) => Recent(s, k)'
      BY RecentStays
    <3>. QED
      BY <3>1, <3>2, <3>3
  <2>. QED
    BY <2>1, <2>2, <2>3 DEF At
<1>2. Narrow'
  BY DEF ServeInv, Narrow
<1>. QED
  BY <1>1, <1>2 DEF ServeInv

\* What was handled stays handled while the tick keeps its time.
LEMMA HandledBefore ==
  ASSUME SchedInv, ServeInv, [Next]_vars, NEW m \in Minute, Running(m),
         tick'[m].found = tick[m].found, tick'[m].now = tick[m].now,
         Sound(m)', NEW s \in Wanted(m)'
  PROVE  /\ s \in Wanted(m)
         /\ \/ Recent(s, tick[m].now)'
            \/ s \in tick[m].todo
            \/ tick[m].pc = "create" /\ s \in tick[m].cur
<1>1. Sound(m) /\ s \in Wanted(m)
  BY DEF Sound, Wanted
<1>2. \/ Recent(s, tick[m].now)
      \/ s \in tick[m].todo
      \/ tick[m].pc = "create" /\ s \in tick[m].cur
  BY <1>1 DEF ServeInv, Handled, At
<1>3. Recent(s, tick[m].now) => Recent(s, tick[m].now)'
  <2>1. PICK k : k = tick[m].now
    OBVIOUS
  <2>2. Recent(s, k) => Recent(s, k)'
    BY RecentStays
  <2>. QED
    BY <2>1, <2>2
<1>. QED
  BY <1>1, <1>2, <1>3

\* A tick that begins has found what it has to look at, and has no clones.
LEMMA ServeBegin ==
  ASSUME SchedInv, ServeInv, NEW m \in Minute, BeginTick(m)
  PROVE  ServeInv'
<1>1. [Next]_vars /\ UNCHANGED clones /\ tick[m].state = "queued"
  BY DEF Next, TickStep, BeginTick
<1>2. /\ tick'[m].todo = tick'[m].found /\ tick'[m].pc = "next"
      /\ tick'[m].state = "running" /\ ~tick'[m].cut
      /\ \A n \in Minute \ {m} : tick'[n] = tick[n]
  BY DEF BeginTick, NewTick, SchedInv, Types
<1>3. \A c \in clones : c.tick \in Minute \ {m}
  BY <1>1 DEF SchedInv, Types, Clone, Born
<1>4. Dispatched'
  BY <1>1, <1>2, <1>3 DEF ServeInv, Dispatched, At
<1>. QED
  BY <1>1, <1>2, <1>4, ServeStep DEF Wanted

\* A job is passed over because it is not due, or because of a recent row.
LEMMA ServePass ==
  ASSUME SchedInv, ServeInv, NEW m \in Minute, SkipNotDue(m) \/ Guard(m)
  PROVE  ServeInv'
<1>1. [Next]_vars /\ UNCHANGED <<clones, copies>> /\ Running(m) /\ tick[m].pc = "next"
  BY DEF Next, TickStep, SkipNotDue, Guard, GuardSince, At
<1>2. tick[m] \in Tick
  BY TickKept
<1>3. PICK s \in tick[m].todo :
        \/ /\ <<s, tick[m].now>> \notin Due \/ Recent(s, tick[m].now)
           /\ Become(m, [tick[m] EXCEPT !.todo = @ \ {s}])
        \/ Become(m, [tick[m] EXCEPT !.todo = @ \ {s}, !.cur = {s}, !.pc = "create"])
  <2>1. CASE SkipNotDue(m)
    BY <2>1 DEF SkipNotDue
  <2>2. CASE Guard(m)
    <3>1. PICK s \in tick[m].todo :
            Become(m, IF Recent(s, tick[m].now)
                        THEN [tick[m] EXCEPT !.todo = @ \ {s}]
                        ELSE [tick[m] EXCEPT !.todo = @ \ {s}, !.cur = {s},
                                             !.pc = "create"])
      BY <2>2 DEF Guard, GuardSince
    <3>. QED
      BY <3>1
  <2>. QED
    BY <2>1, <2>2
<1>4. s \in Source
  BY <1>2 DEF Tick
<1>5. /\ tick'[m].state = "running" /\ tick'[m].todo = tick[m].todo \ {s}
      /\ tick'[m].found = tick[m].found /\ tick'[m].now = tick[m].now
      /\ tick'[m].cut = tick[m].cut
      /\ \A n \in Minute \ {m} : tick'[n] = tick[n]
      /\ \/ /\ <<s, tick[m].now>> \notin Due \/ Recent(s, tick[m].now)
            /\ tick'[m].pc = "next"
         \/ tick'[m].pc = "create" /\ tick'[m].cur = {s}
  <2>1. CASE /\ <<s, tick[m].now>> \notin Due \/ Recent(s, tick[m].now)
             /\ Become(m, [tick[m] EXCEPT !.todo = @ \ {s}])
    BY <1>1, <2>1, PassFields, TickKept
  <2>2. CASE Become(m, [tick[m] EXCEPT !.todo = @ \ {s}, !.cur = {s}, !.pc = "create"])
    BY <1>1, <2>2, TakeFields, TickKept
  <2>. QED
    BY <1>3, <2>1, <2>2
<1>6. Dispatched'
  <2>1. \A c \in clones : c.tick \in Minute
    BY DEF SchedInv, Types, Clone
  <2>. QED
    BY <1>1, <1>5, <2>1 DEF ServeInv, Dispatched, At
<1>7. ASSUME Sound(m)', NEW r \in Wanted(m)'
      PROVE  \/ Recent(r, tick[m].now)'
             \/ Running(m)' /\ r \in tick'[m].todo
             \/ At(m, "create")' /\ r \in tick'[m].cur
  <2>1. /\ r \in Wanted(m)
        /\ Recent(r, tick[m].now)' \/ r \in tick[m].todo
    BY <1>1, <1>5, <1>7, HandledBefore
  <2>2. Recent(s, tick[m].now) => Recent(s, tick[m].now)'
    BY <1>1, <1>5 DEF Recent
  <2>. QED
    BY <1>5, <2>1, <2>2 DEF At, Wanted
<1>8. Running(m)' =>
        /\ ~tick'[m].cut
        /\ tick'[m].todo \subseteq tick'[m].found
        /\ tick'[m].pc = "create" => \E r \in Source : tick'[m].cur = {r}
  BY <1>1, <1>4, <1>5 DEF ServeInv, Narrow
<1>. QED
  BY <1>1, <1>5, <1>6, <1>7, <1>8, ServeStep

\* The clone is as young as the tick, which is about to dispatch it.
LEMMA ServeCreate ==
  ASSUME SchedInv, ServeInv, NEW m \in Minute, CreateClone(m)
  PROVE  ServeInv'
<1>1. [Next]_vars /\ Running(m) /\ tick[m].pc = "create"
  BY DEF Next, TickStep, CreateClone, At
<1>2. PICK s \in tick[m].cur :
        clones' = clones \cup { [source |-> s, due |-> tick[m].now,
                                 born |-> tick[m].txn, tick |-> m,
                                 sent |-> FALSE] }
  BY DEF CreateClone
<1>3. /\ tick[m].cur = {s} /\ tick[m].todo \subseteq tick[m].found
      /\ ~tick[m].cut
  BY <1>1, <1>2 DEF ServeInv, Narrow
<1>4. /\ tick'[m].state = "running" /\ tick'[m].todo = tick[m].todo
      /\ tick'[m].found = tick[m].found /\ tick'[m].now = tick[m].now
      /\ tick'[m].pc = "enqueue" /\ tick'[m].cur = {s}
      /\ tick'[m].cut = tick[m].cut
      /\ \A n \in Minute \ {m} : tick'[n] = tick[n]
  BY <1>3, CreateFields, TickKept DEF CreateClone
<1>5. Recent(s, tick[m].now)'
  <2>1. tick[m].txn >= tick[m].now
    BY <1>1, MinuteNat, TickKept DEF SchedInv, Timely, Tick
  <2>2. [source |-> s, due |-> tick[m].now, born |-> tick[m].txn, tick |-> m,
         sent |-> FALSE] \in clones'
    BY <1>2
  <2>. QED
    BY <1>4, <2>1, <2>2 DEF Recent
<1>6. Dispatched'
  <2>1. \A c \in clones : c.tick \in Minute /\ c.tick = m => c.sent \/ tick[m].cut
    BY <1>1 DEF ServeInv, Dispatched, At
  <2>2. tick'[m].cut = tick[m].cut
    BY CreateFields
  <2>3. \A c \in clones : c.tick \in Minute
    BY DEF SchedInv, Types, Clone
  <2>4. \A c \in clones : c.sent \/ tick'[c.tick].cut
           \/ (At(c.tick, "enqueue") /\ c.source \in tick[c.tick].cur)'
    BY <1>4, <2>1, <2>2, <2>3 DEF ServeInv, Dispatched, At
  <2>. QED
    BY <1>2, <1>4, <2>4 DEF Dispatched, At
<1>7. ASSUME Sound(m)', NEW r \in Wanted(m)'
      PROVE  Recent(r, tick[m].now)' \/ (Running(m)' /\ r \in tick'[m].todo)
  <2>1. Recent(r, tick[m].now)' \/ r \in tick[m].todo \/ r \in tick[m].cur
    BY <1>1, <1>4, <1>7, HandledBefore
  <2>. QED
    BY <1>3, <1>4, <1>5, <2>1
<1>. QED
  BY <1>1, <1>3, <1>4, <1>6, <1>7, ServeStep

\* The clones of the tick are dispatched.
LEMMA ServeEnqueue ==
  ASSUME SchedInv, ServeInv, NEW m \in Minute, EnqueueRun(m)
  PROVE  ServeInv'
<1>1. [Next]_vars /\ Running(m) /\ tick[m].pc = "enqueue"
  BY DEF Next, TickStep, EnqueueRun, At
<1>2. clones' = { IF c.tick = m /\ c.source \in tick[m].cur
                    THEN [c EXCEPT !.sent = TRUE] ELSE c : c \in clones }
  BY DEF EnqueueRun
<1>3. tick[m].todo \subseteq tick[m].found /\ ~tick[m].cut
  BY <1>1 DEF ServeInv, Narrow
<1>4. /\ tick'[m].state = "running" /\ tick'[m].todo = tick[m].todo
      /\ tick'[m].found = tick[m].found /\ tick'[m].now = tick[m].now
      /\ tick'[m].pc = "next" /\ tick'[m].cut = tick[m].cut
      /\ \A n \in Minute \ {m} : tick'[n] = tick[n]
  BY EnqueueFields, TickKept DEF EnqueueRun
<1>5. Dispatched'
  <2>. SUFFICES ASSUME NEW d \in clones'
                PROVE  \/ d.sent \/ tick'[d.tick].cut
                       \/ (At(d.tick, "enqueue"))' /\ d.source \in tick'[d.tick].cur
    BY DEF Dispatched
  <2>1. PICK c \in clones :
          d = IF c.tick = m /\ c.source \in tick[m].cur
                THEN [c EXCEPT !.sent = TRUE] ELSE c
    BY <1>2
  <2>2. c.tick \in Minute
    BY DEF SchedInv, Types, Clone
  <2>3. CASE c.tick = m /\ c.source \in tick[m].cur
    BY <2>1, <2>3, SentFields
  <2>4. CASE ~(c.tick = m /\ c.source \in tick[m].cur)
    BY <1>1, <1>4, <2>1, <2>2, <2>4 DEF ServeInv, Dispatched, At
  <2>. QED
    BY <2>3, <2>4
<1>6. ASSUME Sound(m)', NEW r \in Wanted(m)'
      PROVE  Recent(r, tick[m].now)' \/ (Running(m)' /\ r \in tick'[m].todo)
  BY <1>1, <1>4, <1>6, HandledBefore
<1>. QED
  BY <1>1, <1>3, <1>4, <1>5, <1>6, ServeStep

\* A tick ends, having looked at everything, raising, or cut short.
LEMMA ServeEnd ==
  ASSUME SchedInv, ServeInv, NEW m \in Minute,
         EndTick(m) \/ RaiseOnBroken(m) \/ CutShort(m)
  PROVE  ServeInv'
<1>1. [Next]_vars /\ Running(m) /\ UNCHANGED clones
  BY DEF Next, TickStep, EndTick, RaiseOnBroken, CutShort, At
<1>2. PICK cut \in BOOLEAN :
        /\ Over(m, cut)
        /\ cut \/ ((EndTick(m) \/ RaiseOnBroken(m)) /\ tick[m].pc = "next")
  BY DEF EndTick, RaiseOnBroken, CutShort, At
<1>3. /\ tick'[m].state = "done" /\ tick'[m].found = tick[m].found
      /\ tick'[m].now = tick[m].now /\ tick'[m].cut = cut
      /\ \A n \in Minute \ {m} : tick'[n] = tick[n]
  BY <1>2, OverFields
<1>6. Dispatched'
  <2>. SUFFICES ASSUME NEW c \in clones
                PROVE  \/ c.sent \/ tick'[c.tick].cut
                       \/ At(c.tick, "enqueue")' /\ c.source \in tick'[c.tick].cur
    BY <1>1 DEF Dispatched
  <2>1. c.tick \in Minute
    BY DEF SchedInv, Types, Clone
  <2>2. CASE c.tick # m
    BY <1>3, <2>1, <2>2 DEF ServeInv, Dispatched, At
  <2>3. CASE c.tick = m /\ cut
    BY <1>3, <2>3
  <2>4. CASE c.tick = m /\ ~cut
    <3>1. c.sent \/ tick[m].cut
      BY <1>2, <2>4 DEF ServeInv, Dispatched, At
    <3>2. ~tick[m].cut
      BY <1>1 DEF ServeInv, Narrow
    <3>. QED
      BY <3>1, <3>2
  <2>. QED
    BY <2>2, <2>3, <2>4
<1>7. ASSUME Undisturbed(m)', Sound(m)', NEW r \in Wanted(m)'
      PROVE  Recent(r, tick[m].now)'
  <2>1. EndTick(m) \/ RaiseOnBroken(m)
    BY <1>2, <1>3, <1>7 DEF Undisturbed
  <2>2. tick[m].todo \subseteq tick[m].found
    BY <1>1 DEF ServeInv, Narrow
  <2>3. ~RaiseOnBroken(m)
    BY <1>3, <1>7, <2>2 DEF Sound, RaiseOnBroken
  <2>. QED
    BY <1>1, <1>3, <1>7, <2>1, <2>3, HandledBefore DEF EndTick, At
<1>. QED
  BY <1>1, <1>3, <1>6, <1>7, ServeStep

\* Initially no tick has begun.
LEMMA ServeInit == Init => ServeInv
<1>. SUFFICES ASSUME Init PROVE ServeInv
  OBVIOUS
<1>1. clones = {} /\ \A m \in Minute : tick[m].state \in {"queued", "none"}
  BY DEF Init, NewTick
<1>. QED
  BY <1>1 DEF ServeInv, Handled, Narrow, Dispatched, Undisturbed

\* Every step keeps ServeInv.
LEMMA ServeNext == SchedInv /\ ServeInv /\ [Next]_vars => ServeInv'
<1>. SUFFICES ASSUME SchedInv, ServeInv, [Next]_vars PROVE ServeInv'
  OBVIOUS
<1>1. \A c \in clones : c.tick \in Minute /\ tick[c.tick].state \in {"running", "done"}
  BY DEF SchedInv, Types, Clone, Born
<1>2. CASE ClockAdvances
  <2>1. /\ minute + 1 \in Minute /\ tick[minute + 1].state = "none"
        /\ tick' = [tick EXCEPT ![minute + 1].state = "queued"]
        /\ UNCHANGED clones
    BY <1>2, MinuteNat DEF ClockAdvances, SchedInv, Types, Future, Minute
  <2>2. /\ tick'[minute + 1].state = "queued"
        /\ \A m \in Minute \ {minute + 1} : tick'[m] = tick[m]
    BY <2>1 DEF SchedInv, Types, Tick
  <2>. QED
    BY <1>1, <2>1, <2>2, ServeFrame
<1>3. CASE OthersChange \/ (\E s \in Source : SourceChanges(s) \/ Copy(s)) \/ UNCHANGED vars
  <2>1. UNCHANGED <<tick, clones>>
    BY <1>3 DEF OthersChange, SourceChanges, Copy, vars
  <2>. QED
    BY <2>1, ServeFrame
<1>4. CASE \E m \in Minute : TickStep(m) \/ CutShort(m)
  BY <1>4, ServeBegin, ServePass, ServeCreate, ServeEnqueue, ServeEnd
     DEF TickStep
<1>. QED
  BY <1>2, <1>3, <1>4 DEF Next

\* A tick that ends undisturbed leaves no due job of those it has found
\* without a clone that is dispatched, is being dispatched or was cut off
\* with its own tick, unless a copy hid the job: for any schedules, slots,
\* delays and overlapping ticks (trigger_scheduled_jobs).
THEOREM SpecTickServesSoundJobs == Spec => []TickServesSoundJobs
<1>1. SchedInv /\ ServeInv => TickServesSoundJobs
  <2>. SUFFICES ASSUME SchedInv, ServeInv, NEW m \in Minute, Undisturbed(m), Sound(m),
                       NEW s \in Wanted(m)
                PROVE  \/ Served(m, s)
                       \/ \E n \in Minute : <<s, n>> \in copies /\ n >= tick[m].now
    BY DEF TickServesSoundJobs
  <2>1. Recent(s, tick[m].now)
    BY DEF ServeInv, Handled, Undisturbed, At
  <2>2. \A c \in clones : c.sent \/ Running(c.tick) \/ tick[c.tick].cut
    BY DEF ServeInv, Dispatched, At
  <2>. QED
    BY <2>1, <2>2 DEF Recent, Served
<1>2. SchedInv /\ ServeInv /\ [Next]_vars => SchedInv' /\ ServeInv'
  BY SchedStep, ServeNext
<1>. QED
  BY <1>1, <1>2, SchedInit, ServeInit, PTL DEF Spec

=============================================================================
