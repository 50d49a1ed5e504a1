------------------------- MODULE JobAdmission_proofs --------------------------
(***************************************************************************)
(* Proofs about JobAdmission, for every number of requests and jobs and    *)
(* every limit.                                                            *)
(***************************************************************************)
EXTENDS JobAdmission, FiniteSetTheorems, TLAPS

\* A start that has counted holds the lock of its job, so that what it has
\* read of the job is what the row still says.
SeesTheRow ==
  \A r \in Counted :
    /\ req[r].job \in 1 .. rows
    /\ lock[req[r].job] = r
    /\ status[req[r].job] = req[r].seen

\* A lock is held by a start of that job.
LocksOwned ==
  \A j \in Job : lock[j] # Nobody => lock[j] \in Counted /\ req[lock[j]].job = j

\* A job that was started never becomes pending again.
NoWayBack ==
  \A j \in Job : starts[j] <= 1 /\ (starts[j] = 1 => status[j] # "pending")

\* A counted start is as good as admitted: together they overshoot by the
\* requests but one.
Budget ==
  Cardinality(begun) + Cardinality(Counted) <= Limit + Cardinality(Request) - 1

AdmissionInv ==
  /\ TypeOK
  /\ SeesTheRow
  /\ LocksOwned
  /\ NoWayBack
  /\ Budget

USE DEF Job

\* The sets that are counted are finite, and how their sizes compare.
LEMMA Finite ==
  ASSUME TypeOK
  PROVE  /\ IsFiniteSet(begun) /\ Cardinality(begun) \in Nat
         /\ IsFiniteSet(Active) /\ Cardinality(Active) \in Nat
         /\ Cardinality(begun) <= Cardinality(Active)
         /\ IsFiniteSet(Counted) /\ Cardinality(Counted) \in Nat
         /\ IsFiniteSet(Request) /\ Cardinality(Request) \in Nat
         /\ Cardinality(Counted) <= Cardinality(Request)
<1>1. IsFiniteSet(1 .. rows)
  BY FS_Interval DEF TypeOK
<1>2. IsFiniteSet(Active)
  BY <1>1, FS_Subset DEF Active
<1>3. IsFiniteSet(begun) /\ Cardinality(begun) <= Cardinality(Active)
  BY <1>2, FS_Subset DEF TypeOK
<1>4. IsFiniteSet(Request)
  BY AdmissionAssumption
<1>5. IsFiniteSet(Counted) /\ Cardinality(Counted) <= Cardinality(Request)
  BY <1>4, FS_Subset DEF Counted
<1>. QED
  BY <1>2, <1>3, <1>4, <1>5, FS_CardinalityType

\* Fewer jobs begun, nobody counted in addition: the budget is kept.
LEMMA BudgetKept ==
  ASSUME TypeOK, Budget, TypeOK',
         begun' \subseteq begun, Counted' \subseteq Counted
  PROVE  Budget'
<1>1. Cardinality(begun') <= Cardinality(begun) /\ Cardinality(begun') \in Nat
  BY Finite, FS_Subset, FS_CardinalityType
<1>2. Cardinality(Counted') <= Cardinality(Counted) /\ Cardinality(Counted') \in Nat
  BY Finite, FS_Subset, FS_CardinalityType
<1>. QED
  BY <1>1, <1>2, Finite, AdmissionAssumption DEF Budget

\* Initially nobody has counted, and nothing has begun.
THEOREM AdmissionInit == Init => AdmissionInv
<1>. SUFFICES ASSUME Init PROVE AdmissionInv
  OBVIOUS
<1>1. Counted = {} /\ begun = {}
  BY DEF Init, Counted, Idle
<1>2. TypeOK
  BY <1>1, AdmissionAssumption DEF Init, TypeOK, Idle, Statuses
<1>3. SeesTheRow /\ LocksOwned /\ NoWayBack
  BY <1>1 DEF Init, SeesTheRow, LocksOwned, NoWayBack
<1>4. Budget
  BY <1>1, <1>2, Finite, FS_EmptySet, AdmissionAssumption DEF Budget
<1>. QED
  BY <1>2, <1>3, <1>4 DEF AdmissionInv

\* A new row, by Create or Copy: whatever is said of the jobs there are
\* stays as it was.
LEMMA StepNewRow ==
  ASSUME AdmissionInv, Create \/ \E j \in Job : Copy(j)
  PROVE  AdmissionInv'
<1>1. /\ rows < MaxRows /\ rows' = rows + 1
      /\ config' \in [Job -> 0 .. MaxEdits]
      /\ UNCHANGED <<status, lock, req, starts, begun, edits>>
  BY DEF Create, Copy, AdmissionInv, TypeOK
<1>2. rows \in Nat /\ Active \subseteq Active' /\ Counted' = Counted
  BY <1>1 DEF AdmissionInv, TypeOK, Active, Counted
<1>3. TypeOK'
  BY <1>1, <1>2, AdmissionAssumption DEF AdmissionInv, TypeOK
<1>4. SeesTheRow' /\ LocksOwned' /\ NoWayBack'
  BY <1>1, <1>2 DEF AdmissionInv, SeesTheRow, LocksOwned, NoWayBack
<1>5. Budget'
  BY <1>1, <1>2, <1>3, BudgetKept DEF AdmissionInv
<1>. QED
  BY <1>3, <1>4, <1>5 DEF AdmissionInv

\* A start counts: it takes the lock, and the limit leaves room for it.
LEMMA StepCount ==
  ASSUME AdmissionInv, NEW r \in Request, NEW j \in Job, Count(r, j)
  PROVE  AdmissionInv'
<1>1. /\ req[r] = Idle /\ j \in 1 .. rows /\ lock[j] = Nobody
      /\ Cardinality(Active) < Limit
      /\ lock' = [lock EXCEPT ![j] = r]
      /\ req' = [req EXCEPT ![r] =
                   [pc |-> "counted", job |-> j, seen |-> status[j]]]
      /\ UNCHANGED <<rows, status, config, starts, begun, edits>>
  BY DEF Count, CountBelow, Unlocked, Serve
<1>2. r \notin Counted /\ r # Nobody /\ Counted' = Counted \cup {r}
  BY <1>1, AdmissionAssumption DEF Counted, Idle, AdmissionInv, TypeOK
<1>3. SeesTheRow'
  <2>1. ASSUME NEW q \in Counted, q # r
        PROVE  req'[q] = req[q] /\ req[q].job # j /\ q \in Request
    <3>1. q \in Request /\ lock[req[q].job] = q
      BY DEF AdmissionInv, SeesTheRow, Counted
    <3>2. lock[j] = Nobody /\ Nobody \notin Request
      BY <1>1, AdmissionAssumption
    <3>3. req'[q] = req[q]
      BY <1>1, <2>1, <3>1 DEF AdmissionInv, TypeOK
    <3>. QED
      BY <3>1, <3>2, <3>3
  <2>2. req'[r].job = j /\ req'[r].seen = status[j] /\ lock'[j] = r
    BY <1>1 DEF AdmissionInv, TypeOK
  <2>3. \A i \in Job : i # j => lock'[i] = lock[i]
    BY <1>1 DEF AdmissionInv, TypeOK
  <2>4. 1 .. rows \subseteq Job
    BY AdmissionAssumption DEF AdmissionInv, TypeOK
  <2>. QED
    BY <1>1, <1>2, <2>1, <2>2, <2>3, <2>4 DEF AdmissionInv, SeesTheRow
<1>4. LocksOwned'
  BY <1>1, <1>2 DEF AdmissionInv, TypeOK, LocksOwned
<1>5. NoWayBack'
  BY <1>1 DEF AdmissionInv, NoWayBack
<1>6. TypeOK'
  <2>1. req' \in [Request -> [pc : {"idle", "counted", "read"}, job : 0 .. rows,
                              seen : Statuses]]
    BY <1>1 DEF AdmissionInv, TypeOK
  <2>2. \A q \in Request : q \in Counted' <=> \E i \in Job : lock'[i] = q
    BY <1>1, <1>2, <1>3, <1>4, AdmissionAssumption
    DEF AdmissionInv, TypeOK, SeesTheRow, LocksOwned
  <2>. QED
    BY <1>1, <2>1, <2>2 DEF AdmissionInv, TypeOK, Active
<1>7. Budget'
  <2>1. Cardinality(begun) <= Limit - 1
    BY <1>1, Finite, AdmissionAssumption DEF AdmissionInv
  <2>2. Cardinality(Counted') <= Cardinality(Request) /\ Cardinality(Counted') \in Nat
    BY Finite, FS_Subset, FS_CardinalityType DEF Counted, AdmissionInv
  <2>3. Cardinality(begun') = Cardinality(begun)
    BY <1>1
  <2>. QED
    BY <2>1, <2>2, <2>3, Finite, AdmissionAssumption DEF Budget, AdmissionInv
<1>. QED
  BY <1>3, <1>4, <1>5, <1>6, <1>7 DEF AdmissionInv

\* A counted start is admitted, or refused: one counted less, at most one
\* begun more.
LEMMA StepAdmit ==
  ASSUME AdmissionInv, NEW r \in Request, Admit(r)
  PROVE  AdmissionInv'
<1>. DEFINE j == req[r].job
<1>1. /\ r \in Counted /\ j \in 1 .. rows /\ j \in Job /\ lock[j] = r
      /\ status[j] = req[r].seen
  <2>1. r \in Counted
    BY DEF Admit, AdmitIf, Counted
  <2>. QED
    BY <2>1, AdmissionAssumption DEF AdmissionInv, SeesTheRow, TypeOK
<1>2. /\ lock' = [lock EXCEPT ![j] = Nobody]
      /\ req' = [req EXCEPT ![r] = Idle]
      /\ UNCHANGED <<rows, config, edits>>
      /\ \/ /\ status[j] = "pending"
            /\ status' = [status EXCEPT ![j] = "enumerating"]
            /\ starts' = [starts EXCEPT ![j] = @ + 1]
            /\ begun' = begun \cup {j}
         \/ UNCHANGED <<status, starts, begun>>
  BY <1>1 DEF Admit, AdmitIf, Fit, TransitionFrom
<1>3. Counted' = Counted \ {r}
  BY <1>2 DEF Counted, Idle, AdmissionInv, TypeOK
<1>4. \A q \in Counted \ {r} : req[q].job # j
  BY <1>1 DEF AdmissionInv, SeesTheRow
<1>5. SeesTheRow'
  <2>1. \A q \in Counted' : q \in Counted /\ req'[q] = req[q]
    BY <1>2, <1>3 DEF Counted, AdmissionInv, TypeOK
  <2>2. \A i \in Job : i # j => lock'[i] = lock[i] /\ status'[i] = status[i]
    BY <1>2 DEF AdmissionInv, TypeOK
  <2>3. 1 .. rows \subseteq Job
    BY AdmissionAssumption DEF AdmissionInv, TypeOK
  <2>. QED
    BY <1>2, <1>3, <1>4, <2>1, <2>2, <2>3 DEF AdmissionInv, SeesTheRow
<1>6. LocksOwned'
  BY <1>1, <1>2, <1>3 DEF AdmissionInv, TypeOK, LocksOwned
<1>7. NoWayBack'
  <2>1. CASE UNCHANGED <<status, starts>>
    BY <2>1 DEF AdmissionInv, NoWayBack
  <2>2. CASE /\ status[j] = "pending"
             /\ status' = [status EXCEPT ![j] = "enumerating"]
             /\ starts' = [starts EXCEPT ![j] = @ + 1]
    <3>1. starts[j] = 0 /\ starts'[j] = 1 /\ status'[j] = "enumerating"
      BY <1>1, <2>2 DEF AdmissionInv, TypeOK, NoWayBack
    <3>2. \A i \in Job : i # j => starts'[i] = starts[i] /\ status'[i] = status[i]
      BY <2>2 DEF AdmissionInv, TypeOK
    <3>. QED
      BY <3>1, <3>2 DEF AdmissionInv, NoWayBack
  <2>. QED
    BY <1>2, <2>1, <2>2
<1>8. TypeOK'
  <2>1. req' \in [Request -> [pc : {"idle", "counted", "read"}, job : 0 .. rows,
                              seen : Statuses]]
    <3>1. Idle \in [pc : {"idle", "counted", "read"}, job : 0 .. rows,
                    seen : Statuses]
      BY AdmissionAssumption DEF AdmissionInv, TypeOK, Idle, Statuses
    <3>2. rows' = rows
      BY <1>2
    <3>. QED
      BY <1>2, <3>1, <3>2 DEF AdmissionInv, TypeOK
  <2>2. \A q \in Request : q \in Counted' <=> \E i \in Job : lock'[i] = q
    BY <1>1, <1>2, <1>3, <1>5, <1>6, AdmissionAssumption
    DEF AdmissionInv, TypeOK, SeesTheRow, LocksOwned
  <2>3. begun' \subseteq Active'
    <3>1. CASE UNCHANGED <<status, begun>>
      BY <1>2, <3>1 DEF AdmissionInv, TypeOK, Active
    <3>2. CASE /\ status' = [status EXCEPT ![j] = "enumerating"]
               /\ begun' = begun \cup {j}
      <4>1. status'[j] = "enumerating" /\ \A i \in Job : i # j => status'[i] = status[i]
        BY <1>1, <3>2 DEF AdmissionInv, TypeOK
      <4>2. rows' = rows /\ 1 .. rows \subseteq Job
        BY <1>2, AdmissionAssumption DEF AdmissionInv, TypeOK
      <4>3. begun \subseteq Active
        BY DEF AdmissionInv, TypeOK
      <4>. QED
        BY <1>1, <3>2, <4>1, <4>2, <4>3 DEF Active, ActiveStatuses
    <3>. QED
      BY <1>2, <3>1, <3>2
  <2>4. status' \in [Job -> Statuses] /\ starts' \in [Job -> Nat]
    <3>1. "enumerating" \in Statuses
      BY DEF Statuses
    <3>2. status \in [Job -> Statuses] /\ starts \in [Job -> Nat]
      BY DEF AdmissionInv, TypeOK
    <3>3. starts[j] + 1 \in Nat
      BY <1>1, <3>2
    <3>. QED
      BY <1>2, <3>1, <3>2, <3>3
  <2>. QED
    BY <1>2, <2>1, <2>2, <2>3, <2>4 DEF AdmissionInv, TypeOK
<1>9. Budget'
  <2>1. Cardinality(Counted') = Cardinality(Counted) - 1
    BY <1>1, <1>3, Finite, FS_RemoveElement DEF AdmissionInv
  <2>2. begun' = begun \/ begun' = begun \cup {j}
    BY <1>2
  <2>3. /\ Cardinality(begun') <= Cardinality(begun) + 1
        /\ Cardinality(begun') \in Nat
    <3>1. CASE begun' = begun
      BY <3>1, Finite DEF AdmissionInv
    <3>2. CASE begun' = begun \cup {j}
      <4>1. IsFiniteSet(begun) /\ Cardinality(begun) \in Nat
        BY Finite DEF AdmissionInv
      <4>2. Cardinality(begun \cup {j}) =
              IF j \in begun THEN Cardinality(begun) ELSE Cardinality(begun) + 1
        BY <4>1, FS_AddElement
      <4>. QED
        BY <3>2, <4>1, <4>2
    <3>. QED
      BY <2>2, <3>1, <3>2
  <2>. QED
    BY <2>1, <2>3, Finite, AdmissionAssumption
    DEF AdmissionInv, Budget
<1>. QED
  BY <1>5, <1>6, <1>7, <1>8, <1>9 DEF AdmissionInv

\* A move to a status other than pending of a job that is not locked.
LEMMA StepMove ==
  ASSUME AdmissionInv, NEW j \in Job, NEW from \in SUBSET Statuses,
         NEW to \in Statuses \ {"pending"}, Move(j, from, to)
  PROVE  AdmissionInv'
<1>1. /\ j \in 1 .. rows /\ lock[j] = Nobody
      /\ status' = [status EXCEPT ![j] = to]
      /\ begun' = IF to \in ActiveStatuses /\ status[j] \in ActiveStatuses
                    THEN begun ELSE begun \ {j}
      /\ UNCHANGED <<rows, config, lock, req, starts, edits>>
  BY DEF Move, Unlocked
<1>2. Counted' = Counted /\ begun' \subseteq begun
  BY <1>1 DEF Counted
<1>3. TypeOK'
  <2>1. begun' \subseteq Active'
    BY <1>1 DEF AdmissionInv, TypeOK, Active
  <2>. QED
    BY <1>1, <1>2, <2>1 DEF AdmissionInv, TypeOK
<1>4. \A r \in Counted : req[r].job # j
  BY <1>1, AdmissionAssumption DEF AdmissionInv, SeesTheRow, Counted
<1>5. SeesTheRow'
  BY <1>1, <1>2, <1>4 DEF AdmissionInv, TypeOK, SeesTheRow
<1>6. LocksOwned' /\ NoWayBack'
  BY <1>1, <1>2 DEF AdmissionInv, TypeOK, LocksOwned, NoWayBack
<1>7. Budget'
  BY <1>2, <1>3, BudgetKept DEF AdmissionInv
<1>. QED
  BY <1>3, <1>5, <1>6, <1>7 DEF AdmissionInv

\* An update reads or writes.
LEMMA StepUpdate ==
  ASSUME AdmissionInv, NEW r \in Request,
         WriteUpdate(r) \/ \E j \in Job : ReadForUpdate(r, j)
  PROVE  AdmissionInv'
<1>1. /\ r \notin Counted
      /\ req' \in [Request -> [pc : {"idle", "counted", "read"},
                               job : 0 .. rows, seen : Statuses]]
      /\ req'[r].pc # "counted"
      /\ \A q \in Request \ {r} : req'[q] = req[q]
  BY DEF WriteUpdate, ReadForUpdate, Serve, Counted, Idle, AdmissionInv, TypeOK,
         Statuses
<1>2. /\ UNCHANGED <<rows, status, lock, starts, begun>>
      /\ config' \in [Job -> 0 .. MaxEdits] /\ edits' \in 0 .. MaxEdits
  <2>1. CASE WriteUpdate(r)
    <3>1. /\ edits + 1 \in 0 .. MaxEdits
          /\ edits' = edits + 1
          /\ config' = [config EXCEPT ![req[r].job] = edits + 1]
          /\ UNCHANGED <<rows, status, lock, starts, begun>>
      BY <2>1, AdmissionAssumption DEF WriteUpdate, AdmissionInv, TypeOK
    <3>2. config \in [Job -> 0 .. MaxEdits]
      BY DEF AdmissionInv, TypeOK
    <3>. QED
      BY <3>1, <3>2
  <2>2. CASE \E j \in Job : ReadForUpdate(r, j)
    BY <2>2 DEF ReadForUpdate, AdmissionInv, TypeOK
  <2>. QED
    BY <2>1, <2>2
<1>3. Counted' = Counted
  BY <1>1 DEF Counted
<1>4. TypeOK'
  BY <1>1, <1>2, <1>3 DEF AdmissionInv, TypeOK, Active
<1>5. \A q \in Counted : req'[q] = req[q]
  BY <1>1 DEF Counted
<1>6. SeesTheRow' /\ LocksOwned' /\ NoWayBack'
  BY <1>2, <1>3, <1>5, AdmissionAssumption
  DEF AdmissionInv, SeesTheRow, LocksOwned, NoWayBack
<1>7. Budget'
  BY <1>2, <1>3, <1>4, BudgetKept DEF AdmissionInv
<1>. QED
  BY <1>4, <1>6, <1>7 DEF AdmissionInv

\* Every step keeps AdmissionInv, by the lemma of its action.
THEOREM AdmissionStep == AdmissionInv /\ [Next]_vars => AdmissionInv'
<1>. SUFFICES ASSUME AdmissionInv, [Next]_vars PROVE AdmissionInv'
  OBVIOUS
<1>1. CASE Create \/ \E j \in Job : Copy(j)
  BY <1>1, StepNewRow
<1>2. ASSUME NEW j \in Job, NEW r \in Request, Count(r, j) PROVE AdmissionInv'
  BY <1>2, StepCount
<1>3. ASSUME NEW r \in Request, Admit(r) PROVE AdmissionInv'
  BY <1>3, StepAdmit
<1>4. ASSUME NEW j \in Job,
             \/ Pause(j) \/ Resume(j) \/ Cancel(j) \/ Rollback(j)
             \/ WorkerMoves(j)
      PROVE  AdmissionInv'
  <2>1. \E from \in SUBSET Statuses, to \in Statuses \ {"pending"} :
          Move(j, from, to)
    BY <1>4 DEF Pause, Resume, Cancel, Rollback, WorkerMoves, Statuses,
                TransitionFrom, ActiveStatuses
  <2>. QED
    BY <2>1, StepMove
<1>5. ASSUME NEW r \in Request,
             WriteUpdate(r) \/ \E j \in Job : ReadForUpdate(r, j)
      PROVE  AdmissionInv'
  BY <1>5, StepUpdate
<1>6. CASE UNCHANGED vars
  <2>1. Counted' = Counted /\ Active' = Active
    BY <1>6 DEF vars, Counted, Active
  <2>. QED
    BY <1>6, <2>1 DEF vars, AdmissionInv, TypeOK, SeesTheRow, LocksOwned,
                      NoWayBack, Budget
<1>. QED
  BY <1>1, <1>2, <1>3, <1>4, <1>5, <1>6 DEF Next, JobNext

\* What the row lock guarantees, in every run (job_action).
THEOREM SpecAdmission == Spec => []AdmissionInv
  BY AdmissionInit, AdmissionStep, PTL DEF Spec

\* The types of JobAdmission, in every run.
THEOREM SpecTypeOK == Spec => []TypeOK
<1>1. AdmissionInv => TypeOK
  BY DEF AdmissionInv
<1>. QED
  BY <1>1, SpecAdmission, PTL

\* No race of requests starts a job twice: the row lock makes what a start
\* has read of its job still true when it commits (job_action).
THEOREM SpecStartedAtMostOnce == Spec => []StartedAtMostOnce
<1>1. AdmissionInv => StartedAtMostOnce
  BY DEF AdmissionInv, NoWayBack, StartedAtMostOnce
<1>. QED
  BY <1>1, SpecAdmission, PTL

\* The limit is exceeded by at most the requests that race (job_action).
THEOREM SpecOvershootBounded == Spec => []OvershootBounded
<1>1. AdmissionInv => OvershootBounded
  BY Finite, AdmissionAssumption DEF AdmissionInv, Budget, OvershootBounded
<1>. QED
  BY <1>1, SpecAdmission, PTL
=============================================================================
