--------------------------- MODULE DesktopMain_proofs ---------------------------
(***************************************************************************)
(* Proofs about DesktopMain, for any sites, files, length of a batch and   *)
(* processes of the classifier: what cancelling a job still lets through,  *)
(* whose analysis a request is given, and what a job tells of its files.   *)
(***************************************************************************)
EXTENDS DesktopMain, FiniteSetTheorems, TLAPS

\* The fields that matter are there.
Shape(j) ==
  /\ {"pc", "cancelled", "status"} \subseteq DOMAIN j
  /\ j.cancelled \in BOOLEAN

\* After the one file that was on its way to PowerShell the job only looks at
\* the cancellation and ends.
CancelInv ==
  /\ Shape(job) /\ late \in Nat
  /\ late = 0 \/ (late = 1 /\ job.cancelled /\ job.pc \in {"file", "batch", "end"})
  /\ job.cancelled /\ At("end") => job.status \in {"cancelled", "failed"}

\* j goes on, and knows as well as job whether it is cancelled.
GoesOn(j) == Shape(j) /\ j.pc # "end" /\ j.cancelled = job.cancelled

LEMMA RecordFacts ==
  ASSUME Shape(job), NEW outcome
  PROVE  GoesOn(Record(job, outcome)) /\ Record(job, outcome).pc \in {"file", "batch"}
BY DEF Record, GoesOn, Shape

LEMMA DecideFacts ==
  ASSUME Shape(job), NEW l
  PROVE  GoesOn(Decide(job, l))
<1>1. CASE l = "none"
  BY <1>1, RecordFacts DEF Decide
<1>2. CASE l # "none" /\ job.config.dry
  BY <1>2, RecordFacts DEF Decide
<1>3. CASE l # "none" /\ ~job.config.dry
  <2>1. Decide(job, l) = [job EXCEPT !.labelId = l, !.pc = "apply"]
    BY <1>3 DEF Decide
  <2> QED BY <2>1 DEF GoesOn, Shape
<1> QED BY <1>1, <1>2, <1>3

LEMMA EndedFacts ==
  ASSUME Shape(job)
  PROVE  /\ Shape(Ended(job)) /\ Ended(job).pc = "end"
         /\ Ended(job).cancelled = job.cancelled
         /\ job.cancelled => Ended(job).status = "cancelled"
BY DEF Ended, Shape

\* A step of a job none of whose files was late.
LEMMA GoesOnStep ==
  ASSUME CancelInv, GoesOn(job'), late' = 0
  PROVE  CancelInv'
BY DEF CancelInv, GoesOn, Shape, At

LEMMA EndedStep ==
  ASSUME CancelInv, job' = Ended(job), UNCHANGED late
  PROVE  CancelInv'
BY EndedFacts DEF CancelInv, At

\* Where late files are behind, the job is at no other place than the heads of
\* the loops, and at these it ends.
LEMMA RunnerStep ==
  ASSUME CancelInv, Job1 \/ Classify \/ TakeResult
  PROVE  CancelInv'
<1>1. Shape(job) /\ late \in Nat
  BY DEF CancelInv
<1>2. ASSUME late = 1 PROVE job.cancelled /\ job.pc \in {"file", "batch", "end"}
  BY <1>2 DEF CancelInv
<1>3. late = 0 \/ late = 1
  BY DEF CancelInv
<1>4. CASE NextSite
  <2>1. late = 0 /\ late' = 0
    BY <1>2, <1>3, <1>4 DEF NextSite, At
  <2>2. job' = Ended(job) \/ GoesOn(job')
    BY <1>1, <1>4 DEF NextSite, GoesOn, Shape
  <2> QED BY <2>1, <2>2, EndedStep, GoesOnStep
<1>5. CASE NextBatch
  <2>1. CASE job' = Ended(job)
    BY <1>5, <2>1, EndedStep DEF NextBatch
  <2>2. CASE job' # Ended(job)
    <3>1. ~job.cancelled /\ UNCHANGED late
      BY <1>5, <2>2 DEF NextBatch
    <3>2. GoesOn(job')
      BY <1>1, <1>5, <2>2 DEF NextBatch, GoesOn, Shape
    <3> QED BY <1>2, <1>3, <3>1, <3>2, GoesOnStep
  <2> QED BY <2>1, <2>2
<1>6. CASE NextFile
  <2>1. CASE job.cancelled
    BY <1>6, <2>1, EndedStep DEF NextFile
  <2>2. CASE ~job.cancelled
    <3>1. late' = 0
      BY <1>2, <1>3, <1>6, <2>2 DEF NextFile
    <3>2. CASE job.config.policies
      <4>1. job' = [job EXCEPT !.pc = "content"]
        BY <1>6, <2>2, <3>2 DEF NextFile
      <4>2. GoesOn(job')
        BY <1>1, <4>1 DEF GoesOn, Shape
      <4> QED BY <3>1, <4>2, GoesOnStep
    <3>3. CASE ~job.config.policies
      <4>1. job' = Decide(job, Fallback)
        BY <1>6, <2>2, <3>3 DEF NextFile
      <4>2. GoesOn(job')
        BY <1>1, <4>1, DecideFacts
      <4> QED BY <3>1, <4>2, GoesOnStep
    <3> QED BY <3>2, <3>3
  <2> QED BY <2>1, <2>2
<1>7. CASE WakeAtSite \/ WakeAtBatch
  <2>1. late' = 0
    BY <1>2, <1>3, <1>7 DEF WakeAtSite, WakeAtBatch, At
  <2>2. GoesOn(job')
    BY <1>1, <1>7 DEF WakeAtSite, WakeAtBatch, GoesOn, Shape
  <2> QED BY <2>1, <2>2, GoesOnStep
<1>8. CASE SiteList
  <2>1. late' = 0
    BY <1>2, <1>3, <1>8 DEF SiteList, At
  <2>2. CASE job' = [job EXCEPT !.pc = "end", !.status = "failed"]
    BY <1>1, <2>1, <2>2 DEF CancelInv, Shape
  <2>3. CASE job' # [job EXCEPT !.pc = "end", !.status = "failed"]
    <3>1. GoesOn(job')
      BY <1>1, <1>8, <2>3 DEF SiteList, GoesOn, Shape
    <3> QED BY <2>1, <3>1, GoesOnStep
  <2> QED BY <2>2, <2>3
<1>9. CASE Children
  <2>1. late' = 0
    BY <1>2, <1>3, <1>9 DEF Children, At
  <2>2. GoesOn(job')
    BY <1>1, <1>9 DEF Children, GoesOn, Shape
  <2> QED BY <2>1, <2>2, GoesOnStep
<1>10. CASE NoContent \/ (ContentRead /\ UNCHANGED late)
  <2>1. late' = 0
    BY <1>2, <1>3, <1>10 DEF NoContent, ContentRead, At
  <2>2. job' = Decide(job, Fallback) \/ job' = [job EXCEPT !.pc = "classify"]
    BY <1>10 DEF NoContent, ContentRead
  <2>3. GoesOn([job EXCEPT !.pc = "classify"])
    BY <1>1 DEF GoesOn, Shape
  <2>4. GoesOn(job')
    BY <1>1, <2>2, <2>3, DecideFacts
  <2> QED BY <2>1, <2>4, GoesOnStep
<1>11. CASE Classified \/ Unclassified
  <2>1. late' = 0
    BY <1>2, <1>3, <1>11 DEF Classified, Unclassified, At
  <2>2. GoesOn(job')
    BY <1>1, <1>11, DecideFacts DEF Classified, Unclassified
  <2> QED BY <2>1, <2>2, GoesOnStep
<1>12. CASE Applied
  <2>1. late = 0 /\ late' = IF job.cancelled THEN 1 ELSE 0
    BY <1>2, <1>3, <1>12 DEF Applied, At
  <2>2. GoesOn(job') /\ job'.pc \in {"file", "batch"}
    BY <1>1, <1>12, RecordFacts DEF Applied
  <2> QED BY <2>1, <2>2 DEF CancelInv, GoesOn, Shape, At
<1> QED BY <1>4, <1>5, <1>6, <1>7, <1>8, <1>9, <1>10, <1>11, <1>12
        DEF Job1, Classify, TakeResult

LEMMA RequestStep ==
  ASSUME CancelInv, JobRequest
  PROVE  CancelInv'
<1>1. Shape(job) /\ late' = late
  BY DEF CancelInv, JobRequest, JobStart, JobPause, JobResume, JobCancel
<1>2. CASE JobStart
  BY <1>1, <1>2 DEF CancelInv, Shape, JobStart, At
<1>3. CASE JobPause \/ JobResume
  <2>1. job'.pc = job.pc /\ job'.cancelled = job.cancelled /\ Shape(job')
    BY <1>1, <1>3 DEF JobPause, JobResume, Shape
  <2>2. ~At("end")
    BY <1>3 DEF JobPause, JobResume, Active, At
  <2> QED BY <1>1, <2>1, <2>2 DEF CancelInv, At
<1>4. CASE JobCancel
  <2>1. job'.pc = job.pc /\ job'.cancelled = TRUE /\ Shape(job')
    BY <1>1, <1>4 DEF JobCancel, Shape
  <2>2. ~At("end")
    BY <1>4 DEF JobCancel, Active, At
  <2> QED BY <1>1, <2>1, <2>2 DEF CancelInv, At
<1> QED BY <1>2, <1>3, <1>4 DEF JobRequest

\* Once cancellation is requested at most one more file is labelled, and the
\* job does not end as completed: for any sites, files and length of a batch,
\* through pauses, failures and whatever becomes of the classifier.
THEOREM DesktopCancelHolds == Spec => []CancelHolds
<1>1. Init => CancelInv
  BY DEF Init, JobInit, CancelInv, Shape, At
<1>2. CancelInv /\ [Next]_vars => CancelInv'
  <2> SUFFICES ASSUME CancelInv, [Next]_vars PROVE CancelInv'
    OBVIOUS
  <2>1. CASE JobSteps
    BY <2>1, RunnerStep DEF JobSteps
  <2>2. CASE JobRequest
    BY <2>2, RequestStep
  <2>3. ASSUME UNCHANGED jvars PROVE CancelInv'
    BY <2>3 DEF CancelInv, Shape, At, jvars
  <2> QED BY <2>1, <2>2, <2>3
          DEF Next, vars, UiInvoke, WindowAllClosed, Activate, Bridge, Process
<1>3. CancelInv => CancelHolds
  BY DEF CancelInv, CancelHolds
<1> QED BY <1>1, <1>2, <1>3, PTL DEF Spec

-----------------------------------------------------------------------------
(* Answers of the classifier.                                              *)

\* A request has been told nothing, that it failed, or its own analysis.
Own(a) ==
  /\ DOMAIN a = Id
  /\ \A i \in Id : /\ {"pc", "result"} \subseteq DOMAIN a[i]
                   /\ a[i].result \in {"none", "error", "rejected", i}

OwnInv == Own(ask)

\* s is the state of the bridge in the midst of a task.
Fits(s) == {"cb", "cps", "ask"} \subseteq DOMAIN s /\ Own(s.ask)

LEMMA CSettleFits ==
  ASSUME NEW s, Fits(s), NEW ids, NEW result,
         result \in {"error", "rejected"} \/ ids = {result}
  PROVE  Fits(CSettle(s, ids, result))
<1> DEFINE a == [i \in Id |->
                   IF i \in ids THEN [pc |-> "done", result |-> result] ELSE s.ask[i]]
<1>1. Own(a)
  BY DEF Own, Fits
<1>2. CSettle(s, ids, result) = [s EXCEPT !.ask = a]
  BY DEF CSettle
<1> HIDE DEF a
<1> QED BY <1>1, <1>2 DEF Fits

LEMMA CProcessQueueFits ==
  ASSUME NEW s, Fits(s)
  PROVE  Fits(CProcessQueue(s))
<1> DEFINE t == CSettle(s, Members(s.cb.queue), "error")
<1>1. Fits(t)
  BY CSettleFits
<1> HIDE DEF t
<1>2. Fits([t EXCEPT !.cb.queue = <<>>])
  BY <1>1 DEF Fits
<1>3. Fits([s EXCEPT !.cb.queue = Tail(@), !.cb.cur = Head(s.cb.queue),
                     !.cps[s.cb.proc].todo = Append(@, Head(s.cb.queue))])
  BY DEF Fits
<1> QED BY <1>2, <1>3 DEF CProcessQueue, t

LEMMA DoneFits ==
  ASSUME NEW s, Fits(s)
  PROVE  Fits(Done(s))
<1>1. Fits([s EXCEPT !.cb.cur = NoId])
  BY DEF Fits
<1> QED BY <1>1, CProcessQueueFits DEF Done

LEMMA GoneFits ==
  ASSUME NEW s, Fits(s)
  PROVE  Fits(Gone(s))
<1> DEFINE t == CSettle(CSettle(s, Pending, "rejected"), Members(cb.waiting), "error")
<1>1. Fits(t)
  BY CSettleFits
<1> HIDE DEF t
<1>2. Fits([t EXCEPT !.cb.proc = NoProc, !.cb.init = FALSE,
                     !.cb.startup = FALSE, !.cb.waiting = <<>>])
  BY <1>1 DEF Fits
<1> QED BY <1>2, DoneFits DEF Gone, t

LEMMA CBecomeOwn ==
  ASSUME NEW s, Fits(s), CBecome(s)
  PROVE  OwnInv'
BY DEF Fits, CBecome, OwnInv

LEMMA CNowFits == OwnInv => Fits(CNow)
BY DEF OwnInv, Fits, CNow

LEMMA CInvokeOwn ==
  ASSUME OwnInv, NEW i, CInvoke(i)
  PROVE  OwnInv'
<1> DEFINE s == [CNow EXCEPT !.ask[i].pc = "sent"]
           p == CHOOSE q \in Unstarted : \A o \in Unstarted : q <= o
           queued == [s EXCEPT !.cb.queue = Append(@, i)]
           waits == [s EXCEPT !.cb.waiting = Append(@, i)]
           starts == [s EXCEPT !.cb.proc = p, !.cb.startup = TRUE,
                               !.cb.waiting = <<i>>, !.cps[p].state = "booting"]
           fails == [CSettle(s, {i}, "error") EXCEPT !.cb.proc = NoProc]
<1>1. \/ CBecome(CProcessQueue(queued)) \/ CBecome(waits)
      \/ CBecome(starts) \/ CBecome(fails)
  BY DEF CInvoke
<1>2. Fits(s)
  <2> DEFINE a == [ask EXCEPT ![i].pc = "sent"]
  <2>1. Own(a)
    BY DEF OwnInv, Own
  <2>2. s = [CNow EXCEPT !.ask = a]
    BY DEF CNow
  <2> HIDE DEF a, s
  <2> QED BY <2>1, <2>2, CNowFits DEF Fits
<1> HIDE DEF s, p
<1>3. Fits(queued) /\ Fits(waits) /\ Fits(starts)
  BY <1>2 DEF Fits
<1>4. Fits(CSettle(s, {i}, "error"))
  BY <1>2, CSettleFits
<1>5. Fits(fails)
  BY <1>4 DEF Fits
<1> HIDE DEF queued, waits, starts, fails
<1> QED BY <1>1, <1>3, <1>5, CProcessQueueFits, CBecomeOwn

LEMMA OnLineOwn ==
  ASSUME OwnInv, NEW p \in CProc, OnLine(p)
  PROVE  OwnInv'
<1> DEFINE line == Head(cps[p].out)
           s == [CNow EXCEPT !.cps[p].out = Tail(@)]
           ready == [s EXCEPT !.cb.startup = FALSE, !.cb.init = TRUE,
                       !.cb.queue = @ \o cb.waiting, !.cb.waiting = <<>>]
<1>1. \/ CBecome(CProcessQueue(ready))
      \/ CBecome(Done(CSettle(s, {line}, line))) \/ CBecome(s)
  BY DEF OnLine
<1>2. Fits(s)
  BY CNowFits DEF Fits
<1> HIDE DEF s, line
<1>3. Fits(ready) /\ Fits(CSettle(s, {line}, line))
  <2>1. Fits(ready)
    BY <1>2 DEF Fits
  <2>2. Fits(CSettle(s, {line}, line))
    BY <1>2, CSettleFits
  <2> QED BY <2>1, <2>2
<1> HIDE DEF ready
<1> QED BY <1>1, <1>2, <1>3, CProcessQueueFits, DoneFits, CBecomeOwn

LEMMA TimersOwn ==
  ASSUME OwnInv, CTimeOut \/ StartupTimeOut
  PROVE  OwnInv'
<1>1. CASE CTimeOut
  <2>1. Fits(Done(CSettle(CNow, {cb.cur}, "error")))
    BY CNowFits, CSettleFits, DoneFits
  <2> QED BY <1>1, <2>1, CBecomeOwn DEF CTimeOut
<1>2. CASE StartupTimeOut
  <2> DEFINE t == CSettle(CNow, Members(cb.waiting), "error")
             u == [t EXCEPT !.cb.startup = FALSE, !.cb.waiting = <<>>]
  <2>1. Fits(t)
    BY CNowFits, CSettleFits
  <2>2. CBecome(u)
    BY <1>2 DEF StartupTimeOut
  <2> HIDE DEF t
  <2>3. Fits(u)
    BY <2>1 DEF Fits
  <2> HIDE DEF u
  <2> QED BY <2>2, <2>3, CBecomeOwn
<1> QED BY <1>1, <1>2

LEMMA GoneOwn ==
  ASSUME OwnInv, CDispose \/ \E p \in CProc : COnClose(p)
  PROVE  OwnInv'
<1>1. CASE CDispose
  <2> DEFINE s == [CNow EXCEPT !.cps[cb.proc].doomed = TRUE]
  <2>1. Fits(s)
    BY CNowFits DEF Fits
  <2>2. CBecome(Gone(s)) \/ UNCHANGED cvars
    BY <1>1 DEF CDispose
  <2> HIDE DEF s
  <2>3. CASE UNCHANGED cvars
    BY <2>3 DEF cvars, OwnInv
  <2> QED BY <2>1, <2>2, <2>3, GoneFits, CBecomeOwn
<1>2. ASSUME NEW p \in CProc, COnClose(p) PROVE OwnInv'
  <2> DEFINE s == [CNow EXCEPT !.cps[p].state = "closed"]
  <2>1. Fits(s)
    BY CNowFits DEF Fits
  <2>2. CBecome(Gone(s))
    BY <1>2 DEF COnClose
  <2> HIDE DEF s
  <2> QED BY <2>1, <2>2, GoneFits, CBecomeOwn
<1> QED BY <1>1, <1>2

\* An analysis is given to the request whose text was analysed, for any
\* requests, processes and crashes, however late an answer comes.
THEOREM DesktopOwnAnalysis == Spec => []OwnAnalysis
<1>1. Init => OwnInv
  BY DEF Init, ClassifierInit, OwnInv, Own
<1>2. OwnInv /\ [Next]_vars => OwnInv'
  <2> SUFFICES ASSUME OwnInv, [Next]_vars PROVE OwnInv'
    OBVIOUS
  <2>1. ASSUME UNCHANGED ask PROVE OwnInv'
    BY <2>1 DEF OwnInv
  <2>2. CASE JobSteps
    <3>1. CASE Classify
      BY <3>1, CInvokeOwn DEF Classify
    <3>2. CASE Job1 \/ TakeResult
      BY <2>1, <3>2 DEF Job1, TakeResult, cvars
    <3> QED BY <2>2, <3>1, <3>2 DEF JobSteps
  <2>3. CASE JobRequest \/ Activate \/ UNCHANGED vars
    BY <2>1, <2>3 DEF JobRequest, Activate, vars, cvars
  <2>4. ASSUME NEW u \in Ui, UiInvoke(u) PROVE OwnInv'
    BY <2>4, CInvokeOwn DEF UiInvoke, Ui
  <2>5. CASE WindowAllClosed
    BY <2>5, GoneOwn DEF WindowAllClosed
  <2>6. CASE Bridge
    BY <2>6, TimersOwn, OnLineOwn, GoneOwn DEF Bridge, CHandlers
  <2>7. CASE Process
    BY <2>1, <2>7 DEF Process, Classifier, Boot, Work, CCrash, CKill
  <2> QED BY <2>2, <2>3, <2>4, <2>5, <2>6, <2>7 DEF Next
<1>3. OwnInv => OwnAnalysis
  BY IdsAreUnique DEF OwnInv, Own, OwnAnalysis
<1> QED BY <1>1, <1>2, <1>3, PTL DEF Spec

-----------------------------------------------------------------------------
(* What a job tells of its files.                                          *)

\* Walking the sites finds a file once, and in one of them.
FilesInOnePlace ==
  \A k, l \in DOMAIN Site :
    \A m \in DOMAIN FilesOf[Site[k]], n \in DOMAIN FilesOf[Site[l]] :
      FilesOf[Site[k]][m] = FilesOf[Site[l]][n] => k = l /\ m = n

With(j, o) == { k \in DOMAIN j.results : j.results[k].outcome = o }

\* The results tell of the files before the one in hand, in their order.
Told(j) ==
  /\ j.i = Len(j.results) /\ j.processed = j.i /\ j.i <= Len(j.files)
  /\ j.total = Len(j.files)
  /\ \A k \in 1 .. Len(j.results) : j.results[k].file = j.files[k]

Counted(j) == \A o \in Outcomes : j.count[o] = Cardinality(With(j, o))

Enumerates(j) == j.pc \in {"site", "siteSleep", "children"}

\* Where the job stands says whether there is a file in hand, and a site.
Stands(j) ==
  /\ j.pc \in {"file", "content", "classify", "apply", "batchSleep"} =>
       j.i < Len(j.files)
  /\ j.pc \in {"idle", "sites"} => j.files = <<>>
  /\ j.pc \in {"idle", "sites"} \/ Enumerates(j) => j.i = 0
  /\ j.pc \in {"siteSleep", "children"} => j.todo # {}
  /\ j.status = "completed" => j.pc = "end" /\ j.i = Len(j.files)

\* No file is listed twice, and none of a site that is ahead.
ListedOnce(j) ==
  /\ \A m, n \in 1 .. Len(j.files) : j.files[m] = j.files[n] => m = n
  /\ Enumerates(j) =>
       \A k \in j.todo : \A m \in 1 .. Len(j.files) :
         \A n \in DOMAIN FilesOf[Site[k]] : j.files[m] # FilesOf[Site[k]][n]

Sound(j) == j \in Job /\ Told(j) /\ Counted(j) /\ Stands(j) /\ ListedOnce(j)

\* A step that moves the job about but tells and lists nothing.
LEMMA MovedSound ==
  ASSUME NEW j, Sound(j), NEW k \in Job,
         k.results = j.results, k.count = j.count, k.i = j.i,
         k.processed = j.processed, k.files = j.files, k.total = j.total,
         k.todo = j.todo \/ ~Enumerates(k),
         Enumerates(k) => Enumerates(j), Stands(k)
  PROVE  Sound(k)
<1>1. Told(k)
  BY DEF Sound, Told
<1>2. Counted(k)
  BY DEF Sound, Counted, With
<1>3. ListedOnce(k)
  BY DEF Sound, ListedOnce
<1> QED BY <1>1, <1>2, <1>3 DEF Sound

LEMMA RecordSound ==
  ASSUME NEW j, Sound(j), j.i < Len(j.files), j.status # "completed",
         NEW outcome \in Outcomes
  PROVE  Sound(Record(j, outcome))
<1> DEFINE r == Record(j, outcome)
           told == [file |-> j.files[j.i + 1], outcome |-> outcome]
<1>1. /\ j \in Job /\ j.results \in Seq([file : File, outcome : Outcomes])
      /\ j.files \in Seq(File) /\ j.i \in Nat /\ j.count \in [Outcomes -> Nat]
      /\ j.processed \in Nat /\ j.total \in Nat
  BY DEF Sound, Job
<1>2. told \in [file : File, outcome : Outcomes]
  <2>1. j.files[j.i + 1] \in File
    BY <1>1
  <2> QED BY <2>1
<1>3. /\ r.results = Append(j.results, told)
      /\ r.count = [j.count EXCEPT ![outcome] = @ + 1]
      /\ r.processed = j.processed + 1 /\ r.i = j.i + 1
      /\ r.pc \in {"batch", "file"} /\ r.files = j.files /\ r.todo = j.todo
      /\ r.total = j.total /\ r.status = j.status
      /\ r.pc = "file" => j.i + 1 # Len(j.files)
  BY <1>1 DEF Record, Job
<1>4. r \in Job
  <2>1. r.results \in Seq([file : File, outcome : Outcomes])
    BY <1>1, <1>2, <1>3
  <2>2. r.count \in [Outcomes -> Nat]
    BY <1>1, <1>3
  <2> DEFINE f == r.results
             c == r.count
             p == r.pc
             k == [j EXCEPT !.results = f, !.count = c, !.processed = @ + 1,
                            !.i = @ + 1, !.labelId = "none", !.pc = p]
  <2>3. r = k
    BY DEF Record
  <2> HIDE DEF f, c, p, r
  <2>4. p \in Inner /\ f \in Seq([file : File, outcome : Outcomes])
        /\ c \in [Outcomes -> Nat]
    BY <1>3, <2>1, <2>2 DEF Inner, f, c, p
  <2>5. k \in Job
    <3> DEFINE n == j.processed + 1
               m == j.i + 1
    <3>1. n \in Nat /\ m \in Nat
      BY <1>1
    <3> HIDE DEF n, m
    <3>2. [j EXCEPT !.results = f, !.count = c, !.processed = n] \in Job
      BY <1>1, <2>4, <3>1 DEF Job
    <3>3. k = [[j EXCEPT !.results = f, !.count = c, !.processed = n]
                 EXCEPT !.i = m, !.labelId = "none", !.pc = p]
      BY <1>1 DEF Job, n, m
    <3> QED BY <2>4, <3>1, <3>2, <3>3 DEF Job
  <2> QED BY <2>3, <2>5
<1> HIDE DEF r
<1>5. Len(r.results) = Len(j.results) + 1
  BY <1>1, <1>2, <1>3
<1>6. Told(r)
  <2>1. j.i = Len(j.results) /\ j.processed = j.i /\ j.total = Len(j.files)
    BY DEF Sound, Told
  <2>2. \A k \in 1 .. Len(r.results) : r.results[k].file = r.files[k]
    <3> SUFFICES ASSUME NEW k \in 1 .. Len(r.results)
                 PROVE  r.results[k].file = r.files[k]
      OBVIOUS
    <3>1. CASE k = Len(j.results) + 1
      BY <1>1, <1>2, <1>3, <2>1, <3>1
    <3>2. CASE k \in 1 .. Len(j.results)
      <4>1. r.results[k] = j.results[k]
        BY <1>1, <1>2, <1>3, <3>2
      <4> QED BY <1>3, <3>2, <4>1 DEF Sound, Told
    <3> QED BY <1>1, <1>5, <3>1, <3>2
  <2> QED BY <1>1, <1>3, <1>5, <2>1, <2>2 DEF Told
<1>7. Counted(r)
  <2> SUFFICES ASSUME NEW o \in Outcomes PROVE r.count[o] = Cardinality(With(r, o))
    BY DEF Counted
  <2>1. DOMAIN j.results = 1 .. Len(j.results)
    BY <1>1
  <2>2. DOMAIN r.results = 1 .. Len(j.results) + 1
    BY <1>1, <1>2, <1>3
  <2>3. \A k \in 1 .. Len(j.results) : r.results[k] = j.results[k]
    BY <1>1, <1>2, <1>3
  <2>4. r.results[Len(j.results) + 1] = told
    BY <1>1, <1>2, <1>3
  <2>5. Len(j.results) \in Nat
    BY <1>1
  <2>6. IsFiniteSet(With(j, o))
    <3>1. IsFiniteSet(1 .. Len(j.results))
      BY <2>5, FS_Interval
    <3> QED BY <2>1, <3>1, FS_Subset DEF With
  <2>7. j.count[o] = Cardinality(With(j, o))
    BY DEF Sound, Counted
  <2>8. CASE o = outcome
    <3>1. With(r, o) = With(j, o) \cup {Len(j.results) + 1}
      BY <2>1, <2>2, <2>3, <2>4, <2>5, <2>8 DEF With
    <3>2. Len(j.results) + 1 \notin With(j, o)
      BY <2>1, <2>5 DEF With
    <3>3. Cardinality(With(r, o)) = Cardinality(With(j, o)) + 1
      BY <2>6, <3>1, <3>2, FS_AddElement
    <3> QED BY <1>1, <1>3, <2>7, <2>8, <3>3
  <2>9. CASE o # outcome
    <3>1. With(r, o) = With(j, o)
      BY <2>1, <2>2, <2>3, <2>4, <2>5, <2>9 DEF With
    <3> QED BY <1>1, <1>3, <2>7, <2>9, <3>1
  <2> QED BY <2>8, <2>9
<1>8. Stands(r) /\ ListedOnce(r)
  <2>1. Len(j.files) \in Nat
    BY <1>1
  <2>2. Stands(r)
    BY <1>1, <1>3, <2>1 DEF Stands, Enumerates
  <2>3. ListedOnce(r)
    BY <1>3 DEF Sound, ListedOnce, Enumerates
  <2> QED BY <2>2, <2>3
<1> QED BY <1>4, <1>6, <1>7, <1>8 DEF Sound, r

\* j may end: it is cancelled, or has told of every file.
LEMMA EndedSound ==
  ASSUME NEW j, Sound(j), j.cancelled \/ j.i = Len(j.files)
  PROVE  Sound(Ended(j))
<1> DEFINE e == Ended(j)
<1>1. /\ e \in Job /\ e.pc = "end"
      /\ e.status = IF j.cancelled THEN "cancelled" ELSE "completed"
      /\ e.results = j.results /\ e.count = j.count /\ e.i = j.i
      /\ e.processed = j.processed /\ e.files = j.files /\ e.total = j.total
      /\ e.todo = j.todo
  BY DEF Ended, Sound, Job
<1> HIDE DEF e
<1>2. Stands(e)
  BY <1>1 DEF Stands, Enumerates
<1> QED BY <1>1, <1>2, MovedSound DEF Enumerates, e

LEMMA DecideSound ==
  ASSUME NEW j, Sound(j), NEW l \in {"none", "target", "policy"},
         j.pc \in {"file", "content", "classify"}
  PROVE  Sound(Decide(j, l))
<1>1. j.i < Len(j.files) /\ j.status # "completed"
  BY DEF Sound, Stands
<1>2. CASE l = "none" \/ j.config.dry
  BY <1>1, <1>2, RecordSound DEF Decide, Outcomes
<1>3. CASE l # "none" /\ ~j.config.dry
  <2> DEFINE e == Decide(j, l)
  <2>1. e = [j EXCEPT !.labelId = l, !.pc = "apply"]
    BY <1>3 DEF Decide
  <2>2. /\ e \in Job /\ e.pc = "apply" /\ e.status = j.status
        /\ e.results = j.results /\ e.count = j.count /\ e.i = j.i
        /\ e.processed = j.processed /\ e.files = j.files /\ e.total = j.total
        /\ e.todo = j.todo
    BY <2>1 DEF Sound, Job, Awaits
  <2> HIDE DEF e
  <2>3. Stands(e)
    BY <1>1, <2>2 DEF Stands, Enumerates
  <2> QED BY <2>2, <2>3, MovedSound DEF Enumerates, e
<1> QED BY <1>2, <1>3

\* k is j moved to another place, with another status, pause or cancellation.
LEMMA MoveSound ==
  ASSUME NEW j, Sound(j),
         NEW p \in {"end"} \cup Awaits \cup Inner,
         NEW st \in {"enumerating", "running", "paused", "failed"},
         p \in {"site", "siteSleep", "children"} => Enumerates(j),
         p \in {"siteSleep", "children"} => j.todo # {},
         p = "sites" => j.files = <<>> /\ j.i = 0,
         p \in {"file", "content", "classify", "apply", "batchSleep"} =>
           j.i < Len(j.files)
  PROVE  Sound([j EXCEPT !.pc = p, !.status = st])
<1> DEFINE k == [j EXCEPT !.pc = p, !.status = st]
<1>1. /\ k \in Job /\ k.pc = p /\ k.status = st
      /\ k.results = j.results /\ k.count = j.count /\ k.i = j.i
      /\ k.processed = j.processed /\ k.files = j.files /\ k.total = j.total
      /\ k.todo = j.todo
  BY DEF Sound, Job
<1> HIDE DEF k
<1>2. Enumerates(k) => Enumerates(j)
  BY <1>1 DEF Enumerates
<1>3. Stands(k)
  BY <1>1 DEF Sound, Stands, Enumerates, Awaits, Inner
<1> QED BY <1>1, <1>2, <1>3, MovedSound DEF k

\* A place of which no other place depends.
LEMMA PlaceSound ==
  ASSUME NEW j, Sound(j), NEW p \in {"content", "classify"}, j.status # "completed",
         j.i < Len(j.files)
  PROVE  Sound([j EXCEPT !.pc = p])
<1> DEFINE k == [j EXCEPT !.pc = p]
<1>1. /\ k \in Job /\ k.pc = p /\ k.status = j.status
      /\ k.results = j.results /\ k.count = j.count /\ k.i = j.i
      /\ k.processed = j.processed /\ k.files = j.files /\ k.total = j.total
      /\ k.todo = j.todo
  BY DEF Sound, Job, Awaits
<1> HIDE DEF k
<1>2. Stands(k) /\ ~Enumerates(k)
  BY <1>1 DEF Stands, Enumerates
<1> QED BY <1>1, <1>2, MovedSound DEF k

\* The flags are not looked at by what a job tells.
LEMMA FlagsSound ==
  ASSUME Sound(job), JobPause \/ JobResume \/ JobCancel
  PROVE  Sound(job')
<1>1. /\ job' \in Job /\ job'.pc = job.pc /\ job'.status = job.status
      /\ job'.results = job.results /\ job'.count = job.count /\ job'.i = job.i
      /\ job'.processed = job.processed /\ job'.files = job.files
      /\ job'.total = job.total /\ job'.todo = job.todo
  BY DEF Sound, Job, JobPause, JobResume, JobCancel
<1>2. Stands(job') /\ (Enumerates(job') => Enumerates(job))
  BY <1>1 DEF Sound, Stands, Enumerates
<1> QED BY <1>1, <1>2, MovedSound

LEMMA SiteListSound ==
  ASSUME Sound(job), SiteList
  PROVE  Sound(job')
<1>1. job.pc = "sites" /\ job.files = <<>> /\ job.i = 0 /\ job \in Job
  BY DEF SiteList, At, Sound, Stands
<1>2. CASE job' = [job EXCEPT !.pc = "end", !.status = "failed"]
  BY <1>2, MoveSound
<1>3. CASE job' # [job EXCEPT !.pc = "end", !.status = "failed"]
  <2>1. PICK t : /\ t \subseteq DOMAIN Site
                 /\ job' = [job EXCEPT !.pc = "site", !.todo = t]
    <3> DEFINE t == { k \in DOMAIN Site : \/ job.config.sites = {}
                                          \/ Site[k] \in job.config.sites }
    <3>1. t \subseteq DOMAIN Site
      OBVIOUS
    <3>2. job' = [job EXCEPT !.pc = "site", !.todo = t]
      BY <1>3 DEF SiteList
    <3> HIDE DEF t
    <3> QED BY <3>1, <3>2
  <2>2. /\ job' \in Job /\ job'.pc = "site" /\ job'.status = job.status
        /\ job'.results = job.results /\ job'.count = job.count /\ job'.i = 0
        /\ job'.processed = job.processed /\ job'.files = <<>>
        /\ job'.total = job.total
    BY <1>1, <2>1 DEF Job, Inner
  <2>3. Told(job') /\ Counted(job')
    BY <1>1, <2>2 DEF Sound, Told, Counted, With
  <2>4. Stands(job') /\ ListedOnce(job')
    BY <1>1, <2>2 DEF Sound, Stands, Enumerates, ListedOnce
  <2> QED BY <2>2, <2>3, <2>4 DEF Sound
<1> QED BY <1>2, <1>3

LEMMA SiteInHandAhead ==
  ASSUME job.todo \subseteq Nat, job.todo # {}
  PROVE  SiteInHand \in job.todo
<1>1. PICK k \in job.todo : \A l \in job.todo : <<l, k>> \notin OpToRel(<, Nat)
  BY NatLessThanWellFounded, WFMin DEF OpToRel
<1>2. \A l \in job.todo : k <= l
  <2> SUFFICES ASSUME NEW l \in job.todo PROVE k <= l
    OBVIOUS
  <2>1. l \in Nat /\ k \in Nat
    OBVIOUS
  <2>2. ~(l < k)
    BY <1>1, <2>1 DEF OpToRel
  <2> QED BY <2>1, <2>2
<1> QED BY <1>2 DEF SiteInHand

LEMMA ChildrenSound ==
  ASSUME FilesInOnePlace, Sound(job), Children
  PROVE  Sound(job')
<1> DEFINE k == SiteInHand
           found == FilesOf[Site[k]]
<1>1. /\ job \in Job /\ job.pc = "children" /\ job.todo # {} /\ job.i = 0
      /\ job.todo \subseteq DOMAIN Site /\ job.files \in Seq(File)
      /\ job.status # "completed" /\ job.total = Len(job.files)
  BY DEF Children, At, Sound, Stands, Enumerates, Told, Job
<1>2. DOMAIN Site \subseteq Nat /\ \A m \in DOMAIN Site : Site[m] \in Sites
  <2>1. DOMAIN Site = 1 .. Len(Site) /\ Len(Site) \in Nat
    BY JobAssumption
  <2> QED BY <2>1, JobAssumption
<1>3. k \in job.todo /\ k \in DOMAIN Site
  BY <1>1, <1>2, SiteInHandAhead
<1>4. found \in Seq(File)
  BY <1>2, <1>3, JobAssumption
<1>5. \/ job' = [job EXCEPT !.pc = "site", !.todo = @ \ {k}, !.files = @ \o found,
                            !.total = Len(job.files) + Len(found)]
      \/ job' = [job EXCEPT !.pc = "site", !.todo = @ \ {k},
                            !.total = Len(job.files)]
  BY DEF Children
<1> HIDE DEF k, found
<1>6. /\ job'.results = job.results /\ job'.count = job.count /\ job'.i = 0
      /\ job'.processed = job.processed /\ job'.pc = "site"
      /\ job'.todo = job.todo \ {k} /\ job'.status = job.status
      /\ \/ /\ job'.files = job.files \o found
            /\ job'.total = Len(job.files) + Len(found)
         \/ job'.files = job.files /\ job'.total = Len(job.files)
  BY <1>1, <1>5 DEF Job
<1>7. job' \in Job
  <2>1. job.files \o found \in Seq(File) /\ Len(job.files) + Len(found) \in Nat
        /\ Len(job.files) \in Nat
    BY <1>1, <1>4
  <2>2. job.todo \ {k} \subseteq DOMAIN Site
    BY <1>1
  <2> DEFINE fs == job.files \o found
             n == Len(job.files) + Len(found)
             o == Len(job.files)
             t == job.todo \ {k}
  <2> HIDE DEF fs, n, o, t
  <2>3. fs \in Seq(File) /\ n \in Nat /\ o \in Nat /\ t \in SUBSET DOMAIN Site
    BY <2>1, <2>2 DEF fs, n, o, t
  <2>4. \/ job' = [job EXCEPT !.pc = "site", !.todo = t, !.files = fs, !.total = n]
        \/ job' = [job EXCEPT !.pc = "site", !.todo = t, !.total = o]
    BY <1>5 DEF fs, n, o, t
  <2> QED BY <1>1, <2>3, <2>4 DEF Job, Inner
<1>8. job'.total = Len(job'.files)
  <2>1. Len(job.files \o found) = Len(job.files) + Len(found)
    BY <1>1, <1>4
  <2> QED BY <1>6, <2>1
<1>9. Told(job') /\ Counted(job')
  <2>1. job'.files \in Seq(File)
    BY <1>7 DEF Job
  <2>2. Len(job.results) = 0 /\ job.processed = 0
    BY <1>1 DEF Sound, Told
  <2>3. Len(job'.files) \in Nat
    BY <2>1
  <2>4. \A m \in 1 .. Len(job'.results) : FALSE
    BY <1>6, <2>2
  <2>5. Told(job')
    BY <1>6, <1>8, <2>2, <2>3, <2>4 DEF Told
  <2> QED BY <1>6, <2>5 DEF Sound, Counted, With
<1>10. Stands(job')
  BY <1>1, <1>6 DEF Stands, Enumerates
<1>11. ListedOnce(job')
  <2>1. /\ \A m, n \in 1 .. Len(job.files) : job.files[m] = job.files[n] => m = n
        /\ \A l \in job.todo : \A m \in 1 .. Len(job.files) :
             \A n \in DOMAIN FilesOf[Site[l]] : job.files[m] # FilesOf[Site[l]][n]
    BY <1>1 DEF Sound, ListedOnce, Enumerates
  <2>2. CASE job'.files = job.files
    <3>1. \A l \in job'.todo : l \in job.todo
      BY <1>6
    <3>2. \A m, n \in 1 .. Len(job'.files) : job'.files[m] = job'.files[n] => m = n
      BY <2>1, <2>2
    <3>3. \A l \in job'.todo : \A m \in 1 .. Len(job'.files) :
            \A n \in DOMAIN FilesOf[Site[l]] : job'.files[m] # FilesOf[Site[l]][n]
      BY <2>1, <2>2, <3>1
    <3> QED BY <3>2, <3>3 DEF ListedOnce
  <2>3. CASE job'.files = job.files \o found
    <3> DEFINE a == job.files
               b == job'.files
    <3>1. /\ Len(a) \in Nat /\ Len(found) \in Nat /\ Len(b) = Len(a) + Len(found)
          /\ DOMAIN found = 1 .. Len(found)
          /\ \A m \in 1 .. Len(b) :
               b[m] = IF m <= Len(a) THEN a[m] ELSE found[m - Len(a)]
      BY <1>1, <1>4, <2>3
    <3>2. \A m, n \in 1 .. Len(a) : a[m] = a[n] => m = n
      BY <2>1
    <3>3. \A m \in 1 .. Len(a) : \A n \in 1 .. Len(found) : a[m] # found[n]
      BY <1>3, <2>1, <3>1 DEF found
    <3>4. \A m, n \in 1 .. Len(found) : found[m] = found[n] => m = n
      BY <1>3, <3>1 DEF FilesInOnePlace, found
    <3>5. \A l \in job.todo \ {k} : \A n \in DOMAIN FilesOf[Site[l]] :
            \A m \in 1 .. Len(found) : found[m] # FilesOf[Site[l]][n]
      <4>1. \A l \in job.todo \ {k} : l \in DOMAIN Site /\ l # k
        BY <1>1
      <4> QED BY <1>3, <3>1, <4>1 DEF FilesInOnePlace, found
    <3> HIDE DEF a, b
    <3>6. \A m \in 1 .. Len(b) : \/ m \in 1 .. Len(a) /\ b[m] = a[m]
                                 \/ /\ m - Len(a) \in 1 .. Len(found)
                                    /\ b[m] = found[m - Len(a)]
      <4> SUFFICES ASSUME NEW m \in 1 .. Len(b)
                   PROVE  \/ m \in 1 .. Len(a) /\ b[m] = a[m]
                          \/ /\ m - Len(a) \in 1 .. Len(found)
                             /\ b[m] = found[m - Len(a)]
        OBVIOUS
      <4>1. CASE m <= Len(a)
        BY <3>1, <4>1
      <4>2. CASE ~(m <= Len(a))
        BY <3>1, <4>2
      <4> QED BY <4>1, <4>2
    <3>7. \A m, n \in 1 .. Len(b) : b[m] = b[n] => m = n
      <4> SUFFICES ASSUME NEW m \in 1 .. Len(b), NEW n \in 1 .. Len(b), b[m] = b[n]
                   PROVE  m = n
        OBVIOUS
      <4>1. CASE m \in 1 .. Len(a) /\ b[m] = a[m]
        BY <3>2, <3>3, <3>6, <4>1
      <4>2. CASE m - Len(a) \in 1 .. Len(found) /\ b[m] = found[m - Len(a)]
        <5>1. n - Len(a) \in 1 .. Len(found) /\ b[n] = found[n - Len(a)]
          BY <3>3, <3>6, <4>2
        <5>2. m - Len(a) = n - Len(a)
          BY <3>4, <4>2, <5>1
        <5> QED BY <3>1, <5>2
      <4> QED BY <3>6, <4>1, <4>2
    <3>8. \A l \in job.todo \ {k} : \A m \in 1 .. Len(b) :
            \A n \in DOMAIN FilesOf[Site[l]] : b[m] # FilesOf[Site[l]][n]
      <4>1. \A l \in job.todo : \A m \in 1 .. Len(a) :
              \A n \in DOMAIN FilesOf[Site[l]] : a[m] # FilesOf[Site[l]][n]
        BY <2>1 DEF a
      <4>2. SUFFICES ASSUME NEW l \in job.todo \ {k}, NEW m \in 1 .. Len(b),
                            NEW n \in DOMAIN FilesOf[Site[l]]
                     PROVE  b[m] # FilesOf[Site[l]][n]
        OBVIOUS
      <4>3. CASE m \in 1 .. Len(a) /\ b[m] = a[m]
        BY <4>1, <4>3
      <4>4. CASE m - Len(a) \in 1 .. Len(found) /\ b[m] = found[m - Len(a)]
        BY <3>5, <4>4
      <4> QED BY <3>6, <4>3, <4>4
    <3> QED BY <1>6, <3>7, <3>8 DEF ListedOnce, b
  <2> QED BY <1>6, <2>2, <2>3
<1> QED BY <1>7, <1>9, <1>10, <1>11 DEF Sound

LEMMA LoopHeadsSound ==
  ASSUME Sound(job), NextSite \/ NextBatch \/ NextFile \/ WakeAtSite \/ WakeAtBatch
  PROVE  Sound(job')
<1>1. /\ job \in Job /\ job.total = Len(job.files) /\ job.i <= Len(job.files)
      /\ job.i \in Nat /\ Len(job.files) \in Nat
  BY DEF Sound, Told, Job
<1>2. CASE NextSite
  <2>1. job.pc = "site" /\ job.i = 0
    BY <1>2 DEF NextSite, At, Sound, Stands, Enumerates
  <2>2. CASE job.todo # {} /\ ~job.cancelled
    <3>1. \/ job' = [job EXCEPT !.pc = "siteSleep", !.status = "paused"]
          \/ job' = [job EXCEPT !.pc = "children", !.status = "enumerating"]
      BY <1>2, <2>2 DEF NextSite
    <3>2. Enumerates(job)
      BY <2>1 DEF Enumerates
    <3>3. Sound([job EXCEPT !.pc = "siteSleep", !.status = "paused"])
      BY <2>2, <3>2, MoveSound DEF Awaits
    <3>4. Sound([job EXCEPT !.pc = "children", !.status = "enumerating"])
      BY <2>2, <3>2, MoveSound DEF Awaits
    <3> QED BY <3>1, <3>3, <3>4
  <2>3. CASE ~(job.todo # {} /\ ~job.cancelled) /\ (job.cancelled \/ job.files = <<>>)
    <3>1. job' = Ended(job)
      BY <1>2, <2>3 DEF NextSite
    <3>2. job.cancelled \/ job.i = Len(job.files)
      BY <2>1, <2>3
    <3> QED BY <3>1, <3>2, EndedSound
  <2>4. CASE ~(job.todo # {} /\ ~job.cancelled) /\ ~(job.cancelled \/ job.files = <<>>)
    <3>1. job' = [job EXCEPT !.pc = "batch", !.status = "running",
                             !.total = Len(job.files)]
      BY <1>2, <2>4 DEF NextSite
    <3>2. job' = [job EXCEPT !.pc = "batch", !.status = "running"]
      BY <1>1, <3>1 DEF Job
    <3> QED BY <3>2, MoveSound DEF Inner
  <2> QED BY <2>2, <2>3, <2>4
<1>3. CASE NextBatch
  <2>1. CASE job.i = Len(job.files) \/ job.cancelled
    BY <1>3, <2>1, EndedSound DEF NextBatch
  <2>2. CASE ~(job.i = Len(job.files) \/ job.cancelled)
    <3>1. \/ job' = [job EXCEPT !.pc = "batchSleep", !.status = "paused"]
          \/ job' = [job EXCEPT !.pc = "file", !.status = "running"]
      BY <1>3, <2>2 DEF NextBatch
    <3>2. job.i < Len(job.files)
      BY <1>1, <2>2
    <3>3. Sound([job EXCEPT !.pc = "batchSleep", !.status = "paused"])
      BY <3>2, MoveSound DEF Awaits
    <3>4. Sound([job EXCEPT !.pc = "file", !.status = "running"])
      BY <3>2, MoveSound DEF Inner
    <3> QED BY <3>1, <3>3, <3>4
  <2> QED BY <2>1, <2>2
<1>4. CASE NextFile
  <2>1. job.pc = "file" /\ job.i < Len(job.files) /\ job.status # "completed"
    BY <1>4 DEF NextFile, At, Sound, Stands
  <2>2. CASE job.cancelled
    BY <1>4, <2>2, EndedSound DEF NextFile
  <2>3. CASE ~job.cancelled /\ job.config.policies
    <3>1. job' = [job EXCEPT !.pc = "content"]
      BY <1>4, <2>3 DEF NextFile
    <3> QED BY <2>1, <3>1, PlaceSound
  <2>4. CASE ~job.cancelled /\ ~job.config.policies
    <3>1. job' = Decide(job, Fallback)
      BY <1>4, <2>4 DEF NextFile
    <3> QED BY <2>1, <3>1, DecideSound DEF Fallback
  <2> QED BY <2>2, <2>3, <2>4
<1>5. CASE WakeAtSite
  <2>1. job.pc = "siteSleep" /\ job.todo # {}
    BY <1>5 DEF WakeAtSite, At, Sound, Stands
  <2>2. job' = [job EXCEPT !.pc = "children", !.status = "enumerating"]
    BY <1>5 DEF WakeAtSite
  <2> QED BY <2>1, <2>2, MoveSound DEF Awaits, Enumerates
<1>6. CASE WakeAtBatch
  <2>1. job.i < Len(job.files)
    BY <1>6 DEF WakeAtBatch, At, Sound, Stands
  <2>2. job' = [job EXCEPT !.pc = "file", !.status = "running"]
    BY <1>6 DEF WakeAtBatch
  <2> QED BY <2>1, <2>2, MoveSound DEF Inner
<1> QED BY <1>2, <1>3, <1>4, <1>5, <1>6

LEMMA AnswersSound ==
  ASSUME Sound(job),
         NoContent \/ ContentRead \/ Classified \/ Unclassified \/ Applied
  PROVE  Sound(job')
<1>1. Fallback \in {"none", "target", "policy"}
  BY DEF Fallback
<1>2. job.i < Len(job.files) /\ job.status # "completed"
  BY DEF NoContent, ContentRead, Classified, Unclassified, Applied, At, Sound, Stands
<1>3. CASE NoContent \/ Unclassified
  BY <1>1, <1>3, DecideSound DEF NoContent, Unclassified, At
<1>4. CASE ContentRead
  BY <1>2, <1>4, PlaceSound DEF ContentRead
<1>5. CASE Classified
  <2>1. PICK l \in {"policy", "none"} : job' = Decide(job, l)
    BY <1>5 DEF Classified
  <2>2. job.pc = "classify"
    BY <1>5 DEF Classified, At
  <2> QED BY <2>1, <2>2, DecideSound
<1>6. CASE Applied
  <2>1. PICK outcome \in {"labelled", "failed"} : job' = Record(job, outcome)
    BY <1>6 DEF Applied
  <2> QED BY <1>2, <2>1, RecordSound DEF Outcomes
<1> QED BY <1>3, <1>4, <1>5, <1>6

\* If walking the sites finds a file once, the progress a job reports and the
\* results it keeps tell the same, no file is told of twice, and a job that
\* says it is completed has told of each file it listed: through skips,
\* failures, dry runs, pauses, cancellation and whatever becomes of the
\* classifier.
THEOREM DesktopCountersMatchResults ==
  ASSUME FilesInOnePlace
  PROVE  Spec => []CountersMatchResults
<1>1. Init => Sound(job)
  <2> SUFFICES ASSUME Init PROVE Sound(job)
    OBVIOUS
  <2>1. PICK c \in Configs :
          job = [pc |-> "idle", config |-> c, cancelled |-> FALSE, paused |-> FALSE,
                 status |-> "none", todo |-> {}, files |-> <<>>, i |-> 0,
                 labelId |-> "none", results |-> <<>>,
                 count |-> [o \in Outcomes |-> 0], processed |-> 0, total |-> 0]
    BY DEF Init, JobInit
  <2>2. job \in Job
    BY <2>1, JobAssumption DEF Job
  <2>3. Counted(job)
    <3>1. \A o \in Outcomes : With(job, o) = {}
      BY <2>1 DEF With
    <3> QED BY <2>1, <3>1, FS_EmptySet DEF Counted
  <2>4. Told(job) /\ Stands(job) /\ ListedOnce(job)
    BY <2>1 DEF Told, Stands, ListedOnce, Enumerates
  <2> QED BY <2>2, <2>3, <2>4 DEF Sound
<1>2. Sound(job) /\ [Next]_vars => Sound(job)'
  <2> SUFFICES ASSUME Sound(job), [Next]_vars PROVE Sound(job')
    OBVIOUS
  <2>1. CASE Job1
    BY <2>1, LoopHeadsSound, SiteListSound, ChildrenSound, AnswersSound DEF Job1
  <2>2. CASE Classify \/ TakeResult
    BY <2>2, AnswersSound DEF Classify, TakeResult
  <2>3. CASE JobRequest
    <3>1. CASE JobStart
      <4>1. job' = [job EXCEPT !.pc = "sites", !.status = "enumerating"]
            /\ job.files = <<>> /\ job.i = 0
        BY <3>1 DEF JobStart, At, Sound, Stands
      <4> QED BY <4>1, MoveSound DEF Awaits
    <3> QED BY <2>3, <3>1, FlagsSound DEF JobRequest
  <2>4. ASSUME UNCHANGED job PROVE Sound(job')
    BY <2>4
  <2> QED BY <2>1, <2>2, <2>3, <2>4
          DEF Next, JobSteps, vars, jvars, UiInvoke, WindowAllClosed, Activate,
              Bridge, Process
<1>3. Sound(job) => CountersMatchResults
  <2> SUFFICES ASSUME Sound(job) PROVE CountersMatchResults
    OBVIOUS
  <2>1. DOMAIN job.results = 1 .. Len(job.results) /\ Len(job.results) \in Nat
        /\ Len(job.files) \in Nat
    BY DEF Sound, Job
  <2>2. /\ job.processed = Len(job.results) /\ job.processed <= job.total
        /\ \A k \in 1 .. Len(job.results) :
             k \in 1 .. Len(job.files) /\ job.results[k].file = job.files[k]
        /\ job.status = "completed" => Len(job.results) = Len(job.files)
    BY <2>1 DEF Sound, Told, Stands
  <2>3. \A k, l \in DOMAIN job.results :
          job.results[k].file = job.results[l].file => k = l
    BY <2>1, <2>2 DEF Sound, ListedOnce
  <2>4. \A o \in Outcomes :
          job.count[o] =
            Cardinality({ k \in DOMAIN job.results : job.results[k].outcome = o })
    BY DEF Sound, Counted, With
  <2> QED BY <2>2, <2>3, <2>4 DEF CountersMatchResults
<1> QED BY <1>1, <1>2, <1>3, PTL DEF Spec
=============================================================================
