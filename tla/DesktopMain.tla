----------------------------- MODULE DesktopMain -------------------------------
(***************************************************************************)
(* The main process of the desktop application, main.ts: the handlers of   *)
(* the renderer's requests and the life of the windows, over the job       *)
(* runner and the classifier bridge that it owns.                          *)
(*                                                                         *)
(* All of it is one thread: a handler waits until the job runner has come  *)
(* to its next await.                                                      *)
(***************************************************************************)
EXTENDS LocalJobRunner, ClassifierBridge

\* The runner asks with the file it classifies; the id itself is random.  The
\* other ids are those of the renderer's own requests.
ASSUME FilesAreIds == File \subseteq Id

Ui == Id \ File

VARIABLE
  window     \* "open", "closed", and "again": macOS keeps the application

vars == <<jvars, cvars, window>>

TypeOK ==
  /\ JobTypeOK
  /\ ClassifierTypeOK
  /\ window \in {"open", "closed", "again"}

Init == JobInit /\ ClassifierInit /\ window = "open"

\* The microtask that hands a settled request back to the job runs before any
\* other handler.
HandBack == At("classify") /\ ask[Current].pc = "done"
ThreadFree == ~Running /\ ~HandBack

-----------------------------------------------------------------------------
(* The job.                                                                *)

Job1 ==
  /\ \/ NextSite \/ NextBatch \/ NextFile
     \/ WakeAtSite \/ WakeAtBatch
     \/ SiteList \/ Children \/ NoContent \/ Applied
  /\ UNCHANGED <<cvars, window>>

Classify ==
  /\ ContentRead
  /\ CInvoke(Current)
  /\ UNCHANGED <<late, window>>

\* An unsuccessful analysis is as good as none.
TakeResult ==
  /\ HandBack
  /\ IF ask[Current].result = Current THEN Classified ELSE Unclassified
  /\ UNCHANGED <<cvars, window>>

JobSteps == Job1 \/ Classify \/ TakeResult

-----------------------------------------------------------------------------
(* The renderer, while there is a window.                                  *)

JobRequest ==
  /\ ThreadFree /\ window # "closed"
  /\ JobStart \/ JobPause \/ JobResume \/ JobCancel
  /\ UNCHANGED <<cvars, window>>

\* classifier:invoke, refused unless the bridge is there and the action allowed.
\* A second window has a bridge of its own, of which the job does not know.
UiInvoke(u) ==
  /\ ThreadFree /\ window = "open"
  /\ CInvoke(u)
  /\ UNCHANGED <<jvars, window>>

WindowAllClosed ==
  /\ ThreadFree /\ window = "open"
  /\ window' = "closed"
  /\ CDispose
  /\ UNCHANGED jvars

Activate ==
  /\ ThreadFree /\ window = "closed"
  /\ window' = "again"
  /\ UNCHANGED <<jvars, cvars>>

Bridge ==
  /\ ThreadFree
  /\ CTimeOut \/ StartupTimeOut \/ \E p \in CProc : CHandlers(p)
  /\ UNCHANGED <<jvars, window>>

Process ==
  /\ \E p \in CProc : Classifier(p)
  /\ UNCHANGED <<jvars, window>>

Next ==
  \/ JobSteps \/ JobRequest \/ \E u \in Ui : UiInvoke(u)
  \/ WindowAllClosed \/ Activate \/ Bridge \/ Process

Spec == Init /\ [][Next]_vars

\* The event loop serves the job and its timers, among them those of the two
\* bridges; nothing is assumed of the user or of the classifier.
FairSpec == Spec /\ WF_vars(JobSteps) /\ WF_vars(Bridge)

-----------------------------------------------------------------------------
(* Properties.                                                             *)

\* The progress a job reports and the results it keeps tell the same, through
\* skips, failures, dry runs, pauses and cancellation, no file is told of
\* twice, and a job that says it is completed has told of each file it listed.
CountersMatchResults ==
  /\ \A o \in Outcomes :
       job.count[o] =
         Cardinality({ k \in DOMAIN job.results : job.results[k].outcome = o })
  /\ job.processed = Len(job.results)
  /\ job.processed <= job.total \/ Running
  /\ \A k, l \in DOMAIN job.results :
       job.results[k].file = job.results[l].file => k = l
  /\ job.status = "completed" => Len(job.results) = Len(job.files)

\* Once cancellation is requested at most one more file is labelled, and the
\* job does not end as completed.
CancelHolds ==
  /\ late <= 1
  /\ job.cancelled /\ At("end") => job.status \in {"cancelled", "failed"}

\* An analysis is given to the request whose text was analysed, also when an
\* earlier request has timed out and its answer comes late.
OwnAnalysis ==
  \A i \in Id : ask[i].result \in Id => ask[i].result = i

\* A job ends unless it is paused, and every request to the classifier is
\* settled, whatever becomes of the classifier process and of the windows.
JobEnds ==
  /\ Active ~> (At("end") \/ job.paused)
  /\ \A i \in Id : ask[i].pc = "sent" ~> ask[i].pc = "done"

\* cancel(): "takes effect between batches".
CancelTakesEffect == (job.cancelled /\ Active) ~> At("end")

=============================================================================
