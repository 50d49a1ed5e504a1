---------------------------- MODULE LocalJobRunner -----------------------------
(***************************************************************************)
(* LocalJobRunner of local-job-runner.ts: a bulk labelling job in the main *)
(* process of the desktop application.  It awaits PowerShell, the          *)
(* classifier and a sleep; between two awaits nothing else runs in the     *)
(* process, which Running says.                                            *)
(* What PowerShell and the classifier answer is not looked into: a content *)
(* may come back.  With the cmdlet registry of this commit it never does,  *)
(* since buildCommand refuses the IncludeContent that classifyFile passes  *)
(* (cmdlet-registry.ts), so what a job does is a part of what is modelled. *)
(***************************************************************************)
EXTENDS Integers, Sequences, FiniteSets

CONSTANTS
  Site,         \* sequence of the SharePoint sites
  FilesOf,      \* function from sites to the sequences of their files
  BatchSize,    \* BATCH_SIZE
  Configs       \* bound: the configurations a job is started with

Sites == { Site[k] : k \in DOMAIN Site }
File == UNION { { FilesOf[s][k] : k \in DOMAIN FilesOf[s] } : s \in Sites }

VARIABLES
  job,       \* the runner, the progress it reports, and where it stands
  late       \* files that PowerShell was told to label after the cancellation

jvars == <<job, late>>

\* use_policies with policies, a target_label_id, dry_run, site_ids.
Config ==
  [policies : BOOLEAN, target : BOOLEAN, dry : BOOLEAN, sites : SUBSET Sites]

ASSUME JobAssumption ==
  /\ BatchSize \in Nat \ {0} /\ Configs \subseteq Config
  /\ Site \in Seq(Sites)
  /\ \A s \in Sites : FilesOf[s] \in Seq(File)

Awaits == { "sites", "children", "content", "classify", "apply",
            "siteSleep", "batchSleep" }
Inner == { "site", "batch", "file" }

Outcomes == { "labelled", "skipped", "failed" }

Job ==
  [pc : {"idle", "end"} \cup Awaits \cup Inner, config : Config,
   cancelled : BOOLEAN, paused : BOOLEAN,
   status : {"none", "enumerating", "running", "paused", "completed", "failed",
             "cancelled"},
   todo : SUBSET DOMAIN Site, files : Seq(File), i : Nat,
   labelId : {"none", "target", "policy"},
   results : Seq([file : File, outcome : Outcomes]),
   count : [Outcomes -> Nat], processed : Nat, total : Nat]

JobTypeOK ==
  /\ job \in Job
  /\ job.i <= Len(job.files)
  /\ late \in Nat

JobInit ==
  /\ \E c \in Configs :
       job = [pc |-> "idle", config |-> c, cancelled |-> FALSE, paused |-> FALSE,
              status |-> "none", todo |-> {}, files |-> <<>>, i |-> 0,
              labelId |-> "none", results |-> <<>>,
              count |-> [o \in Outcomes |-> 0], processed |-> 0, total |-> 0]
  /\ late = 0

At(pc) == job.pc = pc
Running == job.pc \in Inner
Active == job.pc \notin {"idle", "end"}

\* The file in hand, and the place of the site in hand.
Current == job.files[job.i + 1]
SiteInHand == CHOOSE k \in job.todo : \A l \in job.todo : k <= l

-----------------------------------------------------------------------------
(* Outcomes of a file, and the end of the loops.                           *)

\* Mutant: a failed file does not count as processed.
RecordFailedUncounted(j, outcome) ==
  [j EXCEPT !.results = Append(@, [file |-> j.files[j.i + 1], outcome |-> outcome]),
            !.count[outcome] = @ + 1,
            !.processed = @ + (IF outcome = "failed" THEN 0 ELSE 1),
            !.i = @ + 1, !.labelId = "none",
            !.pc = IF (j.i + 1) % BatchSize = 0 \/ j.i + 1 = Len(j.files)
                   THEN "batch" ELSE "file"]

Record(j, outcome) ==
  [j EXCEPT !.results = Append(@, [file |-> j.files[j.i + 1], outcome |-> outcome]),
            !.count[outcome] = @ + 1, !.processed = @ + 1,
            !.i = @ + 1, !.labelId = "none",
            !.pc = IF (j.i + 1) % BatchSize = 0 \/ j.i + 1 = Len(j.files)
                   THEN "batch" ELSE "file"]

Ended(j) ==
  [j EXCEPT !.pc = "end",
            !.status = IF j.cancelled THEN "cancelled" ELSE "completed"]

\* A label, or none, has been decided on for the file in hand.
Decide(j, l) ==
  IF l = "none" THEN Record(j, "skipped")
  ELSE IF j.config.dry THEN Record(j, "labelled")
  ELSE [j EXCEPT !.labelId = l, !.pc = "apply"]

Fallback == IF job.config.target THEN "target" ELSE "none"

-----------------------------------------------------------------------------
(* Requests of the renderer, refused without a job: main.ts job:*.         *)

JobStart ==
  /\ At("idle")
  /\ job' = [job EXCEPT !.pc = "sites", !.status = "enumerating"]
  /\ UNCHANGED late

JobPause ==
  /\ Active
  /\ job' = [job EXCEPT !.paused = TRUE]
  /\ UNCHANGED late

JobResume ==
  /\ Active
  /\ job' = [job EXCEPT !.paused = FALSE]
  /\ UNCHANGED late

JobCancel ==
  /\ Active
  /\ job' = [job EXCEPT !.cancelled = TRUE]
  /\ UNCHANGED late

-----------------------------------------------------------------------------
(* Enumeration.                                                            *)

\* The answer to Get-SLSiteList; the filter leaves the order, in which the
\* sites ahead are taken.
SiteList ==
  /\ At("sites")
  /\ \/ job' = [job EXCEPT !.pc = "end", !.status = "failed"]
     \/ job' = [job EXCEPT !.pc = "site",
                  !.todo = { k \in DOMAIN Site : \/ job.config.sites = {}
                                                 \/ Site[k] \in job.config.sites }]
  /\ UNCHANGED late

\* The head of the loop over the sites, and what run does after it.
NextSite ==
  /\ At("site")
  /\ job' =
       IF job.todo # {} /\ ~job.cancelled
       THEN IF job.paused THEN [job EXCEPT !.pc = "siteSleep", !.status = "paused"]
            ELSE [job EXCEPT !.pc = "children", !.status = "enumerating"]
       ELSE IF job.cancelled \/ job.files = <<>> THEN Ended(job)
       ELSE [job EXCEPT !.pc = "batch", !.status = "running",
                        !.total = Len(job.files)]
  /\ UNCHANGED late

\* The sleep ends only on resume; cancelled is not looked at again.
WakeAtSite ==
  /\ At("siteSleep") /\ ~job.paused
  /\ job' = [job EXCEPT !.pc = "children", !.status = "enumerating"]
  /\ UNCHANGED late

\* The answer to Get-SLDriveChildren; a failed one is passed over.
Children ==
  /\ At("children")
  /\ LET j == [job EXCEPT !.pc = "site", !.todo = @ \ {SiteInHand}]
         found == FilesOf[Site[SiteInHand]]
     IN  \/ job' = [j EXCEPT !.files = @ \o found,
                             !.total = Len(job.files) + Len(found)]
         \/ job' = [j EXCEPT !.total = Len(job.files)]
  /\ UNCHANGED late

-----------------------------------------------------------------------------
(* Labelling.                                                              *)

NextBatch ==
  /\ At("batch")
  /\ job' =
       IF job.i = Len(job.files) \/ job.cancelled THEN Ended(job)
       ELSE IF job.paused THEN [job EXCEPT !.pc = "batchSleep", !.status = "paused"]
       ELSE [job EXCEPT !.pc = "file", !.status = "running"]
  /\ UNCHANGED late

WakeAtBatch ==
  /\ At("batchSleep") /\ ~job.paused
  /\ job' = [job EXCEPT !.pc = "file", !.status = "running"]
  /\ UNCHANGED late

\* Mutant: cancelled is looked at between batches only.
NextFileInBatch ==
  /\ At("file")
  /\ job' = IF job.config.policies THEN [job EXCEPT !.pc = "content"]
            ELSE Decide(job, Fallback)
  /\ UNCHANGED late

\* The head of the loop over the files of a batch.
NextFile ==
  /\ At("file")
  /\ job' = IF job.cancelled THEN Ended(job)
            ELSE IF job.config.policies THEN [job EXCEPT !.pc = "content"]
            ELSE Decide(job, Fallback)
  /\ UNCHANGED late

\* The answer to Get-SLDocumentDetail without a usable text.
NoContent ==
  /\ At("content")
  /\ job' = Decide(job, Fallback)
  /\ UNCHANGED late

\* With one the classifier is asked.
ContentRead == At("content") /\ job' = [job EXCEPT !.pc = "classify"]

\* A classification, and the verdict of the policies on it: a label or none.
Classified ==
  /\ At("classify")
  /\ \E l \in {"policy", "none"} : job' = Decide(job, l)
  /\ UNCHANGED late

\* classifyFile has caught whatever went wrong, and the static label is used.
Unclassified ==
  /\ At("classify")
  /\ job' = Decide(job, Fallback)
  /\ UNCHANGED late

\* Set-SLDocumentLabel comes back.  What the answer says of the document is the
\* matter of PowerShellBridge.
Applied ==
  /\ At("apply")
  /\ \E outcome \in {"labelled", "failed"} : job' = Record(job, outcome)
  /\ late' = late + (IF job.cancelled THEN 1 ELSE 0)

=============================================================================
