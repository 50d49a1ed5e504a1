----------------------------- MODULE JobProgress -----------------------------
(***************************************************************************)
(* What a labelling job promises when nobody interferes with it and its    *)
(* calls succeed: it completes one site after the other, then labels the   *)
(* files it found batch by batch, each position once, and is completed     *)
(* when none is left.  There are no executors, checkpoints or crashes at   *)
(* this level: JobSystem must look like this however often its worker      *)
(* dies and its task is delivered again.                                   *)
(***************************************************************************)
EXTENDS Integers

CONSTANTS
  Site,
  Sizes,     \* how many files a site may hold
  MaxBatch

VARIABLES
  status,  \* of the job
  sites,   \* sites completed
  total,   \* files found
  done     \* files handled

progress == <<status, sites, total, done>>

Init ==
  /\ status \in {"pending", "enumerating"}
  /\ sites = {}
  /\ total = 0
  /\ done = 0

Begin ==
  /\ status = "pending"
  /\ status' = "enumerating"
  /\ UNCHANGED <<sites, total, done>>

CompleteSite ==
  /\ status = "enumerating"
  /\ \E s \in Site \ sites : sites' = sites \cup {s}
  /\ \E n \in Sizes : total' = total + n
  /\ UNCHANGED <<status, done>>

AllEnumerated ==
  /\ status = "enumerating"
  /\ sites = Site
  /\ status' = "running"
  /\ UNCHANGED <<sites, total, done>>

LabelBatch ==
  /\ status = "running"
  /\ \E n \in 1 .. MaxBatch : done + n <= total /\ done' = done + n
  /\ UNCHANGED <<status, sites, total>>

Complete ==
  /\ status = "running"
  /\ done = total
  /\ status' = "completed"
  /\ UNCHANGED <<sites, total, done>>

Worker == CompleteSite \/ AllEnumerated \/ LabelBatch \/ Complete

\* The job makes progress until it is completed.
Spec == Init /\ [][Begin \/ Worker]_progress /\ WF_progress(Worker)
=============================================================================
