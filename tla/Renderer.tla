------------------------------- MODULE Renderer -------------------------------
(***************************************************************************)
(* The desktop renderer as one program: App.tsx mounts one page at a time, *)
(* over the queue of commands, the preferences and the job of the main     *)
(* process, which go on when a page is left.                               *)
(***************************************************************************)
EXTENDS LabelTabs, ClassifyPolicies

vars == <<session, labelVars, classifyVars>>

Mounted(p, n) == IF p = "labels" THEN << FetchList(NewList("label", n)) >> ELSE <<>>

Init ==
  /\ SessionInit /\ LabelsInit /\ ClassifyInit
  /\ calls = Mounted(page, 0)

\* The state of the page that is left is gone; what it has asked for is not,
\* and neither is what its functions still await.
Leave ==
  /\ ~ws.asking /\ cp.confirm = None /\ cp.delete = None /\ ~wiz.open
  /\ Click("leave")
  /\ \E p \in sitting.pages \ {page} : page' = p
  /\ mount' = mount + 1
  /\ LET n == lt.list.n + 1
     IN  /\ lt' = [list |-> NewList("label", n), tabs |-> <<>>, active |-> NoTab,
                   forms |-> 0]
         /\ calls' = calls \o
              (IF page' = "labels"
                 THEN << [FetchList(NewList("label", n)) EXCEPT !.at = mount'] >> ELSE <<>>)
  /\ ws' = Blank(ws.n + 1)
  /\ cp' = NewClassify(page' = "classify-label")
  /\ UNCHANGED <<store, wiz, runs, main, did>>

Clicks ==
  \/ LabelsClicks /\ UNCHANGED classifyVars
  \/ ClassifyClicks /\ UNCHANGED labelVars
  \/ Leave

Bridge == (FailCall \/ ThrottleCall) /\ UNCHANGED <<labelVars, classifyVars>>

\* What PowerShell, the main process and the page's own functions do.
Runs ==
  \/ RefuseCall /\ UNCHANGED <<labelVars, classifyVars>>
  \/ LabelsRuns /\ UNCHANGED classifyVars
  \/ ClassifyRuns /\ UNCHANGED labelVars

Next == Clicks \/ Bridge \/ Runs

Spec == Init /\ [][Next]_vars

\* A command is answered, by PowerShell or by its time-out, and a job ends.
FairSpec == Spec /\ WF_vars(Runs)

TypeOK == SessionTypeOK /\ LabelsTypeOK /\ ClassifyTypeOK

\* No form, no dialog and no list is left working, no command unanswered and no
\* job or scan undone, whatever fails or is left behind; and no run that was begun
\* by the page that is shown goes on for ever.
WorkEnds ==
  []<>(/\ calls = <<>> /\ main.job = None
       /\ \A k \in DOMAIN runs : runs[k].at # mount /\ runs[k].pc = "waiting"
       /\ lt.list.st # "loading" \/ page # "labels"
       /\ ~ws.loading /\ ~ws.saving /\ ~ws.deleting)

\* Not true of the code: the run of a page that is left before its job completes
\* awaits the end of that job for ever.
EveryRunReturns == []<>(runs = <<>>)
=============================================================================
