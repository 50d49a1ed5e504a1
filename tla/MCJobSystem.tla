----------------------------- MODULE MCJobSystem -----------------------------
(***************************************************************************)
(* Small instances of JobSystem for TLC.                                   *)
(***************************************************************************)
EXTENDS JobSystem

CONSTANTS s1, s2, f1, f2, f3, old, target

\* Two sites; one of the drives of s1 may fail to be walked.
TwoSites == [s \in Site |-> IF s = s1 THEN { <<f1, f2>>, <<f2>> } ELSE { <<f3>> }]
\* f1 carried a label before the job.
Before == [f \in File |-> IF f = f1 THEN old ELSE NoLabel]
\* One site of two files; an empty site.
OneSite == [s \in Site |-> IF s = s1 THEN { <<f1, f2>> } ELSE { <<>> }]
=============================================================================
