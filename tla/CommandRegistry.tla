--------------------------- MODULE CommandRegistry ----------------------------
(***************************************************************************)
(* cmdlet-registry.ts: the commands the renderer may have run, and what    *)
(* buildCommand makes of the parameters it is handed.  A value is known by *)
(* its kind only:                                                          *)
(*   empty (undefined, null, ''), text, guid, long (text over any limit),  *)
(*   lines (text with a newline), word (one an enum allows), number,       *)
(*   yes, no, list, none (an empty list), items, path.                     *)
(***************************************************************************)
Kinds == { "empty", "text", "guid", "long", "lines", "word", "number", "yes",
           "no", "list", "none", "items", "path" }

Param(type) == [type |-> type, required |-> FALSE, limited |-> FALSE]
Needed(p) == [p EXCEPT !.required = TRUE]
Limited(p) == [p EXCEPT !.limited = TRUE]
Text == Param("string")
Texts == Param("string[]")
Switch == Param("switch")
Number == Param("number")
Enum == Param("enum")
Note == Limited(Text)
Id == Needed(Text)

\* Both tables in one, the first of them where they overlap.  (TLC's @@ would
\* do, but nothing can be proved about it.)
f ++ g == [k \in DOMAIN f \cup DOMAIN g |-> IF k \in DOMAIN f THEN f[k] ELSE g[k]]

\* A cmdlet: whether the page must ask the user first, and its parameters.
Cmdlets(names, ask, params) == [c \in names |-> [guiConfirm |-> ask, params |-> params]]
Plain(name, params) == Cmdlets({name}, FALSE, params)
AskFirst(name, params) == Cmdlets({name}, TRUE, params)
NoParams(names) == Cmdlets(names, FALSE, <<>>)

ConnectionCmdlets ==
  Plain("Connect-SLAll", [UseDeviceCode |-> Switch])
  ++ Plain("Connect-SLGraph", [TenantId |-> Text, UseDeviceCode |-> Switch])
  ++ Plain("Connect-SLCompliance", [UseDeviceCode |-> Switch])
  ++ NoParams({ "Connect-SLProtection", "Disconnect-SLGraph", "Disconnect-SLCompliance",
                "Disconnect-SLProtection", "Get-SLConnectionStatus" })

AutoLabelPolicyParamsSansPlaces ==
  [Name |-> Id, ApplySensitivityLabel |-> Text, Mode |-> Enum]
AutoLabelPolicyParams ==
  [Name |-> Id, ApplySensitivityLabel |-> Text, Mode |-> Enum, ExchangeLocation |-> Texts,
   SharePointLocation |-> Texts, OneDriveLocation |-> Texts]
PolicyCmdlets ==
  Plain("Get-SLLabel", [Id |-> Text, Tree |-> Switch])
  ++ Plain("Get-SLLabelPolicy", [Identity |-> Text])
  ++ Plain("New-SLLabelPolicy", [Name |-> Limited(Id), Labels |-> Texts, Comment |-> Note])
  ++ Plain("Set-SLLabelPolicy", [Identity |-> Id, Labels |-> Texts, Comment |-> Text])
  ++ AskFirst("Remove-SLLabelPolicy", [Identity |-> Id])
  ++ Plain("Get-SLAutoLabelPolicy", [Identity |-> Text])
  ++ Plain("New-SLAutoLabelPolicy", AutoLabelPolicyParams)
  ++ Plain("Set-SLAutoLabelPolicy", [Identity |-> Id, Mode |-> Enum])
  ++ AskFirst("Remove-SLAutoLabelPolicy", [Identity |-> Id])
  ++ Plain("Get-SLSensitiveInfoType", [Identity |-> Text, Search |-> Text])

ScanCmdlets ==
  Plain("Invoke-SLAutoLabelScan", [SiteId |-> Text, DriveId |-> Text,
     FolderId |-> Text, Recursive |-> Switch, LabelId |-> Param("guid"),
     LabelName |-> Text, Extensions |-> Texts, MinSizeBytes |-> Number,
     MaxSizeBytes |-> Number, FilenamePatterns |-> Texts, ContentKeywords |-> Texts,
     SkipAlreadyLabeled |-> Switch, Justification |-> Text, BatchSize |-> Number,
     DryRun |-> Switch])
  ++ Plain("Register-SLAutoLabelSchedule", [TaskName |-> Text,
       RuleFile |-> Needed(Param("path")), Schedule |-> Id, RunAsUser |-> Text,
       DryRun |-> Switch])

DocumentId == [DriveId |-> Id, ItemId |-> Id]
Items == Needed(Param("items"))

DocumentCmdlets ==
  Plain("Get-SLDocumentLabel", DocumentId)
  ++ Plain("Set-SLDocumentLabel", DocumentId ++ [LabelId |-> Text,
       LabelName |-> Text, Justification |-> Note, DryRun |-> Switch])
  ++ Plain("Set-SLDocumentLabelBulk", [Items |-> Items, LabelId |-> Text,
       LabelName |-> Text, Justification |-> Text, DryRun |-> Switch])
  ++ Plain("Remove-SLDocumentLabel", DocumentId ++ [Justification |-> Note,
       DryRun |-> Switch])
  ++ Plain("Import-SLLabelCsv", [CsvText |-> Id])
  ++ AskFirst("Remove-SLDocumentLabelBulk", [Items |-> Items,
       Mode |-> Needed(Enum), Justification |-> Note, DryRun |-> Switch])

OtherCmdlets ==
  Plain("Get-SLSiteList", [Search |-> Text])
  ++ Plain("Get-SLDriveChildren", [SiteId |-> Text, DriveId |-> Text,
       ItemId |-> Text, Path |-> Text])
  ++ Plain("Get-SLDocumentDetail", DocumentId)
  ++ Plain("New-SLSnapshot", [Name |-> Limited(Id), Scope |-> Enum])
  ++ Plain("Remove-SLSnapshot", [Name |-> Id])
  ++ Plain("Compare-SLSnapshot", [Name |-> Id, Live |-> Switch])
  ++ AskFirst("Restore-SLSnapshot", [Name |-> Id, DryRun |-> Switch,
       Path |-> Param("path")])
  ++ Plain("Get-SLAuditLog", [Last |-> Number])
  ++ NoParams({ "Get-SLProtectionConfig", "Get-SLSnapshot", "Get-SLLabelReport",
                "Get-SLLabelMismatch" })

Registry == ConnectionCmdlets ++ PolicyCmdlets ++ ScanCmdlets ++ DocumentCmdlets
            ++ OtherCmdlets

-----------------------------------------------------------------------------
(* buildCommand.                                                           *)

\* The values a parameter throws at.
Refuses(p, kind) ==
  CASE p.type = "string" -> kind = "lines" \/ (kind = "long" /\ p.limited)
    [] p.type = "path" -> kind # "path"
    [] p.type = "items" -> kind \notin {"items", "none"}
    [] p.type \in {"guid", "number"} -> kind # p.type
    [] p.type = "enum" -> kind # "word"
    [] OTHER -> FALSE

\* The values that leave no trace in the command: the caller is told nothing.
Dropped(p, kind) ==
  \/ kind = "empty"
  \/ p.type = "switch" /\ kind = "no"
  \/ p.type = "string[]" /\ kind = "none"

\* Names only parameters of the cmdlet, and all it requires.
KeepsContract(cmdlet, params) ==
  /\ cmdlet \in DOMAIN Registry
  /\ DOMAIN params \subseteq DOMAIN Registry[cmdlet].params
  /\ \A key \in DOMAIN Registry[cmdlet].params :
       Registry[cmdlet].params[key].required =>
         key \in DOMAIN params /\ params[key] # "empty"

Builds(cmdlet, params) ==
  /\ KeepsContract(cmdlet, params)
  /\ \A key \in DOMAIN params :
       params[key] # "empty" => ~Refuses(Registry[cmdlet].params[key], params[key])

\* The parameters that are in the command.
Rendered(cmdlet, params) ==
  { key \in DOMAIN params : ~Dropped(Registry[cmdlet].params[key], params[key]) }
=============================================================================
