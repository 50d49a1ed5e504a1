---------------------------- MODULE WebAutoLabel -----------------------------
(***************************************************************************)
(* The Auto-Label page of the web client (pages/AutoLabelPage.tsx): the    *)
(* quick actions over the jobs and policies of a tenant, the upload of a   *)
(* spreadsheet of labels and the removal of labels a spreadsheet lists.    *)
(***************************************************************************)
EXTENDS WebJobs, WebPolicies

CONSTANT Sheets   \* the spreadsheets a user has: [columns, rows]

VARIABLES
  al,       \* the page: [policies, of, loading, instance]
  box,      \* CsvUploadDialog or BulkRemoveDialog, or NoBox
  removed   \* history: the bulk removals the server accepted

autoLabelVars == <<al, box, removed>>

-----------------------------------------------------------------------------
(* A comma-separated file: a sequence of characters, in lines that end     *)
(* with Break.  The header is one character: its names are plain, and they *)
(* are looked up in sheet.columns.                                         *)

Quote == "q"
Comma == ","
Blank == " "
Break == "newline"
Header == "header"

\* How a spreadsheet program writes a cell, a row of cells, and the table.
Doubled(cell) == FoldLeft(LAMBDA done, ch : done \o (IF ch = Quote THEN <<Quote, Quote>> ELSE <<ch>>),
                          <<>>, cell)
WrittenCell(cell) ==
  IF {Quote, Comma, Break} \cap Range(cell) # {}
    THEN <<Quote>> \o Doubled(cell) \o <<Quote>> ELSE cell
\* Words one behind the other, each behind the mark.
Chained(mark, words) ==
  FoldLeft(LAMBDA line, word : line \o <<mark>> \o word, <<>>, words)
WrittenRow(cells) ==
  Tail(Chained(Comma, [c \in DOMAIN cells |-> WrittenCell(cells[c])]))
CsvText(sheet) ==
  <<Header>> \o Chained(Break, [r \in DOMAIN sheet.rows |-> WrittenRow(sheet.rows[r])])

\* Mutant: without the i++.
ParseStepStays(line, st, i) ==
  LET ch == line[i]
      next == IF i < Len(line) THEN line[i + 1] ELSE ""
  IN  CASE st.inQuotes /\ ch = Quote ->
             IF next = Quote THEN [st EXCEPT !.current = Append(@, Quote)]
                             ELSE [st EXCEPT !.inQuotes = FALSE]
        [] ~st.inQuotes /\ ch = Quote -> [st EXCEPT !.inQuotes = TRUE]
        [] ~st.inQuotes /\ ch = Comma ->
             [st EXCEPT !.fields = Append(@, st.current), !.current = <<>>]
        [] OTHER -> [st EXCEPT !.current = Append(@, ch)]

\* parseCsvLine: one character after the other; `skip` is the i++ that passes
\* over the second of two quotes.
ParseStep(line, st, i) ==
  LET ch == line[i]
      next == IF i < Len(line) THEN line[i + 1] ELSE ""
  IN  CASE st.skip -> [st EXCEPT !.skip = FALSE]
        [] ~st.skip /\ st.inQuotes /\ ch = Quote ->
             IF next = Quote THEN [st EXCEPT !.current = Append(@, Quote), !.skip = TRUE]
                             ELSE [st EXCEPT !.inQuotes = FALSE]
        [] ~st.skip /\ ~st.inQuotes /\ ch = Quote -> [st EXCEPT !.inQuotes = TRUE]
        [] ~st.skip /\ ~st.inQuotes /\ ch = Comma ->
             [st EXCEPT !.fields = Append(@, st.current), !.current = <<>>]
        [] OTHER -> [st EXCEPT !.current = Append(@, ch)]
parseCsvLine(line) ==
  LET st == FoldLeft(LAMBDA done, i : ParseStep(line, done, i),
                     [fields |-> <<>>, current |-> <<>>, inQuotes |-> FALSE, skip |-> FALSE],
                     [i \in 1 .. Len(line) |-> i])
  IN  Append(st.fields, st.current)

\* String.prototype.trim
Solid(w) == { i \in 1 .. Len(w) : w[i] \notin {Blank, Break} }
trim(w) ==
  IF Solid(w) = {} THEN <<>> ELSE SubSeq(w, Min(Solid(w)), Max(Solid(w)))

\* lines.slice(1) of text.split('\n'), without their order: each line is
\* behind a break and goes to the next break or to the end.
Breaks(text) == { i \in 1 .. Len(text) : text[i] = Break }
LineEnd(text, i) == Min({ j \in Breaks(text) : j > i } \cup {Len(text) + 1}) - 1
DataLines(text) == { SubSeq(text, i + 1, LineEnd(text, i)) : i \in Breaks(text) }

Column(sheet, name) ==
  IF name \in Range(sheet.columns)
    THEN CHOOSE i \in 1 .. Len(sheet.columns) : sheet.columns[i] = name ELSE 0

\* A spreadsheet is a table: its rows have a cell in every column.
ASSUME SheetsAssumption ==
  \A i \in 1 .. Len(Sheets) :
    LET sheet == Sheets[i] IN
    /\ sheet.columns \in Seq(Range(sheet.columns)) /\ sheet.rows \in Seq(Range(sheet.rows))
    /\ \A r \in 1 .. Len(sheet.rows) :
         /\ sheet.rows[r] \in Seq(Seq(STRING))
         /\ Len(sheet.rows[r]) = Len(sheet.columns)

\* What handleRemove refuses to send, and the items it sends: of the lines with
\* both ids, in the columns the header names, the others left out in silence.
Unusable(sheet) ==
  \/ DataLines(trim(CsvText(sheet))) = {}
  \/ Column(sheet, "drive_id") = 0 \/ Column(sheet, "item_id") = 0
Items(sheet) ==
  LET cell(line, name) ==
        LET cols == parseCsvLine(line)
            c == Column(sheet, name)
        IN  IF c \in 1 .. Len(cols) THEN trim(cols[c]) ELSE <<>>
  IN  { x \in { [drive |-> cell(line, "drive_id"), item |-> cell(line, "item_id")] :
                  line \in DataLines(trim(CsvText(sheet))) } :
          x.drive # <<>> /\ x.item # <<>> }

\* What the user sees in the spreadsheet.
Listed(sheet) ==
  { x \in { [drive |-> trim(sheet.rows[r][Column(sheet, "drive_id")]),
             item |-> trim(sheet.rows[r][Column(sheet, "item_id")])] :
              r \in 1 .. Len(sheet.rows) } :
      x.drive # <<>> /\ x.item # <<>> }

-----------------------------------------------------------------------------
(* The server.                                                             *)

\* The three reads of the page are taken together or not at all.
ServeOverview(s) ==
  /\ Asked(s, "overview")
  /\ IF Allowed("Viewer")
       THEN Reply(s, Cardinality(Live(net[s].arg.tenant)))
       ELSE Refuse(s)
  /\ UNCHANGED <<user, page, tenant, consent, visits, clicks, faults, jobsVars,
                 policiesVars, autoLabelVars>>

\* A job for the rows of a spreadsheet, which have one label here.
UploadConfig == [use_policies |-> FALSE, target_label_id |-> TRUE, dry_run |-> FALSE,
                 site_ids |-> {}, schedule_cron |-> Once]
UploadShown == [labels |-> "one label", sites |-> {}, dryRun |-> FALSE, cron |-> Once]

ServeSheets(s) ==
  LET a == net[s].arg IN
  /\ \/ /\ Asked(s, "upload")
        /\ IF Allowed("Operator") /\ Len(jobs) < MaxJobs
             THEN /\ jobs' = Append(jobs, [tenant |-> a.tenant, status |-> "pending",
                                           config |-> UploadConfig, asked |-> UploadShown])
                  /\ Reply(s, <<>>)
             ELSE Refuse(s) /\ UNCHANGED jobs
        /\ UNCHANGED removed
     \/ /\ Asked(s, "remove")
        /\ IF Allowed("Operator")
             THEN removed' = removed \cup {[items |-> a.items, mode |-> a.mode,
                                            sheet |-> a.sheet]}
                  /\ Reply(s, <<>>)
             ELSE Refuse(s) /\ UNCHANGED removed
        /\ UNCHANGED jobs
  /\ UNCHANGED <<user, page, tenant, consent, visits, clicks, faults, jp, form, panel,
                 policiesVars, al, box>>

-----------------------------------------------------------------------------
(* The page.                                                               *)

NoBox == [kind |-> "none"]
NewUpload == [kind |-> "upload", file |-> 0, busy |-> FALSE, done |-> FALSE]
NewRemove == [kind |-> "remove", file |-> 0, busy |-> FALSE, done |-> FALSE,
              mode |-> "label_only"]

NewAutoLabelPage == [policies |-> 0, of |-> NoTenant, loading |-> FALSE, instance |-> 0]

\* While the page loads it renders nothing else: an open dialog is unmounted,
\* and mounted anew, empty, when the page is back.
Fresh(b) ==
  CASE b.kind = "upload" -> NewUpload [] b.kind = "remove" -> NewRemove [] OTHER -> NoBox

LoadOverview(n, t, b) ==
  /\ Free(n) > 0
  /\ net' = Sent(n, "overview", [tenant |-> t])
  /\ al' = [al EXCEPT !.loading = TRUE, !.instance = @ + 1]
  /\ box' = Fresh(b)

AutoLabelTakeTenants(s) ==
  /\ page = "auto-label" /\ Answered(s, "tenants")
  /\ tenant' = ChosenBy(s)
  /\ IF tenant' # tenant
       THEN LoadOverview(Done(net, s), tenant', box)
       ELSE net' = Done(net, s) /\ UNCHANGED <<al, box>>
  /\ UNCHANGED <<user, page, consent, visits, clicks, faults, removed>>

AutoLabelSelectTenant ==
  /\ page = "auto-label" /\ box = NoBox /\ Click("browse")
  /\ \E t \in Selectable \ {tenant} : tenant' = t /\ LoadOverview(net, t, box)
  /\ UNCHANGED <<user, page, consent, faults, removed>>

TakeOverview(s) ==
  /\ Answered(s, "overview")
  /\ al' = [al EXCEPT !.loading = FALSE,
                      !.policies = IF Succeeded(s) THEN net[s].val ELSE @,
                      !.of = IF Succeeded(s) THEN net[s].arg.tenant ELSE @]
  /\ net' = Done(net, s)
  /\ UNCHANGED <<user, page, tenant, consent, visits, clicks, faults, box, removed>>

\* Quick actions are there when the page shows a policy, and not for Viewers.
Ready ==
  /\ page = "auto-label" /\ ~al.loading /\ al.policies > 0 /\ HasRole("Operator")

\* Nothing keeps a second click from creating a second job.
QuickStartJob ==
  /\ Ready /\ box = NoBox /\ Click("act") /\ tenant # NoTenant /\ Free(net) > 0
  /\ \E dryRun \in BOOLEAN :
       net' = Sent(net, "create",
         [tenant |-> tenant, page |-> 1,
          config |-> [UploadConfig EXCEPT !.use_policies = TRUE, !.dry_run = dryRun,
                                          !.target_label_id = FALSE],
          asked |-> [UploadShown EXCEPT !.labels = "by policy", !.dryRun = dryRun]])
  /\ UNCHANGED <<user, page, tenant, consent, faults, al, box, removed>>

TakeQuickStart(s) ==
  /\ page = "auto-label" /\ Answered(s, "create")
  /\ IF Succeeded(s)
       THEN LoadOverview(Done(net, s), net[s].arg.tenant, box)
       ELSE net' = Done(net, s) /\ UNCHANGED <<al, box>>
  /\ UNCHANGED <<user, page, tenant, consent, visits, clicks, faults, removed>>

OpenBox ==
  /\ Ready /\ box = NoBox /\ Click("form")
  /\ box' \in {NewUpload, NewRemove}
  /\ UNCHANGED <<user, page, tenant, net, consent, faults, al, removed>>

\* Cancel, the cross, or a click beside the dialog; Done also loads the page
\* again.
CloseBox ==
  /\ page = "auto-label" /\ ~al.loading /\ box.kind # "none" /\ Click("form")
  /\ \/ /\ box' = NoBox /\ al' = [al EXCEPT !.instance = @ + 1]
        /\ UNCHANGED net
     \/ box.done /\ LoadOverview(net, tenant, NoBox)
  /\ UNCHANGED <<user, page, tenant, consent, faults, removed>>

FillBox ==
  /\ page = "auto-label" /\ ~al.loading /\ box.kind # "none" /\ ~box.done /\ Click("form")
  /\ \/ \E i \in 1 .. Len(Sheets) \ {box.file} : box' = [box EXCEPT !.file = i]
     \/ /\ box.kind = "remove"
        /\ \E m \in {"label_only", "encryption_only", "label_and_encryption"} \ {box.mode} :
             box' = [box EXCEPT !.mode = m]
  /\ UNCHANGED <<user, page, tenant, net, consent, faults, al, removed>>

\* Mutant: a file that is refused leaves the dialog busy.
SendBoxStaysBusy ==
  /\ page = "auto-label" /\ ~al.loading /\ box.kind # "none" /\ ~box.done
  /\ box.file # 0 /\ ~box.busy /\ Click("form")
  /\ box' = [box EXCEPT !.busy = TRUE]
  /\ box.kind = "remove" /\ Unusable(Sheets[box.file]) /\ UNCHANGED net
  /\ UNCHANGED <<user, page, tenant, consent, faults, al, removed>>

\* handleUpload, and handleRemove, which reads the file first and may refuse it.
SendBox ==
  /\ page = "auto-label" /\ ~al.loading /\ box.kind # "none" /\ ~box.done /\ Click("form")
  /\ box.file # 0 /\ ~box.busy
  /\ \/ /\ box.kind = "remove" /\ Unusable(Sheets[box.file])
        /\ UNCHANGED <<net, box>>
     \/ /\ box.kind = "upload" \/ ~Unusable(Sheets[box.file])
        /\ Free(net) > 0
        /\ box' = [box EXCEPT !.busy = TRUE]
        /\ net' = IF box.kind = "upload"
                    THEN Sent(net, "upload", [tenant |-> tenant, instance |-> al.instance])
                    ELSE Sent(net, "remove",
                           [tenant |-> tenant, instance |-> al.instance, mode |-> box.mode,
                            items |-> Items(Sheets[box.file]),
                            sheet |-> box.file])
  /\ UNCHANGED <<user, page, tenant, consent, faults, al, removed>>

\* An answer reaches the dialog that asked, if it is still there.
TakeBox(s) ==
  /\ Answered(s, "upload") \/ Answered(s, "remove")
  /\ box' = IF box.kind # "none" /\ net[s].arg.instance = al.instance
              THEN [box EXCEPT !.busy = FALSE, !.done = Succeeded(s)]
              ELSE box
  /\ net' = Done(net, s)
  /\ UNCHANGED <<user, page, tenant, consent, visits, clicks, faults, al, removed>>

-----------------------------------------------------------------------------
AutoLabelInit ==
  /\ al = NewAutoLabelPage
  /\ box = NoBox /\ removed = {}

AutoLabelClicks ==
  /\ \/ AutoLabelSelectTenant \/ QuickStartJob \/ OpenBox \/ CloseBox \/ FillBox \/ SendBox
  /\ UNCHANGED <<jobsVars, policiesVars>>

AutoLabelTakes(s) ==
  /\ AutoLabelTakeTenants(s) \/ TakeOverview(s) \/ TakeQuickStart(s) \/ TakeBox(s)
  /\ UNCHANGED <<jobsVars, policiesVars>>

AutoLabelTypeOK ==
  /\ al.of \in Tenants \cup {NoTenant} /\ al.loading \in BOOLEAN
  /\ box.kind \in {"none", "upload", "remove"}

\* No cell of the table holds a line break.
OneLineCells(sheet) ==
  \A r \in 1 .. Len(sheet.rows), c \in 1 .. Len(sheet.columns) :
    Break \notin Range(sheet.rows[r][c])

\* A bulk removal names the drive and the item of every row of the chosen
\* spreadsheet that has both, from the same row, and no other: whatever the
\* order of the columns and whatever commas, quotes and blanks the cells hold,
\* if no cell holds a line break.  (handleRemove and parseCsvLine)
RemovesWhatTheSheetLists ==
  \A r \in removed : OneLineCells(Sheets[r.sheet]) => r.items = Listed(Sheets[r.sheet])

\* Not true of the code: a quoted cell with a line break is broken into lines,
\* so that its row is left out, or files are named that no row lists.
\* (handleRemove splits the text before it looks at the quotes)
RemovesWhatAnySheetLists ==
  \A r \in removed : r.items = Listed(Sheets[r.sheet])
=============================================================================
