----------------------------- MODULE MCWebClient -----------------------------
(* Two tenants, few jobs and policies, spreadsheets with awkward cells, reports *)
(* whose rows share a mark on the axis, and the visits of a session.       *)
EXTENDS WebClient

CONSTANTS t1, t2, x1

MCTenants == <<t1, t2>>
MCJob(t, status) == [tenant |-> t, status |-> status,
                     config |-> Config(NewForm), asked |-> Shown(NewForm)]
MCFirstJobs ==
  { <<MCJob(t1, "completed"), MCJob(t2, "pending"), MCJob(t1, "pending")>>,
    <<MCJob(t1, "pending"), MCJob(t2, "pending"), MCJob(t1, "completed")>> }

MCPolicy(t, builtin, rules) ==
  [tenant |-> t, name |-> "typed", enabled |-> FALSE, builtin |-> builtin,
   rules |-> rules, gone |-> FALSE]
MCFirstPolicies ==
  { <<MCPolicy(t1, TRUE, SitRules("ssn")),
      MCPolicy(t1, FALSE, [DEFAULT_RULES EXCEPT
                             !.conditions = <<[NewCondition["keyword_match"] EXCEPT !.entries = <<"term">>]>>])>> }

MCSheets ==
  << [columns |-> <<"item_id", "filename", "drive_id">>,
      rows |-> << << <<"i">>, <<Comma, Quote>>, <<"d">> >>,
                  << <<" ">>, <<"a">>, <<"d">> >>,
                  << <<" ", "j">>, <<Quote>>, <<"d", Quote, Comma>> >> >>],
     [columns |-> <<"item_id">>, rows |-> << << <<"i">> >> >>],
     [columns |-> <<"drive_id", "filename", "item_id">>,
      rows |-> << << <<"d">>, <<"a", Break, "e", Comma, "b", Comma, "j", Break>>, <<"i">> >>,
                  << <<"f">>, <<"g">>, <<Blank>> >> >>] >>

MCRow(day, kind, n) == [day |-> day, kind |-> kind, n |-> n]
MCReports ==
  [ summary |-> { <<MCRow(366, "completed", 2), MCRow(1, "completed", 1), MCRow(0, "failed", 1)>> },
    detections |-> { <<MCRow(366, "card", 2), MCRow(1, "card", 1)>> },
    labels |-> { <<MCRow(0, "secret", 2), MCRow(0, "secret", 1)>>, <<>> },
    throughput |-> { <<MCRow(2, "files", 1), MCRow(1, "files", 3)>> } ]
MCLogLength == [ e \in {"", "file.labelled"} |-> IF e = "" THEN 110 ELSE 60 ]

Visit(pages, does, n, failing) ==
  [pages |-> pages, does |-> does, clicks |-> n, faults |-> failing]

MCVisits ==
  { Visit({"jobs"}, {"browse", "act"}, 3, 1),
    Visit({"jobs"}, {"act", "worker"}, 2, 0),
    Visit({"jobs"}, {"form"}, 7, 0),
    Visit({"jobs"}, {"form", "act", "browse"}, 3, 0),
    Visit({"jobs"}, {"panel", "browse"}, 4, 1),
    Visit({"policies"}, {"browse", "act"}, 3, 1),
    Visit({"policies"}, {"form"}, 5, 0),
    Visit({"policies"}, {"form", "act"}, 3, 0),
    Visit({"auto-label"}, {"browse", "act", "form"}, 4, 1),
    Visit({"jobs", "auto-label"}, {"act", "leave"}, 3, 1),
    Visit({"reports"}, {"browse"}, 3, 1),
    Visit({"dashboard", "reports"}, {"browse", "leave"}, 3, 0),
    Visit({"labels"}, {"browse"}, 4, 1),
    Visit({"audit", "settings"}, {"browse", "leave"}, 4, 1),
    Visit({"explorer"}, {"browse"}, 1, 1),
    Visit({"security"}, {"browse", "act"}, 3, 1),
    Visit({"security"}, {"act", "form"}, 4, 0) }
=============================================================================
