------------------------------ MODULE MCRenderer ------------------------------
(* Two policies of each kind, two sites of the same name, and the sittings of  *)
(* a user.                                                                     *)
EXTENDS Renderer

CONSTANTS x, y

MCSiteNamed == x :> "team" @@ y :> "team"
MCPublishes == "a" :> "secret" @@ "b" :> "public"
MCSavedPolicy(id, sites, schedule) ==
  [createBlankPolicy(id) EXCEPT !.named = TRUE, !.entities = Entities,
     !.label = "secret", !.sites = sites, !.names = [i \in DOMAIN sites |-> "team"],
     !.schedule = schedule]
MCFirstSaved ==
  { << MCSavedPolicy(1, <<y, x>>, "daily"), MCSavedPolicy(2, <<>>, "none") >> }

Use(pages, does, clicks1, ahead, failing, throttling) ==
  [pages |-> pages, does |-> does, clicks |-> clicks1, ahead |-> ahead,
   faults |-> failing, throttles |-> throttling]

MCSittings ==
  { Use({"labels"}, {"section", "open", "refresh"}, 5, 2, 1, 0),
    Use({"labels"}, {"section", "open", "form"}, 6, 2, 0, 0),
    Use({"labels"}, {"section", "open", "pick", "delete"}, 8, 2, 0, 0),
    Use({"labels"}, {"section", "open", "delete"}, 5, 2, 1, 0),
    Use({"labels"}, {"section", "open", "pick", "tabs"}, 5, 2, 0, 1),
    Use({"labels"}, {"tabs", "form"}, 5, 2, 0, 0),
    Use({"classify-label"}, {"run", "schedule", "edit"}, 5, 2, 1, 0),
    Use({"classify-label"}, {"wizard", "schedule"}, 6, 2, 1, 0),
    Use({"classify-label", "settings"}, {"run", "schedule", "leave"}, 6, 2, 0, 0),
    Use({"classify-label", "labels"}, {"run", "leave", "open"}, 6, 2, 0, 0) }

\* Long enough to edit one policy, then another.
MCTwoEdits == { Use({"labels"}, {"section", "open", "pick", "form"}, 7, 2, 0, 0) }
=============================================================================
