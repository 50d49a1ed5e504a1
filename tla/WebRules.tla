------------------------------ MODULE WebRules -------------------------------
(***************************************************************************)
(* The rules of a custom policy as components/RuleBuilder.tsx edits them,  *)
(* and what the engine makes of them (_evaluate_legacy_policy of           *)
(* app/services/policy_engine.py).                                         *)
(*                                                                         *)
(* An entry of a condition (a keyword, a regular expression, a glob) is "" *)
(* as the builder adds it, or "term" once something has been typed.        *)
(***************************************************************************)
EXTENDS Naturals, Sequences, FiniteSets, SequencesExt

CONSTANTS
  EntityType,      \* ENTITY_TYPES
  MaxConditions,   \* bound: conditions of a rule
  MaxEntries       \* bound: entries of a condition

Entry == { "", "term" }

\* addCondition: what each of the five buttons adds.
NewCondition ==
  [ entity_detected |-> [type |-> "entity_detected", entity_types |-> {},
                         min_confidence |-> 80, min_count |-> 1],
    file_pattern |-> [type |-> "file_pattern", entries |-> << "" >>],
    keyword_match |-> [type |-> "keyword_match", entries |-> << "" >>,
                       case_sensitive |-> FALSE, min_count |-> 1],
    regex_match |-> [type |-> "regex_match", entries |-> << "" >>, min_count |-> 1],
    no_label |-> [type |-> "no_label"] ]

\* The conditions, and the rules, the builder can make: no count is below one.
Conditions ==
  LET Count == Nat \ {0} IN
  [type : {"entity_detected"}, entity_types : SUBSET EntityType,
   min_confidence : {0, 80}, min_count : Count]
  \cup [type : {"file_pattern"}, entries : Seq(Entry)]
  \cup [type : {"keyword_match"}, entries : Seq(Entry), case_sensitive : BOOLEAN,
        min_count : Count]
  \cup [type : {"regex_match"}, entries : Seq(Entry), min_count : Count]
  \cup [type : {"no_label"}]
CustomRules == [conditions : Seq(Conditions), match_mode : {"any", "all"}]

DEFAULT_RULES == [conditions |-> <<>>, match_mode |-> "any"]

\* Mutant: the number as it was typed.
AsTyped(n) == n

\* A number typed into "Min Count" (or "Min Matches"): never below one.
Clamped(n) == IF n > 1 THEN n ELSE 1
Counts(c) == { [c EXCEPT !.min_count = Clamped(n)] : n \in 0 .. 2 }

\* EntityConditionEditor: a type's box, or the confidence slider.
EntityEdits(c) ==
  { [c EXCEPT !.entity_types = IF t \in @ THEN @ \ {t} ELSE @ \cup {t}] :
      t \in EntityType }
  \cup { [c EXCEPT !.min_confidence = p] : p \in {0, 80} }
  \cup Counts(c)

\* The list of entries the three other editors share: change one, add an
\* empty one, remove one of several.
Edited(entries) ==
  { [entries EXCEPT ![i] = e] : i \in 1 .. Len(entries), e \in Entry }
  \cup (IF Len(entries) < MaxEntries THEN { Append(entries, "") } ELSE {})
  \cup (IF Len(entries) > 1
          THEN { RemoveAt(entries, i) : i \in 1 .. Len(entries) } ELSE {})
EntryEdits(c) == { [c EXCEPT !.entries = q] : q \in Edited(c.entries) }

FilePatternEdits(c) == EntryEdits(c)
KeywordEdits(c) ==
  EntryEdits(c) \cup { [c EXCEPT !.case_sensitive = ~@] } \cup Counts(c)
RegexEdits(c) == EntryEdits(c) \cup Counts(c)

\* ConditionEditor: the editor of the condition's type; no_label has none.
ConditionEdits(c) ==
  CASE c.type = "entity_detected" -> EntityEdits(c)
    [] c.type = "file_pattern" -> FilePatternEdits(c)
    [] c.type = "keyword_match" -> KeywordEdits(c)
    [] c.type = "regex_match" -> RegexEdits(c)
    [] OTHER -> {}

AddCondition(r) ==
  IF Len(r.conditions) < MaxConditions
    THEN { [r EXCEPT !.conditions = Append(@, NewCondition[t])] :
             t \in DOMAIN NewCondition }
    ELSE {}
UpdateCondition(r) ==
  UNION { { [r EXCEPT !.conditions[i] = c] : c \in ConditionEdits(r.conditions[i]) } :
            i \in 1 .. Len(r.conditions) }
RemoveCondition(r) ==
  { [r EXCEPT !.conditions = RemoveAt(@, i)] : i \in 1 .. Len(r.conditions) }

\* What one control of the builder makes of the rules; a read-only builder
\* offers none.
Built(r, readOnly) ==
  IF readOnly THEN {}
  ELSE (AddCondition(r) \cup UpdateCondition(r) \cup RemoveCondition(r)
        \cup { [r EXCEPT !.match_mode = m] : m \in {"any", "all"} }) \ {r}

-----------------------------------------------------------------------------
(* The engine on a file with some text, a name and a label, in which       *)
(* nothing was detected and in which no term occurs.  An empty keyword or  *)
(* expression is found between any two characters of it, an empty glob     *)
(* fits no name, and no_label asks nothing of the file.                    *)

Found(entries) == IF \E i \in 1 .. Len(entries) : entries[i] = "" THEN 2 ELSE 0

Holds(c) ==
  CASE c.type = "entity_detected" -> c.entity_types # {} /\ 0 >= c.min_count
    [] c.type \in {"keyword_match", "regex_match"} -> Found(c.entries) >= c.min_count
    [] c.type = "file_pattern" -> FALSE
    [] OTHER -> TRUE

Matches(r) ==
  LET n == 1 .. Len(r.conditions)
  IN  /\ n # {}
      /\ IF r.match_mode = "all"
           THEN \A i \in n : Holds(r.conditions[i])
           ELSE \E i \in n : Holds(r.conditions[i])

\* Every entry has been filled in, and nothing asks for unlabelled files.
Explicit(r) ==
  \A i \in 1 .. Len(r.conditions) :
    LET c == r.conditions[i] IN
    /\ c.type # "no_label"
    /\ "entries" \in DOMAIN c => \A j \in 1 .. Len(c.entries) : c.entries[j] # ""
=============================================================================
