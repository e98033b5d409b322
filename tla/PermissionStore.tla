-------------------------- MODULE PermissionStore --------------------------
(***************************************************************************)
(* The permission policy (otto-host/src/permissions.rs): how it judges a   *)
(* call from the floor of sensitive paths, the project's front matter, the *)
(* rules of permissions.toml and the defaults; and how an "always" or      *)
(* "never" of the user becomes a rule in memory and in the file, which     *)
(* the sessions of a user share without a lock and which he may edit.      *)
(***************************************************************************)
EXTENDS Integers, Sequences, SequencesExt, FiniteSets

CONSTANTS
  Session,      \* processes of otto that use the same home directory
  Calls,        \* the calls that the models of the sessions make
  FrontMatter,  \* the rules of the project's OTTO.md
  Edits,        \* contents the user may give the file by hand
  Root,         \* the project's directory
  Stems, Dotenv,\* SENSITIVE_HOME_STEMS, names of .env files
  Broken,       \* content of a file that does not parse
  MaxAsked,     \* bound: modals of a session that wait
  MaxAnswers,   \* bound: persisted answers
  MaxEdits      \* bound: edits by hand

Kind == {"path", "command", "none"}
FsTools == {"read_file", "write_file", "list_dir", "glob"}

(***************************************************************************)
(* A call names its tool and the argument rules can match: a path, as its  *)
(* components ("/" first if it is absolute), or the words of a command.  A *)
(* pattern has the same shape.                                             *)
(***************************************************************************)
Shape == [tool : STRING, kind : Kind, arg : Seq(STRING)]
Decision == {"allow", "deny"}
RuleShape == [pattern : Shape, decision : Decision]

ASSUME StoreAssumption ==
  /\ Calls \subseteq Shape
  /\ \A c \in Calls : c.kind = "none" => c.arg = <<>>
  /\ FrontMatter \in Seq(RuleShape) /\ Edits \subseteq Seq(RuleShape)
  /\ Broken \notin Edits
  /\ MaxAsked \in Nat /\ MaxAnswers \in Nat /\ MaxEdits \in Nat

VARIABLES
  file,     \* permissions.toml: its rules in the order of the file, or Broken
  up,       \* the sessions that run
  rules,    \* toml_rules of each session
  asked,    \* the calls of each session whose modal waits for an answer
  saving,   \* how far a session is in add_rule
  synced,   \* the file holds what the session saved last (history variable)
  answers,  \* persisted answers so far
  edits     \* edits so far

vars == <<file, up, rules, asked, saving, synced, answers, edits>>

-----------------------------------------------------------------------------
(***************************************************************************)
(* ArgPattern::for_call and ArgPattern::matches.                           *)
(***************************************************************************)
Pattern(c) ==
  CASE c.kind = "path" /\ c.tool \in FsTools -> c
    [] c.kind = "command" /\ c.tool = "run" /\ c.arg # <<>>
         -> [c EXCEPT !.arg = <<Head(c.arg)>>]
    [] OTHER -> [c EXCEPT !.kind = "none", !.arg = <<>>]

Matches(pattern, c) ==
  /\ pattern.tool = c.tool
  /\ \/ pattern.kind = "none"
     \/ pattern.kind = "path" /\ c.kind = "path" /\ IsPrefix(pattern.arg, c.arg)
     \/ /\ pattern.kind = "command" /\ c.kind = "command"
        /\ c.arg # <<>> /\ pattern.arg = <<Head(c.arg)>>

(***************************************************************************)
(* is_sensitive_path and is_under.                                         *)
(***************************************************************************)
Sensitive(path) ==
  \/ path # <<>> /\ Last(path) \in Dotenv
  \/ \E stem \in Stems, i \in DOMAIN path :
       IsPrefix(stem, SubSeq(path, i, Len(path)))

Inside(path) ==
  IF path # <<>> /\ Head(path) = "/" THEN IsPrefix(Root, path)
  ELSE \A n \in DOMAIN path :
         LET ups == {i \in 1..n : path[i] = ".."} IN 2 * Cardinality(ups) <= n

(***************************************************************************)
(* PermissionPolicy::evaluate.                                             *)
(***************************************************************************)
Default(c) ==
  IF \/ c.tool \in {"read_file", "list_dir", "glob"}
     \/ c.tool = "write_file" /\ c.kind = "path" /\ Inside(c.arg)
  THEN "allow" ELSE "ask"

FirstMatch(list, c) == SelectInSeq(list, LAMBDA r : Matches(r.pattern, c))

Evaluate(list, c) ==
  LET front == FirstMatch(FrontMatter, c)
      own == FirstMatch(list, c)
  IN CASE c.kind = "path" /\ Sensitive(c.arg) -> "deny"
       [] ~(c.kind = "path" /\ Sensitive(c.arg)) /\ front # 0
            -> FrontMatter[front].decision
       [] ~(c.kind = "path" /\ Sensitive(c.arg)) /\ front = 0 /\ own # 0
            -> list[own].decision
       [] OTHER -> Default(c)

Verdict(s, c) == Evaluate(rules[s], c)

(***************************************************************************)
(* The elements of a list at some of its positions, in their order.        *)
(***************************************************************************)
Order(I) ==
  CHOOSE e \in [1..Cardinality(I) -> I] :
     Range(e) = I /\ \A j, k \in DOMAIN e : j < k => e[j] < e[k]
At(list, I) == LET e == Order(I) IN [k \in DOMAIN e |-> list[e[k]]]

(***************************************************************************)
(* The list that add_rule makes of a rule: it takes the place of the rule  *)
(* with its pattern, at the end.                                           *)
(***************************************************************************)
Others(list, rule) == {i \in DOMAIN list : list[i].pattern # rule.pattern}
RecordedTwice(list, rule) ==                      \* mutant: old rule stays
  Append(list, rule)
RecordedFirst(list, rule) ==                      \* mutant: newest rule first
  <<rule>> \o At(list, Others(list, rule))
Recorded(list, rule) == Append(At(list, Others(list, rule)), rule)

(***************************************************************************)
(* The file has a list of allow rules and one of deny rules, and they are  *)
(* read in this order.                                                     *)
(***************************************************************************)
Deciding(list, d) == At(list, {i \in DOMAIN list : list[i].decision = d})
DenyFirst(list) ==                                \* mutant: lists swapped
  Deciding(list, "deny") \o Deciding(list, "allow")
Sorted(list) == Deciding(list, "allow") \o Deciding(list, "deny")

Load(content) == IF content = Broken THEN <<>> ELSE content

-----------------------------------------------------------------------------
Init ==
  /\ file \in Edits
  /\ up = [s \in Session |-> FALSE]
  /\ rules = [s \in Session |-> <<>>]
  /\ asked = [s \in Session |-> {}]
  /\ saving = [s \in Session |-> "no"]
  /\ synced = [s \in Session |-> FALSE]
  /\ answers = 0 /\ edits = 0

(***************************************************************************)
(* PermissionPolicy::default_for.  A file that cannot be parsed counts as  *)
(* empty.                                                                  *)
(***************************************************************************)
Start(s) ==
  /\ ~up[s] /\ up' = [up EXCEPT ![s] = TRUE]
  /\ rules' = [rules EXCEPT ![s] = Load(file)]
  /\ synced' = [synced EXCEPT ![s] = file # Broken]
  /\ UNCHANGED <<file, asked, saving, answers, edits>>

(***************************************************************************)
(* gate_tool_call judges before it asks; another call of an overlapping    *)
(* turn may be judged before the answer to this one is recorded.           *)
(***************************************************************************)
Ask(s, c) ==
  /\ up[s] /\ Verdict(s, c) = "ask" /\ Cardinality(asked[s]) < MaxAsked
  /\ asked' = [asked EXCEPT ![s] = @ \cup {c}]
  /\ UNCHANGED <<file, up, rules, saving, synced, answers, edits>>

AnswerOnce(s, c) ==
  /\ up[s] /\ saving[s] = "no" /\ c \in asked[s]
  /\ asked' = [asked EXCEPT ![s] = @ \ {c}]
  /\ UNCHANGED <<file, up, rules, saving, synced, answers, edits>>

(***************************************************************************)
(* resolve_pending_permission with persist: add_rule changes the memory,   *)
(* then opens the file, which empties it, then writes it.  The event loop  *)
(* waits for all of it.                                                    *)
(***************************************************************************)
Record(s, c, d) ==
  /\ up[s] /\ saving[s] = "no" /\ c \in asked[s] /\ answers < MaxAnswers
  /\ answers' = answers + 1
  /\ rules' = [rules EXCEPT ![s] =
                 Recorded(@, [pattern |-> Pattern(c), decision |-> d])]
  /\ asked' = [asked EXCEPT ![s] = @ \ {c}]
  /\ saving' = [saving EXCEPT ![s] = "recorded"]
  /\ synced' = [synced EXCEPT ![s] = FALSE]
  /\ UNCHANGED <<file, up, edits>>

Truncate(s) ==
  /\ saving[s] = "recorded" /\ saving' = [saving EXCEPT ![s] = "truncated"]
  /\ file' = <<>>
  /\ synced' = [t \in Session |-> FALSE]
  /\ UNCHANGED <<up, rules, asked, answers, edits>>

(***************************************************************************)
(* If another session wrote since the file was emptied, the longer of the  *)
(* two contents may stick out under the shorter one.                       *)
(***************************************************************************)
Write(s) ==
  /\ saving[s] = "truncated" /\ saving' = [saving EXCEPT ![s] = "no"]
  /\ file' \in {Sorted(rules[s])} \cup (IF file = <<>> THEN {} ELSE {Broken})
  /\ synced' = [t \in Session |-> t = s /\ file' # Broken]
  /\ UNCHANGED <<up, rules, asked, answers, edits>>

(***************************************************************************)
(* An I/O error is logged; the file keeps what it holds by then.           *)
(***************************************************************************)
SaveFails(s) ==
  /\ saving[s] # "no" /\ saving' = [saving EXCEPT ![s] = "no"]
  /\ UNCHANGED <<file, up, rules, asked, synced, answers, edits>>

(***************************************************************************)
(* The session ends, in the middle of a write if it crashes.               *)
(***************************************************************************)
Stop(s) ==
  /\ up[s] /\ up' = [up EXCEPT ![s] = FALSE]
  /\ rules' = [rules EXCEPT ![s] = <<>>]
  /\ asked' = [asked EXCEPT ![s] = {}]
  /\ saving' = [saving EXCEPT ![s] = "no"]
  /\ file' \in {file} \cup (IF saving[s] = "truncated" THEN {Broken} ELSE {})
  /\ synced' = [t \in Session |-> t # s /\ synced[t] /\ file' = file]
  /\ UNCHANGED <<answers, edits>>

EditFile(content) ==
  /\ edits < MaxEdits /\ edits' = edits + 1
  /\ file' = content
  /\ synced' = [s \in Session |-> FALSE]
  /\ UNCHANGED <<up, rules, asked, saving, answers>>

Next ==
  \/ \E s \in Session :
       \/ Start(s) \/ Truncate(s) \/ Write(s) \/ SaveFails(s) \/ Stop(s)
       \/ \E c \in Calls :
            \/ Ask(s, c) \/ AnswerOnce(s, c)
            \/ \E d \in Decision : Record(s, c, d)
  \/ \E content \in Edits \cup {Broken} : EditFile(content)

Spec == Init /\ [][Next]_vars

-----------------------------------------------------------------------------
Patterns(list) == {r.pattern : r \in Range(list)}
Rule == [pattern : {Pattern(c) : c \in Calls} \cup UNION {Patterns(e) : e \in Edits},
         decision : Decision]
OnePerPattern(list) ==
  \A i, j \in DOMAIN list : list[i].pattern = list[j].pattern => i = j

(***************************************************************************)
(* The type invariant; and a session has one rule for each pattern, unless *)
(* the user wrote one twice by hand.                                       *)
(***************************************************************************)
TypeOK ==
  /\ file # Broken => Range(file) \subseteq Rule
  /\ \A s \in Session :
       /\ Range(rules[s]) \subseteq Rule
       /\ (\A e \in Edits : OnePerPattern(e)) => OnePerPattern(rules[s])
       /\ asked[s] \subseteq Calls
       /\ saving[s] \in {"no", "recorded", "truncated"}
       /\ up[s] \in BOOLEAN /\ synced[s] \in BOOLEAN
       /\ ~up[s] => rules[s] = <<>> /\ asked[s] = {} /\ saving[s] = "no"

(***************************************************************************)
(* An "always" or "never" decides the call it was given for, unless an     *)
(* answer given while its modal waited already does; and nothing but a new *)
(* answer to the very same pattern changes the verdict of a rule: no later *)
(* answer about a wider path or an empty argument.  Such an answer may     *)
(* still take back what only the defaults allow.                           *)
(***************************************************************************)
AnswersDecide ==
  [][\A s \in Session, c \in Calls :
       /\ \A d \in Decision :
            Record(s, c, d) /\ Verdict(s, c) = "ask" => Verdict(s, c)' = d
       /\ (/\ up[s] /\ up'[s] /\ FirstMatch(rules[s], c) # 0
           /\ Patterns(rules'[s]) # Patterns(rules[s]))
            => Verdict(s, c)' = Verdict(s, c)]_vars

(***************************************************************************)
(* A restart after a complete write takes back no permission and asks      *)
(* about exactly the calls that are still open.                            *)
(***************************************************************************)
FileAgrees ==
  \A s \in Session : synced[s] /\ saving[s] = "no" =>
    \A c \in Calls :
      /\ Verdict(s, c) = "allow" => Evaluate(Load(file), c) = "allow"
      /\ Verdict(s, c) = "ask" <=> Evaluate(Load(file), c) = "ask"
=============================================================================
