--------------------------- MODULE MCToolAdmission --------------------------
(* Instances of ToolAdmission for TLC. *)
EXTENDS ToolAdmission

Write == "filesystem.write"
Exec == "process.execute"

\* Two sessions of one response scope.  The first loads a skill that its next
\* round needs, ends the scope, and then calls two tools that ask; the second
\* calls a tool that asks and shares a call budget with the first.  A rule
\* allows commands alone, whatever the mode says.
TwoSessions == [t1 |-> "s1", t2 |-> "s2"]
AdmissionRounds == [t1 |-> <<<<"load", "finish">>, <<"edit", "shell">>>>, t2 |-> <<<<"patch">>>>]
AdmissionNeeds ==
  [load |-> [actions |-> <<>>, risk |-> "low"],
   edit |-> [actions |-> <<Write>>, risk |-> "low"],
   shell |-> [actions |-> <<Write, Exec>>, risk |-> "high"],
   finish |-> [actions |-> <<Exec>>, risk |-> "low"],
   patch |-> [actions |-> <<Write, Exec>>, risk |-> "low"]]

AdmissionRules == <<[outcome |-> "allow", actions |-> <<Exec>>]>>

\* Two turns of one session, the second after the first.
OneSession == [t1 |-> "s", t2 |-> "s"]
ProgressRounds == [t1 |-> <<<<"edit", "shell">>>>, t2 |-> <<<<"ask">>>>]
ProgressNeeds ==
  [edit |-> [actions |-> <<Write>>, risk |-> "low"],
   shell |-> [actions |-> <<Write>>, risk |-> "low"],
   ask |-> [actions |-> <<>>, risk |-> "low"]]

ProgressRules == <<>>
=============================================================================
