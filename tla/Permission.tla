----------------------------- MODULE Permission -----------------------------
(***************************************************************************)
(* Package permission: how a policy answers a request for capabilities,    *)
(* and the executor's remembered grants.  A list of actions is a sequence, *)
(* as descriptors may name an action twice.                                *)
(***************************************************************************)
EXTENDS Naturals, Sequences

Modes == {"default", "acceptEdits", "criticalOnly", "dontAsk", "plan", "unrestricted"}
Outcomes == {"allow", "ask", "deny"}

Items(s) == {s[i] : i \in 1..Len(s)}

matches(actions, wanted) == Items(actions) \cap Items(wanted) # {}

covers(allowed, requested) ==
  requested # <<>> /\ Items(requested) \subseteq Items(allowed)

onlyWrite(actions) == actions # <<>> /\ Items(actions) = {"filesystem.write"}

\* What the mode says when no rule applies.
ModeOutcome(request, mode) ==
  CASE mode = "unrestricted" -> "allow"
    [] mode \in {"dontAsk", "plan"} -> "deny"
    [] mode = "criticalOnly" -> IF request.risk = "high" THEN "ask" ELSE "allow"
    [] mode = "acceptEdits" -> IF onlyWrite(request.actions) THEN "allow" ELSE "ask"
    [] OTHER -> "ask"

\* Deny rules, then ask rules, then allow rules, then the mode.
Evaluate(request, policy) ==
  LET rules == Items(policy.rules)
      hit(outcome) == \E rule \in rules :
        rule.outcome = outcome /\ matches(request.actions, rule.actions)
  IN IF hit("deny") THEN "deny"
     ELSE IF hit("ask") THEN "ask"
     ELSE IF \E rule \in rules : rule.outcome = "allow"
                                 /\ covers(rule.actions, request.actions)
          THEN "allow"
     ELSE ModeOutcome(request, policy.mode)

\* Mutant: the lengths are not compared.
sameActionsUncounted(a, b) == Items(a) \subseteq Items(b)

sameActions(a, b) == Len(a) = Len(b) /\ Items(a) \subseteq Items(b)

\* A grant given for a session holds there, one given for the project holds
\* in every session of an executor that has a project.
hasGrant(grants, session, actions, hasProject) ==
  \E grant \in grants :
    /\ grant.scope = "allow_session" => grant.session = session
    /\ grant.scope = "allow_project" => hasProject
    /\ sameActions(grant.actions, actions)

=============================================================================
