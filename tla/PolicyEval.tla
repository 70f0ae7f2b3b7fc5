----------------------------- MODULE PolicyEval -----------------------------
(***************************************************************************)
(* engine/iam/policy_eval.py.  A statement of a policy document is a       *)
(* record of its effect, of the sets of patterns under its four keys,      *)
(* empty when the key is absent, and of its conditions; a document is the  *)
(* set of its statements.                                                  *)
(***************************************************************************)
CONSTANTS
    Actions,        \* actions of AWS, in lower case
    Resources,      \* ARNs
    Patterns,       \* what statements write, the exact ones included
    Lower,          \* each in lower case
    Matching,       \* <<pattern, text>>: fnmatch matches them as they are written
    Conditions,     \* those of the statements
    Dangerous       \* DANGEROUS_ACTIONS

ASSUME PolicyAssumption ==
    /\ Actions \cup Resources \cup {"*"} \subseteq Patterns
    /\ Lower \in [Patterns -> Patterns]
    /\ \A x \in Actions \cup {"*"} : Lower[x] = x
    /\ Matching \subseteq Patterns \X Patterns
    /\ \A x \in Actions \cup Resources : <<x, x>> \in Matching /\ <<"*", x>> \in Matching
    /\ \A m \in Matching : <<Lower[m[1]], Lower[m[2]]>> \in Matching
    /\ Dangerous \subseteq Actions

Statement ==
    [effect : {"Allow", "Deny"}, action : SUBSET Patterns, notAction : SUBSET Patterns,
     resource : SUBSET Patterns, notResource : SUBSET Patterns,
     conditions : SUBSET Conditions]

(* _matches: actions and ARNs alike in lower case.                         *)
Matches(pattern, value) == <<Lower[pattern], Lower[value]>> \in Matching
MatchesAny(patterns, value) == \E p \in patterns : Matches(p, value)

(* parse_statements: the keys with Not are read for those without.         *)
ActionsOf(s) == IF s.action # {} THEN s.action ELSE s.notAction
ResourcesOf(s) == IF s.resource # {} THEN s.resource ELSE s.notResource

(* statement_grants, whatever the conditions.                              *)
StatementGrants(s, action, resource) ==
    /\ MatchesAny(ActionsOf(s), action)
    /\ ResourcesOf(s) = {} \/ MatchesAny(ResourcesOf(s), resource)

Grants(document, effect, action, resource) ==
    \E s \in document : s.effect = effect /\ StatementGrants(s, action, resource)

Permits(document, action, resource) ==
    /\ ~ Grants(document, "Deny", action, resource)
    /\ Grants(document, "Allow", action, resource)

(* As if a boundary without statements were none.                          *)
EvaluateEmptyIsNone(statements, boundary, action, resource) ==
    \A document \in {statements} \cup (boundary \ {{}}) : Permits(document, action, resource)

(* evaluate, of all the statements of the policies together; boundary is   *)
(* the set of the boundary's document, if there is one.                    *)
Evaluate(statements, boundary, action, resource) ==
    \A document \in {statements} \cup boundary : Permits(document, action, resource)

IsWildcardAction(s) == "*" \in ActionsOf(s)
IsWildcardResource(s) == "*" \in ResourcesOf(s)

FindDangerousActionsExact(s) ==
    (ActionsOf(s) \cap {"*"}) \cup (ActionsOf(s) \cap Dangerous)

FindDangerousActions(s) ==
    (ActionsOf(s) \cap {"*"})
        \cup {d \in Dangerous : MatchesAny(ActionsOf(s) \ {"*"}, d)}
-----------------------------------------------------------------------------
(***************************************************************************)
(* What AWS means by a statement, where the conditions in met hold: case   *)
(* matters in an ARN but not in an action.                                 *)
(***************************************************************************)
NamesAsWritten(patterns, resource) == \E p \in patterns : <<p, resource>> \in Matching

Applies(met, s, action, resource) ==
    /\ s.conditions \subseteq met
    /\ IF s.action # {} THEN MatchesAny(s.action, action)
                        ELSE ~ MatchesAny(s.notAction, action)
    /\ IF s.resource # {} THEN NamesAsWritten(s.resource, resource)
                          ELSE ~ NamesAsWritten(s.notResource, resource)

AwsAllows(met, document, action, resource) ==
    /\ \E s \in document : s.effect = "Allow" /\ Applies(met, s, action, resource)
    /\ \A s \in document : Applies(met, s, action, resource) => s.effect = "Allow"

(* Identity policies and the boundary, if there is one, must both allow.   *)
AwsEvaluates(met, statements, boundary, action, resource) ==
    \A document \in {statements} \cup boundary : AwsAllows(met, document, action, resource)

HasNotKey(s) == s.notAction # {} \/ s.notResource # {}

(* What evaluate() reads otherwise: a statement taken for one that applies *)
(* though a condition is not met, it writes the ARN in another case or one *)
(* of its keys is a Not key; or, for its Not key, for one that does not.   *)
TooWide(met, s, action, resource) ==
    /\ StatementGrants(s, action, resource)
    /\ \/ ~ s.conditions \subseteq met
       \/ ~ NamesAsWritten(ResourcesOf(s), resource)
       \/ HasNotKey(s)

TooNarrow(s, action, resource) == HasNotKey(s) /\ ~ StatementGrants(s, action, resource)
=============================================================================
