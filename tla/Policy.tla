------------------------------- MODULE Policy -------------------------------
(***************************************************************************)
(* The architecture policy of a repository: rules that its owners write in *)
(* .regora.yml, evaluated against the graph.                               *)
(*                                                                         *)
(* A document is Absent, Unreadable (no YAML, too large, not an object of  *)
(* version 1) or the sequence of its rules, where Unhashable is a list or  *)
(* object in the place of a word.  A glob is the set of the locations it   *)
(* matches.  Names, messages and paths are left out: of a violation its    *)
(* evidence is kept, of a cycle the component it is in.                    *)
(***************************************************************************)
EXTENDS Intelligence

CONSTANTS
    Absent, Unreadable, Unhashable,
    MaxRules,         \* rules of a policy: 50
    MaxRelationships, \* relationships of a rule: 20
    MaxFound,         \* violations of a forbidden dependency: 50
    MaxViolations     \* violations that are reported: 100

RuleTypes == {"forbid_dependency", "no_cycles"}

Severities == {"warning", "error"}

ASSUME PolicyBounds ==
    /\ {MaxRules, MaxRelationships, MaxFound, MaxViolations} \subseteq Nat \ {0}
    /\ Absent # Unreadable
    /\ Unhashable \notin RuleTypes \union Severities \union DependencyTypes

(* A rule that does not name relationships is about all dependencies.      *)
ValidRule(rule) ==
    /\ rule.type \in RuleTypes
    /\ rule.severity \in Severities
    /\ rule.type = "forbid_dependency" =>
        /\ Len(rule.relationships) \in 1..MaxRelationships
        /\ ToSet(rule.relationships) \subseteq DependencyTypes

ValidRules(rules) ==
    /\ \A i \in DOMAIN rules : ValidRule(rules[i])
    /\ \A i, j \in DOMAIN rules : rules[i].id = rules[j].id => i = j

ValidPolicy(rules) == Len(rules) \in 1..MaxRules /\ ValidRules(rules)

(* A list is looked up in a set before anything else is wrong with a rule, *)
(* which raises an error that is not one of an invalid policy.             *)
RaisingRule(rule) ==
    \/ rule.type = Unhashable
    \/ rule.type \in RuleTypes /\ rule.severity = Unhashable
    \/ /\ rule.type = "forbid_dependency" /\ rule.severity \in Severities
       /\ Len(rule.relationships) \in 1..MaxRelationships
       /\ \E k \in DOMAIN rule.relationships :
            /\ rule.relationships[k] = Unhashable
            /\ \A j \in 1..(k - 1) : rule.relationships[j] \in DependencyTypes

(* The first rule that is not valid decides.                               *)
Raises(rules) ==
    /\ Len(rules) \in 1..MaxRules
    /\ \E i \in DOMAIN rules :
        /\ ValidRules(SubSeq(rules, 1, i - 1))
        /\ \A j \in 1..(i - 1) : rules[j].id # rules[i].id
        /\ RaisingRule(rules[i])

(* Of a package, the qualified name.                                       *)
Location(n) == IF n.file # None THEN n.file ELSE IF n.module # None THEN n.module ELSE n.text

Forbidden(g, rule) ==
    {e \in Dependencies(g) :
        /\ e.type \in ToSet(rule.relationships)
        /\ Location(NodeOf(g, e.source)) \in rule.from
        /\ Location(NodeOf(g, e.target)) \in rule.to}

(* The dependencies in a component, which a cycle found in it is made of.  *)
Inside(g, component) == {e \in Dependencies(g) : {e.source, e.target} \subseteq component}

(* The violations of a rule.                                               *)
Found(g, rule) ==
    IF rule.type = "forbid_dependency"
    THEN {{e} : e \in ToSet(First(MaxFound, Sorted(Forbidden(g, rule))))}
    ELSE {Inside(g, component) : component \in Cycles(g)}

RuleStatus(g, rule) ==
    IF Found(g, rule) = {} THEN "PASS" ELSE IF rule.severity = "error" THEN "FAIL" ELSE "WARN"

(* The violations of the rules of a severity: of each rule its own.        *)
ViolationsOf(rules, g, severity) ==
    UNION {{<<i, evidence>> : evidence \in Found(g, rules[i])} :
        i \in {j \in DOMAIN rules : rules[j].severity = severity}}

(* The first violations are reported: rule by rule in the code, here in    *)
(* any fixed order.                                                        *)
EvaluatePolicy(rules, g) ==
    LET errors == ViolationsOf(rules, g, "error")
        warnings == ViolationsOf(rules, g, "warning")
    IN  [status |-> IF errors # {} THEN "FAIL" ELSE IF warnings # {} THEN "WARN" ELSE "PASS",
         errors |-> Cardinality(errors), warnings |-> Cardinality(warnings),
         violations |-> {v[2] : v \in ToSet(First(MaxViolations, Sorted(errors \union warnings)))}]

NoFindings(status) == [status |-> status, errors |-> 0, warnings |-> 0, violations |-> {}]

(* RAISED is no status: the indexing or the review of the commit fails.    *)
LoadArchitecturePolicy(document, g) ==
    CASE document = Absent -> NoFindings("NOT_CONFIGURED")
      [] document = Unreadable -> NoFindings("INVALID")
      [] OTHER -> IF Raises(document) THEN NoFindings("RAISED")
                  ELSE IF ValidPolicy(document) THEN EvaluatePolicy(document, g)
                  ELSE NoFindings("INVALID")
=============================================================================
