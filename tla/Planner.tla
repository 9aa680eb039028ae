------------------------------ MODULE Planner ------------------------------
(***************************************************************************)
(* RefactoringPlanner: a staged plan for a change of a symbol, by the      *)
(* model if it cites only evidence of the impact, or a fixed one.          *)
(*                                                                         *)
(* Of a stage its evidence is kept.  The reply of the model is Failure     *)
(* (unavailable, or not of the schema) or the stages, with restates: the   *)
(* summary restates computed risk.                                         *)
(***************************************************************************)
EXTENDS PullRequests

CONSTANTS
    Failure,
    MaxEvidence,  \* ids of evidence: 40
    MaxCited      \* ids that a stage cites: 8

ASSUME PlannerBounds == {MaxEvidence, MaxCited} \subseteq Nat \ {0}

(* The target comes first, so that no limit cuts it off.  The nodes on the *)
(* longest paths, which come before the rest of the graph, are left out.   *)
EvidenceIds(id, impact) ==
    First(MaxEvidence, Unique(<<id>> \o Sorted(impact.direct) \o Sorted(impact.endpoints)
                                \o Sorted(impact.db) \o Sorted(impact.graph.nodes)))

FallbackStages(g, id, impact, evidence) ==
    LET known(ids, n) == First(n, Among(Sorted(ids), ToSet(evidence)))
        direct == known(impact.direct, 8)
        endpoints == known(impact.endpoints, 6)
        databases == known(impact.db, 6)
        tests == First(8, Among(evidence, {i \in ToSet(evidence) : NodeOf(g, i).file \in TestPaths}))
        cited(list) == First(MaxCited, Unique(list))
    IN  <<<<id>>, cited(<<id>> \o databases \o endpoints)>>
        \o (IF impact.dependents = {} THEN <<>>
            ELSE <<cited(direct \o endpoints \o databases \o <<id>>)>>)
        \o <<cited(tests \o endpoints \o databases \o <<id>>)>>

(* Mutant: the schema alone, which a model need not keep to.               *)
AcceptedBySchema(reply, evidence) ==
    reply # Failure /\ Len(reply.stages) \in 2..6 /\ \A i \in DOMAIN reply.stages : reply.stages[i] # <<>>

(* What the schema and the checks of generated_plan accept.                *)
Accepted(reply, evidence) ==
    /\ reply # Failure
    /\ Len(reply.stages) \in 2..6
    /\ \A i \in DOMAIN reply.stages :
        Len(reply.stages[i]) \in 1..MaxCited /\ ToSet(reply.stages[i]) \subseteq ToSet(evidence)
    /\ ~reply.restates

Plan(g, id, reply) ==
    LET Of(impact, evidence) ==
            [grounding |-> IF Accepted(reply, evidence) THEN "llm-with-evidence" ELSE "static-evidence",
             stages |-> IF Accepted(reply, evidence) THEN reply.stages
                        ELSE FallbackStages(g, id, impact, evidence),
             missing_test_signal |-> /\ RelatedTests(g, impact) = {}
                                     /\ TypeOf(g, id) \notin {"File", "Directory"}]
        Grounded(impact) == Of(impact, EvidenceIds(id, impact))
    IN  Grounded(Impact(g, id))
=============================================================================
