----------------------------- MODULE GraphDiff -----------------------------
(***************************************************************************)
(* compare_graphs: what changed between two graphs of a repository, with a *)
(* score of the change.  The 200 pieces of evidence that are returned of   *)
(* the symbols and of the relationships are left whole.                    *)
(***************************************************************************)
EXTENDS CodeGraph

EdgeOf(g, id) == CHOOSE e \in g.edges : EdgeId(e) = id

EdgeIds(g) == {EdgeId(e) : e \in g.edges}

(* Elements that changed, by their ids, where a and b are the ids before   *)
(* and after and same those whose element is equal on both sides.          *)
Changes(a, b, same) == [added |-> b \ a, removed |-> a \ b, modified |-> (a \intersect b) \ same]

NodeChanges(base, head) ==
    LET ids == Ids(base) \intersect Ids(head)
    IN  Changes(Ids(base), Ids(head), {id \in ids : NodeOf(base, id) = NodeOf(head, id)})

EdgeChanges(base, head) ==
    LET ids == EdgeIds(base) \intersect EdgeIds(head)
    IN  Changes(EdgeIds(base), EdgeIds(head), {id \in ids : EdgeOf(base, id) = EdgeOf(head, id)})

Count(c) == Cardinality(c.added) + Cardinality(c.removed) + Cardinality(c.modified)

(* Endpoints are counted by method and path: a moved one has two ids.      *)
NameOf(n) == IF n.type = "Endpoint" THEN n.text ELSE n.id

Score(symbols, relationships, files, endpoints, entities, removed) ==
    AtMost(100, AtMost(40, symbols * 4) + AtMost(20, relationships * 2) + AtMost(15, files * 3)
                    + AtMost(10, endpoints * 5) + AtMost(10, entities * 5) + AtMost(5, removed))

DiffRisk(score) == IF score >= 60 THEN "HIGH" ELSE IF score >= 25 THEN "MEDIUM" ELSE "LOW"

CompareGraphs(base, head) ==
    LET nodes == NodeChanges(base, head)
        edges == EdgeChanges(base, head)
        changedNodes == {NodeOf(head, id) : id \in nodes.added \union nodes.modified}
                            \union {NodeOf(base, id) : id \in nodes.removed}
        changedEdges == {EdgeOf(head, id) : id \in edges.added \union edges.modified}
                            \union {EdgeOf(base, id) : id \in edges.removed}
        files == ({n.file : n \in changedNodes} \union {e.file : e \in changedEdges}) \ {None}
        ofType(type) == {NameOf(n) : n \in {c \in changedNodes : c.type = type}}
        score == Score(Count(nodes), Count(edges), Cardinality(files),
                       Cardinality(ofType("Endpoint")), Cardinality(ofType("DatabaseEntity")),
                       Cardinality(nodes.removed))
    IN  [nodes |-> nodes, edges |-> edges, files |-> files,
         modules |-> {n.module : n \in changedNodes} \ {None},
         endpoints |-> ofType("Endpoint"), entities |-> ofType("DatabaseEntity"),
         score |-> score, risk |-> DiffRisk(score)]
=============================================================================
