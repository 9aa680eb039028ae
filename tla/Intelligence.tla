---------------------------- MODULE Intelligence ----------------------------
(***************************************************************************)
(* Intelligence: algorithms over the graph of a repository.  Of a path its *)
(* length is kept, of a cycle the component it stands for.                 *)
(***************************************************************************)
EXTENDS CodeGraph

CONSTANTS
    Cutoff,        \* hops that traces and impacts go: 8
    MaxPath,       \* nodes of a path: 16
    MaxDepth,      \* depth of a neighbourhood: 5
    MaxCycles,     \* cycles reported: 20
    MaxComponents, \* components of an architecture: 100
    GraphLimit     \* nodes of a returned graph: 250

ASSUME IntelligenceBounds ==
    {Cutoff, MaxPath, MaxDepth, MaxCycles, MaxComponents, GraphLimit} \subseteq Nat \ {0}

DependencyTypes == {"CALLS", "IMPORTS", "REFERENCES", "EXTENDS", "IMPLEMENTS", "HANDLES", "ROUTES_TO",
                    "DEPENDS_ON", "USES_PACKAGE", "READS_FROM", "WRITES_TO"}

TypeOf(g, id) == NodeOf(g, id).type

Dependencies(g) == {e \in g.edges : e.type \in DependencyTypes /\ e.resolution # "unresolved"}

Ends(edges) == {<<e.source, e.target>> : e \in edges}

Net(g) == Ends(Dependencies(g))

Successors(net, ids) == {e[2] : e \in {d \in net : d[1] \in ids}}

Predecessors(net, ids) == {e[1] : e \in {d \in net : d[2] \in ids}}

Reversed(net) == {<<e[2], e[1]>> : e \in net}

(* What the shortest path algorithms of networkx find from a node, by the  *)
(* number of hops.                                                         *)
Within(net, id, hops) ==
    LET Step(ids) == ids \union Successors(net, ids)
        within[k \in 0..hops] == IF k = 0 THEN {id} ELSE Step(within[k - 1])
    IN  [k \in 0..hops |-> within[k]]

Hops(within, id) == Min({k \in DOMAIN within : id \in within[k]})

(* The nodes of a returned graph: the first of a list of ids.              *)
Subgraph(g, ids, limit) ==
    LET known == Among(Unique(ids), Ids(g))
    IN  [nodes |-> ToSet(First(limit, known)), truncated |-> Len(known) > limit]

-----------------------------------------------------------------------------
(* Neighbourhoods, paths and traces.                                       *)

(* The steps end when the limit is reached, which is not always shown.     *)
Neighbors(g, id, depth, types, direction) ==
    LET net == Ends({e \in g.edges : types = {} \/ e.type \in types})
        along == (IF direction \in {"both", "out"} THEN net ELSE {})
                    \union (IF direction \in {"both", "in"} THEN Reversed(net) ELSE {})
        Step(ids, k) == IF k > 1 /\ Cardinality(ids) >= GraphLimit THEN ids
                        ELSE ids \union Successors(along, ids)
        selected[k \in 0..AtMost(MaxDepth, depth)] == IF k = 0 THEN {id} ELSE Step(selected[k - 1], k)
    IN  Subgraph(g, <<id>> \o Sorted(selected[AtMost(MaxDepth, depth)] \ {id}), GraphLimit)

(* The length of the path between two nodes, -1 if there is none or it is  *)
(* too long.                                                               *)
Path(g, source, target, directed) ==
    LET net == IF directed THEN Net(g) ELSE Net(g) \union Reversed(Net(g))
        within == Within(net, source, MaxPath - 1)
    IN  IF target \in within[MaxPath - 1] THEN Hops(within, target) ELSE -1

Visited(g, id) == Within(Net(g), id, Cutoff)[Cutoff]

(* Where a trace ends: at databases, packages and where nothing follows.   *)
TraceEnds(g, id) ==
    {t \in Visited(g, id) :
        \/ TypeOf(g, t) \in {"DatabaseEntity", "ExternalPackage"}
        \/ t # id /\ Successors(Net(g), {t}) = {}}

-----------------------------------------------------------------------------
(* Impact.                                                                 *)

(* Changes to a class or file can affect each member defined, three levels *)
(* deep.                                                                   *)
Selected(g, id) ==
    LET structure == {<<e.source, e.target>> : e \in {d \in g.edges : d.type \in {"DEFINES", "CONTAINS"}}}
        level[k \in 0..3] == IF k = 0 THEN {id} ELSE Successors(structure, level[k - 1])
    IN  IF TypeOf(g, id) \in {"File", "Class", "Interface"} THEN UNION {level[k] : k \in 0..3}
        ELSE {id}

(* How far everything is that depends on one of the seeds.                 *)
Distances(g, seeds) ==
    LET reverse == Reversed(Net(g))
        from == [seed \in seeds |-> Within(reverse, seed, Cutoff)]
        reached == UNION {from[seed][Cutoff] : seed \in seeds}
        nearest(id) == {Hops(from[seed], id) : seed \in {s \in seeds : id \in from[s][Cutoff]}}
    IN  [id \in reached |-> Min(nearest(id))]

(* Mutant: members are traversed as dependents of one another.             *)
DependentsOfId(g, id, distances) == DOMAIN distances \ {id}

Dependents(g, id, distances) == DOMAIN distances \ Selected(g, id)

Direct(g, id) == Predecessors(Net(g), Selected(g, id)) \ Selected(g, id)

(* The terms of the score, for the numbers of direct and transitive        *)
(* dependents, endpoints, modules and writes and the depth.                *)
Features(direct, transitive, endpoints, modules, writes, depth) ==
    [direct_dependents |-> AtMost(20, direct * 4),
     transitive_dependents |-> AtMost(25, transitive * 2),
     api_endpoints |-> AtMost(20, endpoints * 5),
     cross_module_reach |-> AtMost(15, (IF modules = 0 THEN 0 ELSE modules - 1) * 3),
     database_writes |-> AtMost(10, writes * 5),
     dependency_depth |-> AtMost(10, depth * 2)]

Total(f) ==
    f.direct_dependents + f.transitive_dependents + f.api_endpoints + f.cross_module_reach
        + f.database_writes + f.dependency_depth

ImpactRisk(score) == IF score >= 65 THEN "HIGH" ELSE IF score >= 30 THEN "MEDIUM" ELSE "LOW"

(* What follows from the changed ids and how far everything is that        *)
(* depends on them.                                                        *)
Assess(g, id, selected, dependents, direct, distances) ==
    LET affected == dependents \union selected
        endpoints == {d \in dependents : TypeOf(g, d) = "Endpoint"}
        files == {NodeOf(g, d).file : d \in dependents} \ {None}
        modules == {NodeOf(g, d).module : d \in dependents} \ {None}
        targets(types) == {e.target : e \in {d \in g.edges : d.source \in affected /\ d.type \in types}}
        db == targets({"READS_FROM", "WRITES_TO"})
        score == Total(Features(Cardinality(direct), Cardinality(dependents \ direct),
                                Cardinality(endpoints), Cardinality(modules),
                                Cardinality(targets({"WRITES_TO"})),
                                Max({distances[d] : d \in DOMAIN distances})))
    IN  [score |-> score, risk |-> ImpactRisk(score),
         direct |-> direct, dependents |-> dependents, distances |-> distances,
         files |-> files, endpoints |-> endpoints, db |-> db,
         graph |-> Subgraph(g, <<id>> \o Sorted(affected \ {id}) \o Sorted(db), GraphLimit)]

Impact(g, id) ==
    LET Of(selected, distances) ==
            Assess(g, id, selected, Dependents(g, id, distances), Direct(g, id), distances)
    IN  Of(Selected(g, id), Distances(g, Selected(g, id)))

-----------------------------------------------------------------------------
(* Cycles.                                                                 *)

(* Mutant: a component of one node, which depends on itself, is left out.  *)
LargeComponents(net) ==
    LET inner == {e[1] : e \in net} \intersect {e[2] : e \in net}
        after == [id \in inner |-> Within(net, id, Cardinality(inner))[Cardinality(inner)]]
    IN  {c \in {{b \in inner : b \in after[a] /\ a \in after[b]} : a \in inner} : Cardinality(c) > 1}

(* The strongly connected components with a cycle; a node on a cycle is    *)
(* both source and target.                                                 *)
CyclicComponents(net) ==
    LET inner == {e[1] : e \in net} \intersect {e[2] : e \in net}
        after == [id \in inner |-> Within(net, id, Cardinality(inner))[Cardinality(inner)]]
        component(a) == {b \in inner : b \in after[a] /\ a \in after[b]}
    IN  {component(a) : a \in {b \in inner : Cardinality(component(b)) > 1 \/ <<b, b>> \in net}}

(* As many of them as are reported.                                        *)
Cycles(g) ==
    ToSet(First(MaxCycles, Sorted(CyclicComponents(Net(g)))))

-----------------------------------------------------------------------------
(* The architecture: nodes by their modules and what these depend on.      *)

Component(n) ==
    CASE n.type = "ExternalPackage" -> <<"External packages">>
      [] n.type = "DatabaseEntity" -> <<"Database">>
      [] OTHER -> IF n.module = None THEN <<"root">> ELSE <<"module", n.module>>

Grouped(g) == {n \in g.nodes : n.type \notin {"Repository", "Directory", "UnresolvedSymbol"}}

(* Of many components only some are shown, with the relationships between  *)
(* them.                                                                   *)
Architecture(g) ==
    LET component == [id \in {n.id : n \in Grouped(g)} |-> Component(NodeOf(g, id))]
        known == {e \in Dependencies(g) : {e.source, e.target} \subseteq DOMAIN component}
        across == {e \in known : component[e.source] # component[e.target]}
        components == {component[id] : id \in DOMAIN component}
        shown == ToSet(First(MaxComponents, Sorted(components)))
        evidence(a, b) == {e \in across : component[e.source] = a /\ component[e.target] = b}
    IN  [components |-> shown,
         truncated |-> Cardinality(components) > MaxComponents,
         edges |-> {[source |-> component[e.source], target |-> component[e.target],
                     count |-> Cardinality(evidence(component[e.source], component[e.target])),
                     resolution |->
                        IF \A d \in evidence(component[e.source], component[e.target]) :
                            d.resolution = "resolved" THEN "resolved" ELSE "probable"] :
                    e \in {d \in across : {component[d.source], component[d.target]} \subseteq shown}}]
=============================================================================
