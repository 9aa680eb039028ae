---------------------------- MODULE CodeAnalysis ----------------------------
(***************************************************************************)
(* What is computed of a repository's code, from its files to what is said *)
(* of a change: analyze_repository, the graph, and the queries, policies,  *)
(* comparisons, plans and pull-request reviews that rest on it.            *)
(*                                                                         *)
(* A repository has files by their paths; a commit changes some.  A file   *)
(* is Skipped when the scan leaves it out: binary, generated or too large. *)
(* When commits are indexed is not the matter of this module: here each is *)
(* at once, and the graph before is the snapshot it is compared with.      *)
(***************************************************************************)
EXTENDS Pipeline, Policy, GraphDiff, Planner

CONSTANTS
    Contents,     \* for each path, what a file there may hold
    Skipped,
    MaxNodes,     \* nodes of a graph: 50000
    ScanOrder,    \* the paths, in the order of the scan
    Context,      \* lines around a change in a patch: 3 at GitHub
    Documents,    \* policies
    Replies(_, _) \* replies of the model, for a graph and the target of a plan

ASSUME AnalysisBounds == MaxNodes \in Nat /\ Context \in Nat \ {0}

VARIABLES
    sources,  \* the files of the newest commit
    base,     \* the version that was indexed before
    head      \* the version that is indexed

vars == <<sources, base, head>>

Paths == DOMAIN Contents

(* What the files may hold is code that the analyzer can read; there are   *)
(* finitely many paths, each with a place in the order of the scan and in  *)
(* directories, and a module is looked for at some of them.                *)
ASSUME RepositoryContents ==
    /\ IsFiniteSet(Paths)
    /\ \A f \in Paths : \A content \in Contents[f] \ {Absent, Skipped} : WellFormed(content)
    /\ None \notin Paths
    /\ ScanOrder \in Seq(Paths) /\ ToSet(ScanOrder) = Paths
    /\ \A f \in Paths : Directories[f] \in Seq(STRING)
    /\ \A module \in DOMAIN Candidates : Candidates[module] \in Seq(Paths)

(* A policy that can be read has finitely many rules.                      *)
ASSUME PolicyDocuments == \A document \in Documents \ {Absent, Unreadable} : IsFiniteSet(DOMAIN document)

ScanFiles(files) == Among(ScanOrder, {f \in Paths : files[f] \notin {Absent, Skipped}})

GraphOf(files, order) == ResolveGraph([f \in ToSet(order) |-> Analyze(files[f])], order)

AnalyzeRepository(files) == GraphOf(files, ScanFiles(files))

Version(files) == [sources |-> files, graph |-> AnalyzeRepository(files)]

Indexable(files, graph) == ScanFiles(files) # <<>> /\ Cardinality(graph.nodes) <= MaxNodes

Init ==
    /\ sources \in {files \in [Paths -> UNION {Contents[f] : f \in Paths}] :
                        \A f \in Paths : files[f] \in Contents[f]}
    /\ base = Version(sources)
    /\ Indexable(sources, base.graph)
    /\ head = base

(* A commit is indexed and compared with the one before, or it cannot be   *)
(* indexed and nothing is replaced.                                        *)
Commit(files) ==
    LET version == Version(files)
    IN  /\ head = base
        /\ files # sources
        /\ sources' = files
        /\ head' = IF Indexable(files, version.graph) THEN version ELSE head
        /\ UNCHANGED base

Edit(f, content) == Commit([sources EXCEPT ![f] = content])

Move(f, path) ==
    /\ sources[path] = Absent
    /\ sources[f] \in Contents[path]
    /\ Commit([sources EXCEPT ![f] = Absent, ![path] = sources[f]])

(* The next commit is compared with the newest version.                    *)
ChooseBase ==
    /\ head # base
    /\ base' = head
    /\ UNCHANGED <<sources, head>>

Next ==
    \/ \E f \in Paths : \E content \in Contents[f] : Edit(f, content)
    \/ \E f, path \in Paths : Move(f, path)
    \/ ChooseBase

Spec == Init /\ [][Next]_vars

-----------------------------------------------------------------------------
(* A pull request between two versions, as GitHub gives it: the files that *)
(* changed, in order, each with one hunk.                                  *)

Hunk(before, after) ==
    LET same == Len(LongestCommonPrefix({before, after}))
        rest(list) == Reverse(SubSeq(list, same + 1, Len(list)))
        sameAfter == Len(LongestCommonPrefix({rest(before), rest(after)}))
        first == Max({1, same + 1 - Context})
        count(list) == Len(list) - Max({0, sameAfter - Context}) - first + 1
        start(list) == IF count(list) = 0 THEN first - 1 ELSE first
    IN  [oldStart |-> start(before), oldCount |-> count(before),
         newStart |-> start(after), newCount |-> count(after)]

(* A file that is not text has no patch.                                   *)
Patch(before, after) ==
    LET lines(content) == IF content = Absent THEN <<>> ELSE content
    IN  IF Skipped \in {before, after} THEN {} ELSE {Hunk(lines(before), lines(after))}

PullFiles(before, after) ==
    LET removed(f) == before[f] # Absent /\ after[f] = Absent
        added(f) == before[f] = Absent /\ after[f] # Absent
        origins(f) == {p \in Paths : removed(p) /\ added(f) /\ before[p] = after[f]}
        origin(f) == CHOOSE p \in origins(f) : TRUE
        moved == {origin(f) : f \in {a \in Paths : origins(a) # {}}}
        changed == Among(ScanOrder, {f \in Paths : before[f] # after[f]} \ moved)
        file(f) == IF origins(f) # {}
                   THEN [filename |-> f, previous |-> origin(f), patch |-> {}]
                   ELSE [filename |-> f, previous |-> None, patch |-> Patch(before[f], after[f])]
    IN  [i \in DOMAIN changed |-> file(changed[i])]

PullRequest == FetchPullRequest(PullFiles(base.sources, head.sources))

-----------------------------------------------------------------------------
(* The graph.                                                              *)

Analyzed(v) == [f \in ToSet(ScanFiles(v.sources)) |-> Analyze(v.sources[f])]

(* An edge, given its id, is of an import, by the line that it is at.      *)
OfImport(v, id) ==
    /\ id[4] \in DOMAIN Analyzed(v)
    /\ \E alias \in DOMAIN Analyzed(v)[id[4]].imports : Analyzed(v)[id[4]].imports[alias].line = id[5]

(* Nothing of the code is lost or made up on the way to the graph: each    *)
(* edge has both its ends, which the queries and policies take for granted *)
(* (nodes[edge.target]); each reference, import and endpoint of a file has *)
(* its edge, to what it means or to an unresolved node; ids are unique.    *)
ReferencesKept ==
    LET g == head.graph
        files == Analyzed(head)
        kept(f, owner, types, line) ==
            \E e \in g.edges : e.source = owner /\ e.type \in types /\ e.file = f /\ e.line = line
    IN  /\ \A e \in g.edges : {e.source, e.target} \subseteq Ids(g)
        /\ Cardinality(g.nodes) = Cardinality(Ids(g))
        /\ Cardinality(g.edges) = Cardinality(EdgeIds(g))
        /\ \A e \in g.edges : e.resolution = "unresolved" <=>
                TypeOf(g, e.target) \in {"UnresolvedSymbol", "Module"}
        /\ \A f \in DOMAIN files :
            /\ \A r \in files[f].references : kept(f, OwnerId(files, f, r.owner), {r.kind}, r.line)
            /\ \A alias \in DOMAIN files[f].imports :
                kept(f, FileId(f), {"IMPORTS", "USES_PACKAGE"}, files[f].imports[alias].line)
            /\ \A e \in files[f].endpoints : kept(f, EndpointId(f, e), {"HANDLES"}, e.line)

(* What the graph says does not depend on the order in which files are     *)
(* scanned ("regardless of source-file order"), but for the packages of    *)
(* calls, which are looked up among the packages met so far, and for the   *)
(* name of a package, which is that of its last import.                    *)
OrderIndependent ==
    LET known(g) == {IF n.file = None THEN [n EXCEPT !.text = <<>>] ELSE n : n \in g.nodes}
        said(g) == {e \in g.edges : e.type = "USES_PACKAGE" => OfImport(head, EdgeId(e))}
        reordered == GraphOf(head.sources, Reverse(ScanFiles(head.sources)))
    IN  known(reordered) = known(head.graph) /\ said(reordered) = said(head.graph)

-----------------------------------------------------------------------------
(* Queries.                                                                *)

(* The queries agree on what depends on what: traces and impacts find the  *)
(* same dependents, as far away as the paths between them are long; direct *)
(* dependents are among the neighbours, and dependencies between modules   *)
(* are in the architecture.  No limit hides anything without saying so,    *)
(* but the depth of the neighbours.                                        *)
QueriesAgree ==
    LET g == head.graph
        net == Net(g)
        visited == [id \in Ids(g) |-> Visited(g, id)]
        distances == [id \in Ids(g) |-> Distances(g, {id})]
        architecture == Architecture(g)
    IN  /\ \A a, b \in Ids(g) :
            /\ b \in visited[a] <=> a \in DOMAIN distances[b]
            /\ b \in visited[a] /\ Cutoff < MaxPath => Path(g, a, b, TRUE) = distances[b][a]
        /\ \A id \in Ids(g) :
            LET agrees(selected, impact) ==
                    /\ impact.dependents =
                            {a \in Ids(g) \ selected : selected \intersect visited[a] # {}}
                    /\ \A d \in DOMAIN impact.distances :
                        impact.distances[d] =
                            IF d \in selected THEN 0
                            ELSE 1 + Min({impact.distances[n] :
                                    n \in Successors(net, {d}) \intersect DOMAIN impact.distances})
                    /\ impact.direct \subseteq impact.dependents
                    /\ impact.graph.truncated \/ impact.dependents \subseteq impact.graph.nodes
                near == Neighbors(g, id, 1, DependencyTypes, "in")
            IN  /\ agrees(Selected(g, id), Impact(g, id))
                /\ near.truncated \/ Predecessors(net, {id}) \subseteq near.nodes
        /\ \A e \in Dependencies(g) :
            LET from == Component(NodeOf(g, e.source))
                to == Component(NodeOf(g, e.target))
            IN  \/ architecture.truncated
                \/ from = to
                \/ \E shown \in architecture.edges : shown.source = from /\ shown.target = to

-----------------------------------------------------------------------------
(* Changes.                                                                *)

(* The files whose code a file may know: those it imports, and so on.      *)
Reaches(g, files) ==
    LET imports == Ends({e \in g.edges : e.type = "IMPORTS"})
        known == UNION {Within(Reversed(imports), FileId(f), Cardinality(Paths))[Cardinality(Paths)] :
                        f \in files}
    IN  {f \in Paths : FileId(f) \in known}

(* A comparison blames no file for what others did: all that changed is of *)
(* files that the commit changed or that import these, directly or not, in *)
(* one of the graphs; but for the packages of calls.  Nothing changed if   *)
(* and only if the score is 0.                                             *)
ChangesExplained ==
    LET diff == CompareGraphs(base.graph, head.graph)
        edited == {f \in Paths : base.sources[f] # head.sources[f]}
        concerned == Reaches(base.graph, edited) \union Reaches(head.graph, edited) \union edited
        changed == diff.edges.added \union diff.edges.removed \union diff.edges.modified
        ofPackages == {id \in changed : id[3] = "USES_PACKAGE" /\ ~OfImport(base, id) /\ ~OfImport(head, id)}
        filesOf(g, ids) == {NodeOf(g, id).file : id \in {i \in ids : TypeOf(g, i) # "Directory"}} \ {None}
    IN  /\ {id[4] : id \in changed \ ofPackages} \subseteq concerned
        /\ filesOf(base.graph, diff.nodes.removed \union diff.nodes.modified) \subseteq concerned
        /\ filesOf(head.graph, diff.nodes.added) \subseteq concerned
        /\ diff.score = 0 <=> base.graph = head.graph

(* The policy decides by the code: it fails if and only if a rule against  *)
(* which there is an error is broken, whatever the limits on what is found *)
(* and shown, and never passes when it cannot be read, where a list in the *)
(* place of a word is the one thing that can make it raise; what it        *)
(* reports are dependencies of the graph.  When a policy that passed fails *)
(* after a commit, a relationship that the comparison lists as added is to *)
(* blame, or one of a package that it lists as modified: its name is       *)
(* another.                                                                *)
PolicyDecides ==
    LET g == head.graph
        n == Cardinality(g.nodes)
        net == Net(g)
        followed(ids) == {id \in ids : Successors(net, {id}) \intersect ids # {}}
        core[k \in 0..n] == IF k = 0 THEN Ids(g) ELSE followed(core[k - 1])
        cyclic == core[n] # {}
        broken(rule) == IF rule.type = "no_cycles" THEN cyclic ELSE Forbidden(g, rule) # {}
        diff == CompareGraphs(base.graph, g)
        renamed == {id \in diff.nodes.modified : NodeOf(g, id).file = None}
        listed(rule) == \/ Unhashable \in {rule.type, rule.severity}
                        \/ rule.type = "forbid_dependency" /\ Unhashable \in ToSet(rule.relationships)
    IN  \A document \in Documents :
            LET policy == LoadArchitecturePolicy(document, g)
                before == LoadArchitecturePolicy(document, base.graph)
                worst == {document[i].severity : i \in {j \in DOMAIN document : broken(document[j])}}
            IN  /\ policy.status \in {"FAIL", "WARN", "PASS"} =>
                        policy.status = IF "error" \in worst THEN "FAIL"
                                        ELSE IF "warning" \in worst THEN "WARN" ELSE "PASS"
                /\ policy.status \in {"INVALID", "RAISED"} <=>
                        document # Absent /\ (document = Unreadable \/ ~ValidPolicy(document))
                /\ policy.status = "RAISED" =>
                        document # Unreadable /\ \E i \in DOMAIN document : listed(document[i])
                /\ \A evidence \in policy.violations : evidence # {} /\ evidence \subseteq Dependencies(g)
                /\ before.status = "PASS" /\ policy.status = "FAIL" =>
                        \E evidence \in policy.violations : \E e \in evidence :
                            EdgeId(e) \in diff.edges.added \/ {e.source, e.target} \intersect renamed # {}

-----------------------------------------------------------------------------
(* Pull requests and plans.                                                *)

(* No change escapes a review: by the graph of the base or of the head,    *)
(* every symbol whose code the pull request changed is among the changed   *)
(* symbols, or its file, renamed to what was a directory, is reported as   *)
(* unmatched; and if a review asks for no attention, then for each of the  *)
(* changed symbols something in a test depends on it or on its members, or *)
(* is a database entity that they or what depends on them use.  Not of     *)
(* files beyond the limit, and not of tests of symbols beyond those shown: *)
(* see the README.                                                         *)
PatchFindsChanges ==
    LET kept(n, g) == \E m \in g.nodes : m.file = n.file /\ m.text = n.text
        affected(g, other) == {n \in g.nodes : n.type \in SymbolTypes /\ ~kept(n, other)}
        reported(payload, g) == {payload.files[i].previous : i \in
            {j \in DOMAIN payload.files : payload.files[j].filename \in Unmatched(g, payload.files)}}
        mapped(payload, g, other) == payload.truncated \/ \A n \in affected(g, other) :
            n.id \in ToSet(ChangedIds(g, payload.files)) \/ n.file \in reported(payload, g)
        depends(g, a, id) == Selected(g, id) \intersect Visited(g, a) # {}
        tested(g, id) == \E n \in g.nodes :
            /\ n.file \in TestPaths
            /\ \/ n.id \notin Selected(g, id) /\ depends(g, n.id, id)
               \/ \E e \in g.edges :
                    e.target = n.id /\ e.type \in {"READS_FROM", "WRITES_TO"} /\ depends(g, e.source, id)
        reviewed(analysis, g) ==
            analysis.review.status = "REVIEW" /\ Len(analysis.report.changed) <= MaxShown =>
                \A id \in ToSet(analysis.report.changed) : NodeOf(g, id).file \in TestPaths \/ tested(g, id)
        found(payload, g, other) == mapped(payload, g, other) /\ reviewed(AnalyzePullRequest(g, payload), g)
    IN  found(PullRequest, base.graph, head.graph) /\ found(PullRequest, head.graph, base.graph)

(* Whatever the model replies, the stages of a plan cite something, and    *)
(* nothing but the target, its members, what depends on these and the      *)
(* databases that any of these use.                                        *)
PlanGrounded ==
    LET g == head.graph
        visited == [a \in Ids(g) |-> Visited(g, a)]
    IN  \A id \in Ids(g) :
            LET selected == Selected(g, id)
                related == selected \union {a \in Ids(g) : selected \intersect visited[a] # {}}
                databases == {e.target : e \in {d \in g.edges :
                                d.source \in related /\ d.type \in {"READS_FROM", "WRITES_TO"}}}
            IN  \A reply \in Replies(g, id) :
                    LET plan == Plan(g, id, reply)
                    IN  /\ Len(plan.stages) >= 2
                        /\ \A i \in DOMAIN plan.stages :
                            /\ plan.stages[i] # <<>>
                            /\ ToSet(plan.stages[i]) \subseteq related \union databases
=============================================================================
