---------------------------- MODULE PullRequests ----------------------------
(***************************************************************************)
(* analyze_pull_request and the review agent: what a pull request changes  *)
(* and affects, by a graph of the repository: the indexed one or that of   *)
(* the pull request's head.                                                *)
(*                                                                         *)
(* A changed file has its name, the previous one if it was renamed, and    *)
(* the hunks of its patch, if there is one: the first line and the number  *)
(* of lines before and after.                                              *)
(***************************************************************************)
EXTENDS Intelligence

CONSTANTS
    TestPaths,   \* paths for which is_test_path holds
    MaxFiles,    \* files of a pull request that are read: 500
    MaxChanged,  \* changed symbols whose impact is computed: 50
    MaxShown,    \* of these, reported and reviewed: 20
    MaxFindings  \* of these, findings of the review: 8

ASSUME PullRequestBounds == {MaxFiles, MaxChanged, MaxShown, MaxFindings} \subseteq Nat \ {0}

FetchPullRequest(files) == [files |-> First(MaxFiles, files), truncated |-> Len(files) > MaxFiles]

(* Mutant: only the ranges of the head.                                    *)
HeadLineRanges(patch) == {[start |-> h.newStart, end |-> h.newStart + h.newCount - 1] : h \in patch}

(* The ranges of both the base and the head, because the indexed revision  *)
(* may be either one.                                                      *)
ChangedLineRanges(patch) ==
    LET range(start, count) == [start |-> start, end |-> start + (IF count = 0 THEN 1 ELSE count) - 1]
    IN  {range(h.oldStart, h.oldCount) : h \in patch} \union {range(h.newStart, h.newCount) : h \in patch}

SymbolTypes == {"Class", "Interface", "Function", "Method", "Endpoint", "DatabaseEntity"}

InFile(g, path) == {n \in g.nodes : path # None /\ n.file = path}

(* What a changed file is mapped to: the symbols that its patch touches,   *)
(* or else the file.                                                       *)
Touched(g, changed) ==
    LET candidates == IF InFile(g, changed.filename) # {} THEN InFile(g, changed.filename)
                      ELSE InFile(g, changed.previous)
        ranges == ChangedLineRanges(changed.patch)
        symbols == {n \in candidates :
            /\ n.type \in SymbolTypes
            /\ \/ ranges = {}
               \/ \E r \in ranges : n.start <= r.end /\ n.end >= r.start}
    IN  {n.id : n \in IF symbols # {} THEN symbols ELSE {c \in candidates : c.type = "File"}}

ChangedIds(g, files) == Unique(FlattenSeq([i \in DOMAIN files |-> Sorted(Touched(g, files[i]))]))

Unmatched(g, files) == {files[i].filename : i \in {j \in DOMAIN files : Touched(g, files[j]) = {}}}

RelatedTests(g, impact) == {NodeOf(g, id).file : id \in impact.graph.nodes} \intersect TestPaths

(* The impacts of changed symbols, the highest first; each is placed after *)
(* those that are not below it.                                            *)
Impacts(g, changed) ==
    LET impact(id) == Impact(g, id)
        item(id, i) == [node |-> id, score |-> i.score, risk |-> i.risk, radius |-> Cardinality(i.dependents),
                        files |-> i.files, endpoints |-> i.endpoints, tests |-> RelatedTests(g, i)]
        higher(a, b) == a.score > b.score \/ (a.score = b.score /\ a.radius > b.radius)
        Place(list, i) == InsertAt(list, 1 + Cardinality({k \in DOMAIN list : ~higher(i, list[k])}), i)
        analyzed == First(MaxChanged, changed)
        placed[k \in 0..Len(analyzed)] ==
            IF k = 0 THEN <<>> ELSE Place(placed[k - 1], item(analyzed[k], impact(analyzed[k])))
    IN  placed[Len(analyzed)]

(* The review of a report: it asks for attention or it does not.           *)
CoverageGaps(g, impacts) ==
    {i.node : i \in {item \in ToSet(impacts) :
        NodeOf(g, item.node).file \notin TestPaths /\ item.tests = {}}}

Review(g, report) ==
    LET gaps == CoverageGaps(g, report.impacts)
        high == \E i \in ToSet(report.impacts) : i.risk = "HIGH"
    IN  [status |-> IF gaps # {} \/ report.unmatched # {} \/ report.truncated \/ high
                    THEN "ATTENTION" ELSE "REVIEW",
         gaps |-> gaps,
         tests |-> UNION {i.tests : i \in ToSet(report.impacts)},
         changedTests |-> report.paths \intersect TestPaths,
         findings |-> [k \in DOMAIN First(MaxFindings, report.impacts) |-> report.impacts[k].node]]

Report(g, payload, changed, impacts) ==
    LET score == IF impacts = <<>> THEN 0 ELSE Head(impacts).score
    IN  [paths |-> {payload.files[i].filename : i \in DOMAIN payload.files},
         changed |-> changed,
         impacts |-> First(MaxShown, impacts),
         files |-> UNION {i.files : i \in ToSet(impacts)},
         endpoints |-> UNION {i.endpoints : i \in ToSet(impacts)},
         score |-> score, risk |-> ImpactRisk(score),
         unmatched |-> Unmatched(g, payload.files),
         truncated |-> payload.truncated \/ Len(changed) > MaxChanged]

AnalyzePullRequest(g, payload) ==
    LET Of(changed) == Report(g, payload, changed, Impacts(g, changed))
        Reviewed(report) == [report |-> report, review |-> Review(g, report)]
    IN  Reviewed(Of(ChangedIds(g, payload.files)))
=============================================================================
