----------------------------- MODULE CodeGraph -----------------------------
(***************************************************************************)
(* CodeGraph: the nodes and edges of a repository's dependency graph, as   *)
(* the pipeline builds them and all its readers know them.                 *)
(*                                                                         *)
(* A node is known by its id; its name, signature and the like are left    *)
(* out, text stands for its hash, and of a package for its qualified name. *)
(* The id of an edge is made of its ends, type, file and line, so that a   *)
(* set of edges has each id once.                                          *)
(***************************************************************************)
EXTENDS Integers, Sequences, FiniteSets, SequencesExt, FiniteSetsExt

CONSTANT None \* no file, no module

AtMost(cap, n) == IF n < cap THEN n ELSE cap

(* Lists are sorted by id; any fixed order will do.                        *)
Sorted(ids) ==
    LET Add(list) == Append(list, CHOOSE id \in ids \ ToSet(list) : TRUE)
        sorted[k \in 0..Cardinality(ids)] == IF k = 0 THEN <<>> ELSE Add(sorted[k - 1])
    IN  sorted[Cardinality(ids)]

First(n, list) == SubSeq(list, 1, AtMost(n, Len(list)))

(* A list without what it already has before.                              *)
Unique(list) ==
    LET Add(seen, id) == IF id \in ToSet(seen) THEN seen ELSE Append(seen, id)
        unique[k \in 0..Len(list)] == IF k = 0 THEN <<>> ELSE Add(unique[k - 1], list[k])
    IN  unique[Len(list)]

(* What a list has of a set, in the order of the list.                     *)
Among(list, ids) ==
    LET Add(kept, id) == IF id \in ids THEN Append(kept, id) ELSE kept
        among[k \in 0..Len(list)] == IF k = 0 THEN <<>> ELSE Add(among[k - 1], list[k])
    IN  among[Len(list)]

Node(id, type, f, module, start, end, text) ==
    [id |-> id, type |-> type, file |-> f, module |-> module,
     start |-> start, end |-> end, text |-> text]

Edge(source, target, type, f, line, resolution) ==
    [source |-> source, target |-> target, type |-> type, file |-> f, line |-> line,
     resolution |-> resolution]

NoGraph == [nodes |-> {}, edges |-> {}]

Ids(g) == {n.id : n \in g.nodes}

NodeOf(g, id) == CHOOSE n \in g.nodes : n.id = id

EdgeId(e) == <<e.source, e.target, e.type, e.file, e.line>>
=============================================================================
