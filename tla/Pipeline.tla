------------------------------ MODULE Pipeline ------------------------------
(***************************************************************************)
(* resolve_graph: the dependency graph of a repository from what was       *)
(* extracted from its files.                                               *)
(***************************************************************************)
EXTENDS Resolver

CONSTANTS
    ModelBases,    \* names of ORM base classes: Model, Base, Document
    Writes, Reads  \* names of ORM operations

RepositoryId == <<"repository">>

DirectoryId(f, n) == <<"dir", SubSeq(Directories[f], 1, n)>>

IsLocal(module) == Head(module) = "."

(* By the first name of a package, by the text of a relative module.       *)
PackageId(module) ==
    IF IsLocal(module) THEN <<"unresolved-module", module>> ELSE <<"package", Head(module)>>

UnresolvedId(f, r) == <<"unresolved", f, r.scope, r.target>>

HandlerId(f, handler) == <<"handler", f, handler>>

EndpointId(f, e) == <<"endpoint", f, e.name, e.line>>

EntityId(owner) == <<"entity", owner>>

OwnerId(files, f, name) ==
    IF name = <<>> THEN FileId(f)
    ELSE SymbolId(f, CHOOSE s \in files[f].symbols : s.name = name)

-----------------------------------------------------------------------------
(* Files, directories and what files define.                               *)

FileNodes(files, f) ==
    LET p == files[f]
        m == Directories[f]
    IN  {Node(RepositoryId, "Repository", None, None, 1, 1, <<>>),
         Node(FileId(f), "File", f, m, 1, Len(p.text), p.text)}
        \union {Node(DirectoryId(f, n), "Directory", SubSeq(m, 1, n), SubSeq(m, 1, n), 1, 1, <<>>) :
                    n \in DOMAIN m}
        \union {Node(SymbolId(f, s), s.kind, f, m, s.start, s.end, s.text) : s \in p.symbols}
        \union {Node(EndpointId(f, e), "Endpoint", f, m, e.line, e.line, <<[route |-> e.name]>>) :
                    e \in p.endpoints}

ContainsEdges(files, f) ==
    LET chain == <<RepositoryId>> \o [n \in DOMAIN Directories[f] |-> DirectoryId(f, n)]
                    \o <<FileId(f)>>
    IN  {Edge(chain[i], chain[i + 1], "CONTAINS", f, 1, "resolved") : i \in 1..(Len(chain) - 1)}
        \union {Edge(FileId(f), EndpointId(f, e), "DEFINES", f, e.line, "resolved") :
                    e \in files[f].endpoints}
        \union {Edge(OwnerId(files, f, s.owner), SymbolId(f, s), "DEFINES", f, s.start, "resolved") :
                    s \in files[f].symbols}

-----------------------------------------------------------------------------
(* Imports.                                                                *)

ImportPath(files, f, import) == Imported(files, f, import).path

(* The packages that a file imports, and local modules that are not there. *)
Outside(files, f) ==
    {i \in {files[f].imports[alias] : alias \in DOMAIN files[f].imports} :
        ImportPath(files, f, i) = None}

PackageIds(files, f) == {PackageId(i.module) : i \in Outside(files, f)}

(* The files analyzed before a file, and itself.                           *)
UpTo(order, f) == {order[i] : i \in {j \in DOMAIN order : \E k \in j..Len(order) : order[k] = f}}

(* The last import of a package, in the order of the files and their lines.*)
LastImport(files, order, id) ==
    LET importing == {f \in DOMAIN files : id \in PackageIds(files, f)}
        last == CHOOSE f \in importing : importing \subseteq UpTo(order, f)
        imports == {i \in Outside(files, last) : PackageId(i.module) = id}
    IN  CHOOSE i \in imports : \A j \in imports : j.line <= i.line

(* A package is one node, with the module of the last import of it: os or  *)
(* os.path.                                                                *)
PackageNodes(files, order, f) ==
    {Node(PackageId(i.module), IF IsLocal(i.module) THEN "Module" ELSE "ExternalPackage", None, None, 1, 1,
          <<[module |-> LastImport(files, order, PackageId(i.module)).module]>>) : i \in Outside(files, f)}

ImportEdges(files, f) ==
    LET imports == files[f].imports
        inside == {alias \in DOMAIN imports : ImportPath(files, f, imports[alias]) # None}
        meaning(alias) == Meaning(files, f, <<alias>>, <<>>)
        module(alias) == FileId(ImportPath(files, f, imports[alias]))
    IN  {Edge(FileId(f), module(alias), "IMPORTS", f, imports[alias].line, "resolved") :
            alias \in inside}
        \union {Edge(FileId(f), meaning(alias), "REFERENCES", f, imports[alias].line, "resolved") :
            alias \in {a \in inside : meaning(a) \notin {None, module(a)}}}
        \union {IF IsLocal(i.module)
                THEN Edge(FileId(f), PackageId(i.module), "IMPORTS", f, i.line, "unresolved")
                ELSE Edge(FileId(f), PackageId(i.module), "USES_PACKAGE", f, i.line, "resolved") :
            i \in Outside(files, f)}

-----------------------------------------------------------------------------
(* References.                                                             *)

ReferenceTarget(files, f, r) ==
    LET meaning == Meaning(files, f, r.target, r.scope)
    IN  IF meaning = None THEN UnresolvedId(f, r) ELSE meaning

Unresolved(files, f) == {r \in files[f].references : Meaning(files, f, r.target, r.scope) = None}

(* One node for all unresolved references to a name in a scope.            *)
UnresolvedNodes(files, f) ==
    {Node(UnresolvedId(f, r), "UnresolvedSymbol", f, Directories[f], r.line, r.line, <<>>) :
        r \in {u \in Unresolved(files, f) : \A v \in Unresolved(files, f) :
                UnresolvedId(f, v) = UnresolvedId(f, u) => v.line <= u.line}}

ReferenceEdges(files, f) ==
    {Edge(OwnerId(files, f, r.owner), ReferenceTarget(files, f, r), r.kind, f, r.line,
          IF r \in Unresolved(files, f) THEN "unresolved" ELSE "resolved") :
        r \in files[f].references}

(* Mutant: whether the package is among the nodes is not looked up.        *)
PackageEdgesUnchecked(files, f, sofar) ==
    LET module(r) == files[f].imports[Head(r.target)].module
        calls == {r \in files[f].references :
            /\ r.kind = "CALLS" /\ Head(r.target) \in DOMAIN files[f].imports
            /\ ~IsLocal(module(r)) /\ ModulePath(files, f, module(r)) = None}
    IN  {Edge(OwnerId(files, f, r.owner), PackageId(module(r)), "USES_PACKAGE", f, r.line,
              "resolved") : r \in calls}

(* A call of something imported from a package that is among the nodes by  *)
(* then: those of the files analyzed so far.                               *)
PackageEdges(files, f, sofar) ==
    LET known == UNION {PackageIds(files, g) : g \in sofar}
        module(r) == files[f].imports[Head(r.target)].module
        calls == {r \in files[f].references :
            /\ r.kind = "CALLS" /\ Head(r.target) \in DOMAIN files[f].imports
            /\ ~IsLocal(module(r)) /\ ModulePath(files, f, module(r)) = None
            /\ PackageId(module(r)) \in known}
    IN  {Edge(OwnerId(files, f, r.owner), PackageId(module(r)), "USES_PACKAGE", f, r.line,
              "resolved") : r \in calls}

HandlerEdges(files, f) ==
    {LET meaning == Meaning(files, f, e.handler, <<>>)
     IN  IF meaning = None
         THEN Edge(EndpointId(f, e), HandlerId(f, e.handler), "HANDLES", f, e.line, "unresolved")
         ELSE Edge(EndpointId(f, e), meaning, "HANDLES", f, e.line, "resolved") :
        e \in files[f].endpoints}

HandlerNodes(files, f) ==
    {Node(HandlerId(f, e.handler), "UnresolvedSymbol", f, None, e.line, e.line, <<>>) :
        e \in {e \in files[f].endpoints : /\ Meaning(files, f, e.handler, <<>>) = None
                                          /\ \A d \in files[f].endpoints :
                                                d.handler = e.handler => d.line <= e.line}}

-----------------------------------------------------------------------------
(* ORM entities: of explicit model declarations only.                      *)

Models(files, f) ==
    {s \in files[f].symbols : \E r \in files[f].references :
        r.kind = "EXTENDS" /\ r.owner = s.name /\ Last(r.target) \in ModelBases}

EntityNodes(files, f) ==
    {Node(EntityId(SymbolId(f, s)), "DatabaseEntity", f, Directories[f], s.start, s.end, s.text) :
        s \in Models(files, f)}

EntityEdges(files, f) ==
    {Edge(SymbolId(f, s), EntityId(SymbolId(f, s)), "BELONGS_TO", f, s.start, "resolved") :
        s \in Models(files, f)}

(* What a call does to the entities of the models it names; models are     *)
(* those of all files.                                                     *)
OperationEdges(files, f, models) ==
    LET operations == {r \in files[f].references :
            r.kind = "CALLS" /\ Last(r.target) \in Writes \union Reads}
        named(r) == {Meaning(files, f, <<m>>, r.scope) : m \in {Head(r.target)} \union r.models} \ {None}
    IN  UNION {{Edge(OwnerId(files, f, r.owner), EntityId(id),
                     IF Last(r.target) \in Writes THEN "WRITES_TO" ELSE "READS_FROM", f, r.line,
                     "probable") : id \in named(r) \intersect models} : r \in operations}

-----------------------------------------------------------------------------
(* Mutant: calls are looked up in the entities of the files so far.        *)
OnePass(files, order, f) ==
    UNION {{SymbolId(g, s) : s \in Models(files, g)} : g \in UpTo(order, f)}

(* The models that calls in file f are looked up in: those of all files.   *)
KnownModels(files, order, f) ==
    UNION {{SymbolId(g, s) : s \in Models(files, g)} : g \in DOMAIN files}

(* The graph of files analyzed in some order.                              *)
ResolveGraph(files, order) ==
    [nodes |-> UNION {FileNodes(files, f) \union PackageNodes(files, order, f)
                        \union UnresolvedNodes(files, f) \union HandlerNodes(files, f)
                        \union EntityNodes(files, f) : f \in DOMAIN files},
     edges |-> UNION {ContainsEdges(files, f) \union ImportEdges(files, f)
                        \union ReferenceEdges(files, f)
                        \union PackageEdges(files, f, UpTo(order, f))
                        \union HandlerEdges(files, f) \union EntityEdges(files, f)
                        \union OperationEdges(files, f, KnownModels(files, order, f)) :
                        f \in DOMAIN files}]
=============================================================================
