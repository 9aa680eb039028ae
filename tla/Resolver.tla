------------------------------ MODULE Resolver ------------------------------
(***************************************************************************)
(* The resolution of names in resolve_graph: what a name in a scope of a   *)
(* file refers to.  Definitions take the analyzed files, a function of     *)
(* their paths, as first argument.                                         *)
(*                                                                         *)
(* An id is a tuple that says what it is the id of.  A module is written   *)
(* as in the code: the names between its dots, after one "." for each of   *)
(* its leading dots.                                                       *)
(***************************************************************************)
EXTENDS CodeGraph, Analyzer

CONSTANTS
    Directories,  \* for each path, the directories it is in, outermost first
    Candidates,   \* for modules by their directories and name, the paths they may have
    MaxHops       \* limit on the steps of one resolution: 20

ASSUME ResolverBounds == MaxHops \in Nat

FileId(f) == <<"file", f>>

SymbolId(f, symbol) == <<"symbol", f, symbol.name, symbol.kind>>

-----------------------------------------------------------------------------
(* Names.                                                                  *)

(* The prefixes of a scope, innermost first.                               *)
Enclosing(scope) == [i \in 1..(Len(scope) + 1) |-> SubSeq(scope, 1, Len(scope) + 1 - i)]

Defined(files, f, name) == {s \in files[f].symbols : s.name = name}

(* The first of a sequence of sets of candidates that is not empty.        *)
FirstOf(candidates) ==
    LET found == {i \in DOMAIN candidates : candidates[i] # {}}
    IN  IF found = {} THEN {} ELSE candidates[Min(found)]

(* The leading dots of a module.                                           *)
Dots(module) == Cardinality({i \in DOMAIN module : \A j \in 1..i : module[j] = "."})

(* Where a module that file f names is looked for: a relative one from the *)
(* directory of f up.  Dots alone lead to no file, and one dot in the root *)
(* directory to "./name", which is not the path of any.                    *)
Place(f, module) ==
    LET Up(directory, level) ==
            IF level = 0 THEN module
            ELSE IF level = Len(module) \/ (level = 1 /\ directory = <<>>) THEN <<>>
            ELSE SubSeq(directory, 1, Len(directory) - (level - 1)) \o SubSeq(module, level + 1, Len(module))
    IN  Up(Directories[f], Dots(module))

CandidatesAt(place) == IF place \in DOMAIN Candidates THEN Candidates[place] ELSE <<>>

ModulePath(files, f, module) ==
    LET FirstKnown(candidates) ==
            LET known == {i \in DOMAIN candidates : candidates[i] \in DOMAIN files}
            IN  IF known = {} THEN None ELSE candidates[Min(known)]
    IN  FirstKnown(CandidatesAt(Place(f, module)))

(* module + "." + name, which adds a dot to those of "from . import name". *)
Submodule(module, name) == IF Last(module) = "." THEN module \o <<".", name>> ELSE Append(module, name)

(* What an import refers to: from package import module, or a name in it.  *)
Imported(files, f, import) ==
    LET From(path) ==
            IF path # None \/ import.name = "*" THEN [path |-> path, name |-> import.name]
            ELSE [path |-> ModulePath(files, f, Submodule(import.module, import.name)), name |-> "*"]
    IN  From(ModulePath(files, f, import.module))

(* The class that "self" is in.                                            *)
OwnerClass(files, f, scope) ==
    FirstOf([i \in 1..Len(scope) |->
        {s.name : s \in {c \in Defined(files, f, Enclosing(scope)[i]) : c.kind = "Class"}}])

(* Mutant: a name may be defined in any file.                              *)
LexicalAnywhere(files, f, target, scope) ==
    FirstOf([i \in 1..(Len(scope) + 1) |->
        UNION {Defined(files, g, Enclosing(scope)[i] \o target) : g \in DOMAIN files}])

(* Inner scopes first, and never a name of another file.                   *)
Lexical(files, f, target, scope) ==
    FirstOf([i \in 1..(Len(scope) + 1) |-> Defined(files, f, Enclosing(scope)[i] \o target)])

OfSelf(files, f, target, scope) ==
    IF Head(target) # "self" \/ Len(target) = 1 THEN {}
    ELSE UNION {Defined(files, f, class \o Tail(target)) : class \in OwnerClass(files, f, scope)}

Shadowed(files, f, name, scope) ==
    \E prefix \in ToSet(Enclosing(scope)) : <<prefix, <<name>>>> \in files[f].shadowed

Unbound(files, f, target, scope) ==
    /\ Len(target) = 1
    /\ \E prefix \in ToSet(Enclosing(scope)) :
        /\ <<prefix, target>> \in files[f].shadowed
        /\ <<prefix, target>> \notin DOMAIN files[f].bindings

(* What the first n names of a dotted name are known to be an instance of  *)
(* in a scope, if anything: those of "self" also by its constructor.       *)
Bound(files, f, target, scope, n) ==
    LET bindings == files[f].bindings
        at(prefix) == <<prefix, SubSeq(target, 1, n)>>
        init == scope \o <<"__init__">>
    IN  IF at(scope) \in DOMAIN bindings THEN {bindings[at(scope)]}
        ELSE IF n > 1 /\ Head(target) = "self" /\ at(init) \in DOMAIN bindings THEN {bindings[at(init)]}
        ELSE {}

(* What is asked of the names of a repository: a name in a scope of a file.*)
Questions(files) == (DOMAIN files) \X Names \X Seq(STRING)

(* The members that a name is of what its first n names are an instance of.*)
Members(files, f, target, scope, n, meaning) ==
    LET classes == {meaning[<<f, name, scope>>] : name \in Bound(files, f, target, scope, n)}
    IN  UNION {{<<class[2], s>> : s \in
                Defined(files, class[2], class[3] \o SubSeq(target, n + 1, Len(target)))} :
                class \in {c \in classes : c # None /\ c[1] = "symbol"}}

(* Inner scopes first, then longer receivers.                              *)
OfInstance(files, f, target, scope, meaning) ==
    LET members(i, j) == Members(files, f, target, Enclosing(scope)[i], Len(target) - j, meaning)
    IN  FirstOf([i \in 1..(Len(scope) + 1) |-> FirstOf([j \in 1..(Len(target) - 1) |-> members(i, j)])])

(* The id of what a name means in a scope of a file, or None: conservative *)
(* static rules, tried in this order, given the meaning of other names.    *)
Resolve(files, f, target, scope, meaning) ==
    LET symbol == FirstOf(<<Lexical(files, f, target, scope), OfSelf(files, f, target, scope)>>)
        instance == OfInstance(files, f, target, scope, meaning)
        imports == files[f].imports
        Through(path, name) ==
            IF path = None THEN None
            ELSE IF name = <<>> THEN FileId(path)
            ELSE meaning[<<path, name, <<>>>>]
        Of(import) == Through(import.path,
                              (IF import.name = "*" THEN <<>> ELSE <<import.name>>) \o Tail(target))
    IN  IF Unbound(files, f, target, scope) THEN None
        ELSE IF symbol # {} THEN SymbolId(f, CHOOSE s \in symbol : TRUE)
        ELSE IF instance # {} THEN LET s == CHOOSE s \in instance : TRUE IN SymbolId(s[1], s[2])
        ELSE IF Shadowed(files, f, Head(target), scope) \/ Head(target) \notin DOMAIN imports THEN None
        ELSE Of(Imported(files, f, imports[Head(target)]))

(* A name is resolved by way of others, in a limited number of hops, until *)
(* it comes back to one that was seen.                                     *)
Hop(files, meaning) ==
    [question \in Questions(files) |-> [seen \in SUBSET Questions(files) |->
        IF question \in seen THEN None
        ELSE Resolve(files, question[1], question[2], question[3],
                     [k \in Questions(files) |-> meaning[k][seen \union {question}]])]]

Meaning(files, f, target, scope) ==
    LET NoHop == [question \in Questions(files) |-> [seen \in SUBSET Questions(files) |-> None]]
        meaning[hops \in 0..(MaxHops + 1)] == IF hops = 0 THEN NoHop ELSE Hop(files, meaning[hops - 1])
    IN  meaning[MaxHops + 1][<<f, target, scope>>][{}]
=============================================================================
